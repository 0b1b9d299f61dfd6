# BankFlow in TLA+

Specifications of BankFlow's services (`src/app`): the money-moving core, what
account holders read of it, and the records about customers. TLC configurations
check them on small instances. TLAPS proves, for all instances, the invariants of
transfers, of the HTTP API around them, of account orders, of histories and statements,
and of the records about customers.

## The system

| Part | State it keeps | Operations | What is hard |
|---|---|---|---|
| Transfer engine (`services/transfer_service.py`) | rows of `accounts`, `transactions`, `ledger_entries`, `audit_logs` | `execute_transfer` | row locks, unique key, failure at any statement, retries |
| Transfer route (`routes/transfer_routes.py`) | none; its session's identity map | `create_transfer`, history | reads the sender before the lock, in the same session |
| Account routes (`routes/account_routes.py`) | the same tables and `idempotency_records` | create account, deposit, status, role, listings | unlocked reads, two commits per request |
| Reconciliation (`services/reconciliation_service.py`) | none (an audit row) | the report | what it does not compare |
| Audit (`services/audit_service.py`) | `audit_logs` | `record_audit_event` | belongs to the caller's transaction |
| Authentication (`services/auth_service.py`, `routes/auth_routes.py`) | `users`, first account of each | register, login, demo accounts at start | races on e-mail and account number, two commits, stale role claims |
| Branding (`models/branding.py`, `routes/config_routes.py`) | `bank_config`, meant to have one row | get-or-create, update | two first requests, a PATCH over a PATCH |
| Profiles (`models/profile.py`, `routes/profile_routes.py`) | `user_profiles`, one row per user | get-or-create, update, KYC verdict | two first requests, a PATCH over a verdict |
| History (`routes/transfer_routes.py`) and statements (`services/statement_service.py`, `routes/statement_routes.py`) | none | pages, PDF and CSV documents | lists that grow while they are paged, rows that become visible later than their time |
| Notifications (`services/notification_service.py`) | none | messages | none: failures are swallowed |
| Frontend (`frontend/src`) | token, user, lists | pages over the API | late and reordered responses |

All services meet only in the MySQL tables (InnoDB, REPEATABLE READ). Gunicorn
runs 4 workers of 4 threads, so any two requests may overlap at any statement. A
request has one SQLAlchemy session, hence one database transaction at a time.
Nothing is shared in memory between requests.

## Modules

| Module | Models | State |
|---|---|---|
| `BankTables` | the record types of `models/domain.py`, lock order, ledger arithmetic | none |
| `Database` | committed tables, row locks, the unique index on `idempotency_key`; the invariants about tables | `accounts transactions ledger audit held args` |
| `TransferService` | `execute_transfer`, one action per contact with the database | `pc session outcome` |
| `AtomicBank` | what its docstring promises: a transfer is one step | `accounts calls done` |
| `LedgerBank` | what is left of that promise for the clients of the HTTP API | `accounts ledger audit calls orders` |
| `AccountRoutes` | `create_account`, `deposit_funds`, `update_account_status`, `_check_idempotency`, `_store_idempotency` | `orders step loaded records answer earlier` |
| `Reconciliation` | `reconcile_system_balances` as operators on the state | none |
| `TransferRoute` | `create_transfer` around `execute_transfer` | that of `TransferService` |
| `BankSystem` | `TransferRoute` beside `AccountRoutes` and `Reconciliation`, on one `Database` | all of the above |
| `History` | `get_transaction_history` and the statements, beside `TransferRoute` | `now created query view papers` |
| `CentRounding` | the arithmetic of `execute_transfer` on amounts finer than a cent | `balance transfers` |
| `CustomerTables` | the record types of users, profiles and branding, what jobs may be asked | none |
| `Customers` | the tables about customers, the jobs on them, the end of a transaction | `users numbers audit tokens`, `jobs local step at locked answer` |
| `AuthService` | `register_user`, `generate_account_number`, `authenticate_user`, `ensure_demo_accounts`, `update_user_role` | that of `Customers` |
| `CustomerRecords` | profiles and KYC, branding | `profiles config lastId draft` |
| `CustomerSystem` | `AuthService` and `CustomerRecords` on the same tables | both |
| `CustomerRegistry` | what both amount to: each commit one step | `users numbers tokens audit profiles config calls` |
| `MC*` | constants for TLC | none |
| `TransferProofs`, `MoneyProofs` | proofs about `TransferSpec`; sums over accounts and ledger entries | none |
| `RouteProofs`, `AccountProofs`, `BankProofs` | proofs about `RouteSpec`, `AccountSpec` and their composition `SystemSpec` | none |
| `HistoryProofs`, `CustomerProofs`, `CentRoundingProofs` | proofs about `HistorySpec`, `CustomerSpec`, `CentSpec` | none |

**BankTables.** The request schema sets no scale for an amount, the columns keep cents. An
amount is therefore the whole cents the column keeps (`amount`) and the tenths of a cent
that rounding takes off or fills up (`residue`); `Asked` is what the client sent. The
funds check uses the amount asked, balances and entries get the amount kept, and
`SameTransfer` compares, as the code does, the amount kept of the first call with
the amount asked by the second. Only half cents, which the two balances round in different
directions, are left to `CentRounding`.

**Database.** Only committed rows are in `accounts`, `ledger` and `audit`. An
uncommitted transaction shows in the two ways others can notice it: the account
rows it holds `FOR UPDATE` (`held`) and a flushed row in the unique index
(`transactions[r] = "PENDING"`). A request is identified with its own row of
`transactions`; the arguments of the calls (`args`, `orders`) are chosen freely in
the initial state and never change, which is the same as choosing them on arrival.

**TransferService.** `Call` is everything up to the first lock: the amount check,
the key lookup and the self-transfer check, in the order of the code and on one
snapshot. `LockFirst` and `LockSecond` are the two `SELECT ... FOR UPDATE`. A
locked row is loaded into `session` unless the identity map has it already:
SQLAlchemy does not refresh a loaded object on a locking query. `Refuse`, `Flush`
and `DuplicateKey` are the outcomes of step 4 and of the flush in step 5. `Commit`
publishes steps 6 to 10 at once, with the absolute balances the code computes from
the loaded objects; its acknowledgement can be lost, and the caller then gets an
error. `Abort` is any statement failing (lock timeout, lost connection) or a dying
worker. A missing row locks nothing in the model; InnoDB's gap lock would only
delay the insertion of that very row. The key `""` is looked up by nobody because
it is false in Python, and stored all the same.

**AccountRoutes.** An order is one execution of a route. `Load`, `Reject` and
`Replay` read one snapshot without locks; `DepositFunds`, `CreateAccount` and
`UpdateAccountStatus` are the commits; `Store` is the second transaction with the
idempotency record, in which an IntegrityError is swallowed; `Crash` may come
before either commit. Who owns which account is abstracted: a caller may always be
refused. `earlier` is a history variable (the orders already answered with success
when this one arrived) and serves one property.

**TransferRoute, BankSystem.** `CreateTransfer` reads the sender and enters
`execute_transfer` with that row in `session`. `BankSystem` puts the steps of
`TransferRoute` beside those of `AccountRoutes`, unchanged.

**AtomicBank, LedgerBank.** Two abstract banks in which whatever takes place does so in
one step, and the refinement mappings are the tables. `AtomicBank` is the docstring of
`execute_transfer`: the transfer is validated, and its balances are computed, from what
the accounts hold at that moment. `TransferSpec` implements it; the API does not, because of
findings 1 and 2. `LedgerBank` is what the API does implement: each
transfer, deposit, opening and status change happens at most once, with its ledger
entries, its key unused; the receiver of a transfer is ACTIVE at that moment and credited
on its real balance; and the balance of the sender, or of the account of a deposit, is
computed from one that the account has had, of an account that was ACTIVE once.

**History.** A request has one session and its queries read one snapshot, so a page or
a statement is one step; a client who turns pages sees a new snapshot with each.
`created` is the `created_at` column: the default `utc_now` is evaluated when the row
is flushed, that is under the row locks, and kept in whole seconds. The clock is one for
all workers and never goes back, as on a single host. `Listings` are the orders in
which MySQL may return the rows: newest first, rows of one second in any order, and not
necessarily the same order for each page. `GetTransactionHistory` has the page counts,
the answer for an account of somebody else, and the failure of an empty page size.
A statement (`DownloadStatement`) is the set of its rows with the direction printed,
and a request that is refused prints none;
`papers` keeps all that were downloaded, to compare with later ones.

**CentRounding.** Columns count cents and arguments mills. Both new balances are
computed exactly and rounded one by one when they are stored; an amount that
rounds to nothing fails on the CHECK constraints. Transfers take one step here: the module
is about arithmetic, and locks have been dealt with.

**Customers, AuthService.** A job is one execution of an operation; a user is named by
the e-mail address. The steps are the statements
that can wait or fail: the lookup that fixes the snapshot (`LookUpEmail`), the
flush that meets the unique index (`InsertUser`), the draw against the snapshot
(`DrawNumber`), the commit of user and account (`ProvisionAccount`), and the audit row
in a transaction of its own (`AuditRegistration`). A registration or login
reads the user once more after that, for the role in the token (`IssueToken`). A start runs the registration for
each demo customer in turn and swallows its failures (`Return`), or brings a known one
up to date (`SyncDemoUser`). A role update trusts the claim of a token
(`CheckRole`), takes the row of the user (`UpdateRole`) and then needs the row of the
actor for the foreign key of its audit row (`CommitRole`); `DeadlockVictim` is InnoDB
breaking the cycle this makes possible. A token is never revoked; it may go unused.
Passwords and account statuses are left out: a login may always be refused, and what
a start does to a FROZEN demo account is not seen here. For a known demo customer without
an account `SyncDemoUser` opens one on the current rows, where the code looks at its
snapshot; no state has such a customer, since every user has an account from the start on
(`PrimaryAccount`). The table `audit` of this
module holds rows of other event types than that of `Database`.

**CustomerRecords.** `LoadProfile` and `InsertProfile` are `_get_or_create_profile`;
`CheckKyc` is an administrator's lookup, which creates nothing; `SaveProfile` is the
commit of all three routes. The UPDATE of a loaded row names only the supplied fields
that differ from what was loaded (`Patched`), which is why two PATCHes of different
fields do not overwrite each other. `CheckBranding`, `InsertBranding` and
`CommitBranding` are `update_branding` over `get_or_create_singleton`; a PATCH that names
no field is refused before anything is looked up; nothing stops
two first requests from inserting two rows, and every reader takes the one with the
smaller id (`EffectiveConfig`). Two fields stand for the seven of a profile and two for
those of the branding; NULL in the branding stands for the environment and the
defaults behind it.

**CustomerRegistry.** The abstract specification of all operations on customers: no
locks, snapshots, drafts or failures. A registration makes a user with a number that is
nobody's, and its audit row may follow; after the audit row of a registration or a login
there may be a token with the role of that moment; a role and the branding change together with their audit row,
on a token of an administrator; an edit sets fields of one row that the request supplies
and no other. The refinement mapping is the tables, and the calls of the jobs.

Actions whose comment starts with "Mutant of" are not part of the specifications:
they are plausible bugs, one for each property, that TLC is shown to find.

## What the runs check

| Run | Bounds | Question |
|---|---|---|
| `TransferService.cfg` | 3 requests, 3 accounts and a missing one, 1 key and `""`, 3 status changes | Do the guarantees of the docstring hold for calls that start with a fresh session? They do. Does each call return? |
| `AccountRoutes.cfg` | 3 orders of 13 kinds, 1 key and `""`, an ACTIVE, a FROZEN and two free ids | What do the routes still guarantee without locks? |
| `CustomerSystem.cfg` | 3 jobs, their calls chosen from 8 on accounts and roles, 6 on profiles, 4 on branding and 6 mixtures; 5 addresses, 5 account numbers, 2 texts | Do users keep one account each, an audited history and vouched administrators; are edits that were acknowledged still there, verdicts and branding vouched for; does every job end; is each commit a step of `CustomerRegistry`? |
| `History.cfg` | 3 transfers over 4 accounts, 1 client, a clock of 3 instants, 6 histories, 2 statements | Does paging miss a transfer? Does a statement stay true, and does it agree with the ledger? |
| `BankSystem.cfg` | 2 transfers, 2 orders, 2 accounts, 1 free id | What survives the composition, how stale can a row be that was read, does the report ever complain, and is everything that started answered? |
| `LostUpdate.cfg` | as `BankSystem.cfg` | finding: `HealthyBooks` is violated |
| `StaleSender.cfg` | as `BankSystem.cfg` | finding: `CommitsValidated` is violated |
| `DuplicateDeposit.cfg` | as `AccountRoutes.cfg`, deposits with one key | finding: `OneExecutionPerKey` is violated |
| `ReplayRace.cfg` | as `TransferService.cfg` | finding: `ReplayReturnsExisting` is violated |
| `SubCentReplay.cfg` | as `TransferService.cfg` | finding: `IdenticalReplayAccepted` is violated |
| `OneSidedDeposit.cfg` | as `BankSystem.cfg` | finding: `SystemDoubleEntry` is violated |
| `CentRounding.cfg` | 2 transfers between 2 accounts, amounts of 4 to 15 mills | finding: `MoneyConserved` is violated |

Three requests are enough for a cycle that is not just a pair, for a key that two
requests use while a third holds a row, and for a chain of two status changes
around a transfer; the proofs cover any number. Amounts of 1 and 2 against balances
of 1 and 2 hit refusal, exact use of the balance, and a remainder. The two free
ids of `AccountRoutes.cfg` let two creations overlap; a third finds none and can only fail,
which is a bound of the model. Requests and orders differ only in their calls, so the runs
without liveness use symmetry. Liveness rules symmetry out: `MCSpec` of `MCTransferService`
and `MCBankSystem` hands out the calls in one order instead (`CallsInOrder`), and the
workloads of `CustomerSystem.cfg` are listed up to the order of the jobs. Two orders of one
kind in `BankSystem.cfg` are two deposits, since two creations and two status changes meet
in `AccountRoutes.cfg`. In `CustomerSystem.cfg`, calls that touch different tables are combined only where one can disturb the other: a registration under a PATCH,
a promotion or demotion under a change of the branding.

Three transfers of one client and pages of one and two rows are the smallest history in
which a row moves from one page to the next while the client turns it; a clock of three
instants has a second with several transfers, one before and one after it, and a
statement that ends in the middle. `NothingSkipped` holds only between different
seconds: equal ones have no order of their own, and the property says so. Its guard is
the end of the list, so it covers clients who turn all pages.

What holds for calls of `execute_transfer` from a fresh session but not through the
route: validation at the moment money moves, ledgers that explain balances,
conservation. What holds in both: a transfer's paper trail, one transfer per key,
no overdraft, truthful outcomes, no deadlock, that the debits and credits of transfers are
equal, and that the balance of an account is
its latest ledger entry (`LastEntryIsBalance`). Over HTTP some of these are checked as part
of `ImplementsLedgerBank`, which says of every commit that its key is unused, that it
covers its amount and that the new balances go into the ledger; the theorems state
them one by one.

### Findings

1. **Lost update.** `deposit_funds` computes an absolute balance from an unlocked
   read (`account_routes.py:201,216`). Two overlapping deposits leave two ledger
   credits and one credit in the balance; the reconciliation report stays healthy, as
   it does in every state (`ReportAlwaysHealthy`).
2. **Stale sender.** `create_transfer` loads the sender before the lock
   (`transfer_routes.py:54`) in the session that `execute_transfer` uses; the locked
   query does not refresh it. An account frozen in between is debited, and balances
   can be overwritten like in finding 1.
3. **Duplicate deposit.** The idempotency record is checked before and stored after
   the deposit, so overlapping requests with one key are both executed.
4. **Replay race.** An identical replay that overlaps the first call ends in the
   unique-index error (500) instead of the existing transaction. No money moves twice.
5. **Half a cent.** Amounts have no scale limit (`TransferRequestSchema`), and the two
   balances are rounded one by one (`transfer_service.py:107`): a transfer of 0.005
   leaves one balance as it was and adds a cent to the other. `HalfCents` is the exact
   rule: a cent appears when and only when the amount ends in half a cent.
6. **Sub-cent replay.** The replay check compares the stored amount, which the column has
   rounded, with the amount of the call (`transfer_service.py:52`). A call for an amount
   finer than a cent is executed, and repeated word for word it is answered with a key
   conflict, where `README.md:13` promises the existing transaction. `OutcomesTruthful` says
   what a conflict does mean: the row with that key is not what this call asks for, to the
   tenth of a cent.
7. **One-sided deposits.** A deposit, and the initial balance of a new account, is a single
   CREDIT (`account_routes.py:220`), where `domain.py:140-142` speaks of balanced lines for
   every deposit and of equal debits and credits across the system. `OrderTrail` states what
   the code writes; over transfers alone the two sides are equal (`TransfersDoubleEntry`).

Two texts disagree with the code without a run of their own: a period "inclusive" of
`to_date` (`statement_routes.py:15`) ends at the midnight with which that day begins, and a
profile is made at the first visit, not "at registration" (`profile.py:8`).

## Fairness

A worker thread continues the call it has started, so each request has weak fairness
on its own steps (`Progress`, `Write`, and `Work` in `FairCustomerSpec`), and nothing
else has: no client has to call,
no administrator has to act, no statement has to fail. Weak fairness on a lock step
is enough because a status change holds a row for no longer than its own step, so
administrators cannot keep a request waiting, requests are finite in number, and InnoDB
grants locks in arrival order. `EveryJobEnds` needs one thing more of InnoDB,
which `Work` contains: that it finds a cycle of waits (`DeadlockVictim`).

## What is proved

The theorems hold for every value of the constants that satisfies the assumptions named
in the modules. For the money tables: ids are positive integers, `NoKey` and `NoRow` are
not values, the opening balances are not negative, and a call whose amount is kept as
nothing asks for no more than nothing (the CHECK constraint refuses the others). For customers: each opening user has
one account number and no two the same, a token at the opening carries the role of its
user, a profile at the opening belongs to a user, and there are finitely many jobs (the
AUTO_INCREMENT column needs a number for each). The set of requests may be infinite.

| Theorem | Property |
|---|---|
| for `TransferSpec`, calls with a fresh session | |
| `TypeCorrect`, `IndInvHolds` | type invariant; inductive invariant `IndInv` |
| `ExactlyOnce` | `OneTransferPerKey` |
| `LedgerSound` | `LedgerExplainsBalances` |
| `NeverOverdrawn` | `NoOverdraft` |
| `PaperTrailKept` | `PaperTrail` |
| `MovesAreValidated` | `CommitsValidated` |
| `CallersToldTruth` | `OutcomesTruthful` |
| `Refinement` | `ImplementsAtomicBank` |
| `TransfersConserveMoney`, `BooksOfTransfers` | `Conservation`, `BooksBalance` |
| `DeadlockFree` | `NoWaitCycle` |
| for `RouteSpec`, transfers over HTTP | |
| `RouteInvHolds` | inductive invariant `RouteInv` |
| `RouteNeverOverdrawn`, `RouteExactlyOnce`, `RouteDeadlockFree` | `NoOverdraft`, `OneTransferPerKey`, `NoWaitCycle` |
| for `AccountSpec`, the account routes | |
| `AccountInvHolds`, `OrdersTyped` | inductive invariant `AccountInv`; `OrdersTypeOK` |
| `OrdersLeaveTrail` | `OrderTrail` |
| `OrdersAnsweredTruthfully`, `RepeatsNotExecuted` | `AnswersTruthful`, `RepeatNotExecuted` |
| `StatusesAudited`, `OrdersLastEntry` | `AuditExplainsStatus`, `LastEntryIsBalance` |
| for `SystemSpec`, the whole HTTP API | |
| `BankInvHolds`, `BankTypes` | inductive invariant `BankInv`; `SystemTypeOK` |
| `BankNeverOverdrawn`, `BankExactlyOnce`, `BankDeadlockFree` | `NoOverdraft`, `OneTransferPerKey`, `NoWaitCycle` |
| `BankLastEntry` | `LastEntryIsBalance` |
| `BankPaperTrail`, `BankOrderTrail` | `PaperTrail`, `OrderTrail` |
| `ReportAlwaysHealthy`, `TransfersDoubleEntry` | `IsHealthy`, `DoubleEntry` |
| `ReadsWereTrue` | `ReadsInv` |
| `ApiRefinesLedgerBank` | `ImplementsLedgerBank` |
| `BankOutcomes`, `BankAnswers` | `OutcomesTruthful`; `AnswersTruthful` and `RepeatNotExecuted` |
| for `HistorySpec`, the readers | |
| `ReaderInvHolds`, `HistoryInvHolds` | inductive invariant `ReaderInv`; `HistoryInv` |
| `StatementsStayTrue`, `StatementsMatchLedger` | `PapersStayTrue`, `PapersMatchLedger` |
| `PagesSkipNothing` | `NothingSkipped` |
| for `CustomerSpec` | |
| `CustomerInvHolds`, `CustomerTypes` | inductive invariant `CustomerInv`; `RecordsTypeOK` |
| `CustomersOneAccount`, `CustomersRegisteredOnce` | `PrimaryAccount`, `RegisteredOnce` |
| `CustomersAnswersAudited`, `CustomersRolesExplained` | `AnswersAudited`, `AuditExplainsRole` |
| `CustomersAdminsVouched` | `AdminsVouched` |
| `CustomersKycVouched`, `CustomersBrandingExplained` | `KycVouched`, `BrandingExplained` |
| `CustomersEditsSurvive` | `EditsSurvive` |
| `CustomersRefineRegistry` | `ImplementsCustomerRegistry` |
| for `CentSpec`, natural balances and amounts | |
| `HalfCents` | `OnlyHalfCentsCreateMoney` |

**Transfers.** The argument turns on `SessionCurrent`: while a call runs from a fresh
session, what it has loaded is exactly what it has locked, and still what the table says.
It is inductive with `RowsExclusive` (one holder per row), `LocksInOrder` (which rows can
be held at which step), `FlushedIsValid` (a flushed row has passed validation) and
`KeysUnique`. Validation, conservation of the ledger chain and the refinement follow
at `Commit`, where loaded and stored balances coincide. It is this invariant that
`create_transfer` breaks. Deadlock freedom follows from `LocksInOrder`: were
every request of a set to wait for a member of the set, each would wait for its second
row, held by a request that wants a larger second id; but ids are at most `MaxId`, so
one of them wants the largest. `WellFoundedInduction` supplies the extremal element
(of `MaxId - second id`), so the set need not be finite.

**Sums.** `Conservation` and `BooksBalance` speak of sums over all accounts and all
ledger entries, that is of folds, which the library defines by recursion on the set. The
proof needs no induction over data: the fold of the library is shown to be a function with
the recursion equation on all finite subsets (`FoldExists`, by a smallest subset without
one), and two such functions agree because a smallest subset on which they differ would
have a smaller one (`MinimalSubset`, `FoldsAgree`). From there `SumMove` says that moving an
amount from one element to another leaves the sum, and `SumAdd` that a new element adds
its value. `Commit` moves the amount between two accounts and appends one DEBIT and one
CREDIT of it.

**Over HTTP** `SessionCurrent` is replaced by `LoadedIsLocked`: what a request loaded
existed, was not negative, and is locked from the locking query on, but it need not be what
the table says. That is enough for the unique index, for the lock order, and for
`NoOverdraft`, because a commit writes the loaded balance less an amount it covers. The
paper trail does not depend on balances at all: only `Commit` writes entries that carry
the request's name, and it writes both. From the paper trail follow that the two sides of
all transfers are equal (`TransfersDoubleEntry`; `DoubleEntry` of `Reconciliation` is proved and no run repeats it)
and that the report, which compares each
transfer with its own two entries and nothing else, cannot find a discrepancy
(`ReportAlwaysHealthy`): it is healthy in the states of findings 1 and 2 too.

What a stale read is worth is `ReadsInv`: the balances an account has had are its opening
balance and those its ledger states, and since `LastEntryIsBalance` makes the current one
of them, a row is true when it is read and stays true of the past, because ledgers only
grow. `OthersCurrent` is what remains of `SessionCurrent`: only the sender's row can be
stale. With that, each commit maps to a step of `LedgerBank` and every other step to a
stutter (`ApiRefinesLedgerBank`).

**Orders.** What an unlocked read still means at the commit is `LoadedIsSound`: the row
is still there (no route deletes one) and its balance was not negative. `UnusedIsBlank`
makes a new account start its ledger, so that the first entry of an account created by an
order is that order's credit. `ReplayInv` ties the second transaction of a request to the
first: `StepsAudited` (an audit row exists from the commit on, an answer only at the end),
`RecordsSound` (a stored response belongs to an order that succeeded, and each successful
order with a key finds or leaves one, also when the IntegrityError is swallowed), and
`EarlierReplayed`, which is about the past: whoever arrives after a success is answered at
its first step. `StatusInv` makes the audited status changes explain the current status: a
status change that is about to write has read the current status, or was overtaken by a
change with an audit row, and deposits, which UPDATE only the balance, keep the status. That deposits write stale balances does no harm to `LastEntryIsBalance`,
since row and entry get the same value. The lemmas are about one step of one order, so
`BankProofs` uses them beside the steps of a request; what is new there is that neither
kind of step disturbs the other's invariant.

**Readers.** Two transfers that have flushed their rows hold the locks on both their
accounts and so share none (`PendingAreApart`). A row is therefore stamped after every
committed row of its accounts (`CreatedInOrder`), and when it is committed at last it
comes behind all rows of an earlier statement. Statements agree with the ledger by
`LinesAreTrue` and the paper trail. Paging rests on `Accounted`, which says of each
row of the first list that it has been shown, shares its second with another row, or is
still ahead: there are more pages, and more rows at least as new than fit on the pages so
far. New rows only push it further back (`RowsGrow`), the next page shows it unless it is
pushed beyond that page too, and at the last page nothing can be ahead, because the
number of pages is rounded up (`CeilingCovers`). The number of pages is recomputed for
each page from a longer list, and the proof shows that this does no harm.

**Customers.** The first part of `CustomerInv` says how far each job is and what it may
rely on: `StepsFit`, `LocksHeld` (a registration holds the row it has inserted, a role
change the one it has updated, and no two jobs hold the same), `UsersKnown` and `Authorised`
(a token that was shown stays in `tokens`, although the role may be gone). The other parts
are what the properties need to be inductive. `OneNumberEach` rests on `NumberDrawn` and
on the unique index at the commit, since the draw is against an old snapshot.
`RegisteredByOne` covers the gap between the commit of user and account and that of the
audit row: a job in that gap is the only one for its address. `RecordedSoFar` says what
audit rows a job can have at each step, so that its answer can be compared with them.
`CounterBounded` counts insertions of branding rows by jobs, which bounds the counter.
`ProfileDrafts` and `BrandingDrafts` tell an inserted row from a loaded one; and
`ProfileEdits` and `BrandingEdits` carry the proof of `EditsSurvive`: the UPDATE leaves
out a field that had the new value already when it was loaded, so the acknowledged value
is only there because from the load to the commit nobody else has changed that field.
The refinement of `CustomerRegistry` adds `RecordedOwn` (a job records events about its own
address) and `OwnersKnown` (a profile is edited by somebody with a token of its user), and
then reads each commit off the invariant: the number drawn from a stale snapshot is
nobody's when the unique index lets it pass, the blank row is still the first one, and a
start never finds a known demo customer without an account, so that it changes nothing.

Only model-checked: liveness (`EveryCallReturns`, `EverythingAnswered`, `EveryJobEnds`),
which is out of the prover's reach under fairness. Every other property of a passing run is
a theorem.

## Not modelled, and the plan

What could be added:

1. Customers in the composition with money: the opening balance of a registration
   without a ledger entry, the re-activation of demo accounts, account numbers shared
   with `create_account`.
2. Frontend session: tokens, late 401 responses, reordered responses. It is state of the
   browser and touches no table.

Left out for good: layout and totals of pages and documents, the single receipt, e-mail
delivery and notifications (pure output whose failures are swallowed), the rate
limiter's counters, password hashing, the application factory and the database guard
(wiring), and seeding scripts.
