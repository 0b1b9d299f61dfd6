----------------------------- MODULE BankSystem -----------------------------
(***************************************************************************)
(* The HTTP API as its clients meet it: the transfers of TransferRoute     *)
(* beside the routes of AccountRoutes, on one database.                    *)
(***************************************************************************)
EXTENDS TransferRoute, AccountRoutes, Reconciliation

bankVars == <<dbVars, requestVars, orderVars>>

SystemInit == TransferInit /\ OrdersInit

SystemNext ==
    \/ \E r \in Requests : RouteStep(r) /\ UNCHANGED orderVars
    \/ OrderNext /\ UNCHANGED requestVars
    \/ AllDone /\ AllAnswered

SystemSpec == SystemInit /\ [][SystemNext]_bankVars

\* As for transfers alone: what a worker has started it continues.
SystemFairness ==
    /\ \A r \in Requests : WF_bankVars(Progress(r) /\ UNCHANGED orderVars)
    /\ \A d \in Orders : WF_bankVars(Write(d) /\ UNCHANGED requestVars)
-----------------------------------------------------------------------------
\* Type correctness.
SystemTypeOK == TransferTypeOK /\ OrdersTypeOK

\* Transfers and orders compete for the same rows, and all that started are answered.
EverythingAnswered ==
    /\ \A r \in Requests : pc[r] # "idle" ~> pc[r] = "done"
    /\ \A d \in Orders : step[d] # "idle" ~> step[d] = "done"

\* What the API does, step by step, is what the bank of LedgerBank does in one: a stale
\* read can cost the balance of the account it was made on, and nothing else.
Books == INSTANCE LedgerBank WITH calls <- args
ImplementsLedgerBank == Books!BooksSpec

-----------------------------------------------------------------------------
(* What requests and orders have read, in parts; the refinement rests on it. *)

\* Every row but the sender's was read under its lock and is still what it was.
OthersCurrent ==
    \A r \in Requests :
        pc[r] # "done" =>
            \A a \in AccountIds \ {args[r].sender} :
                session[r][a] = IF a \in held[r] THEN accounts[a] ELSE NoRow

\* A row read earlier may be stale, but what it says was true once.
WasTrue(row, a) ==
    /\ row.balance \in Books!Had(a)
    /\ row.status = "ACTIVE" => Books!WasActive(a)

\* A locked row is there.
LockedRowsExist == \A r \in Requests : \A a \in held[r] : Exists(a)

SendersWereTrue ==
    \A r \in Requests :
        LET a == args[r].sender
        IN  pc[r] # "done" /\ session[r][a] # NoRow => WasTrue(session[r][a], a)

DepositsWereTrue ==
    \A d \in Orders :
        step[d] = "write" /\ orders[d].kind = "deposit_funds" =>
            /\ WasTrue(loaded[d], orders[d].account)
            /\ loaded[d].status = "ACTIVE"

\* What is read before a lock may be out of date and nothing worse: a stale row says what
\* was true once, and every row but the sender's, which create_transfer reads too early,
\* is the one in the table.
ReadsInv == LockedRowsExist /\ OthersCurrent /\ SendersWereTrue /\ DepositsWereTrue
=============================================================================
