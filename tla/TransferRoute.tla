--------------------------- MODULE TransferRoute ---------------------------
(***************************************************************************)
(* create_transfer (app/routes/transfer_routes.py) around                  *)
(* execute_transfer: transfers as the clients of the HTTP API make them.   *)
(***************************************************************************)
EXTENDS TransferService

\* create_transfer reads the sender to see who owns it, and hands execute_transfer the
\* same session: the row it read stays in the identity map, unlocked.  Another user's
\* account is reported like a missing one.
CreateTransfer(r) ==
    LET c == args[r]
    IN  \/ /\ pc[r] = "idle"
           /\ c.amount > 0
           /\ Return(r, "AccountNotFound")
           /\ UNCHANGED <<dbVars, session>>
        \/ /\ Exists(c.sender) \/ c.amount <= 0
           /\ Enter(r, [NothingLoaded EXCEPT ![c.sender] = accounts[c.sender]])

RouteStep(r) == CreateTransfer(r) \/ Progress(r) \/ Abort(r)

RouteNext ==
    \/ \E r \in Requests : RouteStep(r)
    \/ \E change \in StatusChanges : SetStatus(change[1], change[2])
    \/ AllDone

RouteSpec == TransferInit /\ [][RouteNext]_transferVars
-----------------------------------------------------------------------------
(* What the lock order still guarantees when the sender was read before the lock; the  *)
(* parts of IndInv that speak of loaded values are gone.                               *)

\* A loaded row exists, its balance was not negative when it was read, and from the
\* locking query on it is locked.
LoadedIsLocked ==
    \A r \in Requests, a \in AccountIds :
        session[r][a] # NoRow =>
            /\ Exists(a)
            /\ session[r][a].balance >= 0
            /\ pc[r] = "lock2" /\ a = FirstId(args[r]) => a \in held[r]
            /\ pc[r] \in {"validate", "commit"} /\ a \in {args[r].sender, args[r].receiver} =>
                   a \in held[r]

\* The invariant of transfers over HTTP.
RouteInv ==
    /\ TransferTypeOK
    /\ RowsExclusive
    /\ LocksInOrder
    /\ LoadedIsLocked
    /\ FlushedIsValid
    /\ KeysUnique
    /\ NoOverdraft
=============================================================================
