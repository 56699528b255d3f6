------------------------------- MODULE Vault -------------------------------
(***************************************************************************)
(* What an identity vault promises its owner: it holds one identity, which *)
(* is there from the moment the vault is initialized and is replaced only  *)
(* by a restore; it is open or locked; and the owner who types a password  *)
(* opens it, or gives it another password, only with the right one.        *)
(***************************************************************************)
CONSTANTS Seed, Password, None

VARIABLES
    identity,  \* the seed of the DID it holds, or None
    password,  \* the password that opens it
    open,
    typed      \* the password its owner has typed, or None

vars == <<identity, password, open, typed>>

Init == identity = None /\ password = None /\ open = FALSE /\ typed = None

\* A call begins, with what its owner types; it may lock the vault first.
Enter(p) ==
    /\ typed = None
    /\ typed' = p
    /\ open' \in {open, FALSE}
    /\ UNCHANGED <<identity, password>>

\* A call ends, done or not.
Leave ==
    /\ typed' = None
    /\ open' \in {open, FALSE}
    /\ UNCHANGED <<identity, password>>

Lock ==
    /\ identity # None
    /\ open' = FALSE
    /\ UNCHANGED <<identity, password, typed>>

Initialize(s) ==
    /\ identity = None /\ typed # None
    /\ identity' = s /\ password' = typed
    /\ open' = TRUE /\ typed' = None

Unlock ==
    /\ identity # None /\ typed = password
    /\ open' = TRUE /\ typed' = None
    /\ UNCHANGED <<identity, password>>

\* From now on the old password does not open the vault, and p does.
ChangePassword(p) ==
    /\ identity # None /\ typed = password
    /\ password' = p /\ typed' = p
    /\ UNCHANGED <<identity, open>>

\* The vault, be its initialization unfinished, becomes the one of a backup,
\* which the typed password opens; the password it had is not asked for.
Restore(s) ==
    /\ typed # None
    /\ identity' = s /\ password' = typed /\ open' = TRUE
    /\ UNCHANGED typed

Next ==
    \/ \E p \in Password : Enter(p) \/ ChangePassword(p)
    \/ Leave \/ Lock \/ Unlock
    \/ \E s \in Seed : Initialize(s) \/ Restore(s)

Spec == Init /\ [][Next]_vars
=============================================================================
