------------------------------ MODULE MCVault --------------------------------
(* IdentityVault with every failure.  In a behaviour that is not `fragile`,   *)
(* nothing interrupts a restore() that could still be undone.                 *)
EXTENDS IdentityVault

CONSTANTS s1, s2, p1, p2

\* A backup of the vault of another device, made before and after that
\* vault had been backed up.
ForeignBackup(d) ==
    [did |-> s2, cek |-> [key |-> s2, password |-> p2],
     status |-> [initialized |-> TRUE, lastBackup |-> d,
                 lastRestore |-> Never]]
BothBackups == {ForeignBackup(Never), ForeignBackup(1)}

VARIABLE fragile

FragileInit == Init /\ fragile \in BOOLEAN
FragileNext ==
    \/ Works /\ UNCHANGED fragile
    \/ Fails /\ (fragile \/ ~\E c \in Caller : Restoring(c)) /\ UNCHANGED fragile
FragileSpec == FragileInit /\ [][FragileNext]_<<vars, fragile>>

\* Safety: unless a restore() was interrupted half-way, a vault that counts as
\* initialized can open what it holds, an unlocked one has the key of its DID,
\* and a backup it handed out can be restored; and always an interrupted
\* restore() can be tried again (hd-identity-vault.ts 182-211, 345-347, 670-723).
VaultWhole ==
    /\ TypeOK
    /\ CanRestore
    /\ fragile \/ (Consistent /\ KeyOpens /\ BackupsComplete)

\* The password given to the call in progress; changePassword() goes on with
\* the new one once it has stored it.
Typed ==
    LET now == call[CHOOSE c \in Caller : TRUE] IN
    IF now.at = "changeKey" THEN now.new.cek.password ELSE now.password

\* Refinement: initialize() and restore() take effect at once or not at all;
\* a failed call changes neither the identity nor its password; the vault is
\* unlocked, or given another password, only by a call that was given the one
\* of its CEK, and restored only by one that was given the backup's.
Calm == INSTANCE Vault WITH
        identity <- IF Held.status.initialized /\ ~fragile THEN Held.did ELSE None,
        password <- IF Held.status.initialized /\ ~fragile THEN Held.cek.password ELSE None,
        open     <- Held.status.initialized /\ ~fragile /\ key # None,
        typed    <- IF fragile THEN None ELSE Typed
IsVault == Calm!Spec
=============================================================================
