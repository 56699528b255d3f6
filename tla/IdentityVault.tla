--------------------------- MODULE IdentityVault ---------------------------
(***************************************************************************)
(* HdIdentityVault (agent/src/hd-identity-vault.ts).  A vault derives a    *)
(* DID and a content encryption key (CEK) from a recovery phrase, keeps    *)
(* the DID encrypted by the CEK and the CEK encrypted by a password in a   *)
(* key-value store, and is unlocked while it has the CEK in memory.        *)
(*                                                                         *)
(* Encryption is modelled by what decryption gives: an encrypted CEK is    *)
(* the seed it was derived from with the password that opens it; an        *)
(* encrypted DID is the seed of both the DID and its key.  Each write to   *)
(* the store is a step; the reads that precede a write are one step.       *)
(***************************************************************************)
EXTENDS Integers

CONSTANTS
    Caller,     \* the callers that may use the vault at the same time
    Seed,       \* recovery phrases, and what is derived from them
    Password,
    None,
    Foreign,    \* backups of other vaults
    Ops,        \* the operations callers use
    Happens,    \* which of the failures below may occur
    MaxDate     \* the bound on the dates given out

Operations == {"initialize", "lock", "unlock", "changePassword", "backup",
               "restore"}
Failures == {"createFails", "writeFails", "crash", "restoreFails"}

\* A stored date is null until it is first set.
Never  == 0
Status == [initialized : BOOLEAN, lastBackup : Nat, lastRestore : Nat]
Cek    == [key : Seed, password : Password]

\* The three records of the store.
Contents == [did : Seed \cup {None}, cek : Cek \cup {None}, status : Status]

ASSUME VaultAssumption ==
    /\ None \notin Seed \cup Password \cup Cek
    /\ Foreign \subseteq Contents
    /\ \A b \in Foreign : /\ b.did # None /\ b.cek # None
                          /\ b.did = b.cek.key
                          /\ b.status.initialized
    /\ Ops \subseteq Operations
    /\ Happens \subseteq Failures
    /\ MaxDate \in Nat

Step == {"idle",
         "initCek", "initDid", "initKey", "initStatus",
         "unlock", "changeCek", "changeKey", "backup",
         "restoreDid", "restoreCek", "restoreStatus", "restoreUnlock",
         "restoreKey", "restoreDate",
         "revertStatus", "revertCek", "revertDid"}

VARIABLES
    store,    \* _store
    key,      \* _contentEncryptionKey
    call,     \* per caller: the step it is at, what it will write, what it
              \* has read and kept, and the password it was given
    backups,  \* the backups handed out
    date      \* the last date given out

vars == <<store, key, call, backups, date>>

Empty == [did |-> None, cek |-> None,
          status |-> [initialized |-> FALSE, lastBackup |-> Never,
                      lastRestore |-> Never]]

Idle == [at |-> "idle", new |-> Empty, kept |-> Empty, password |-> None]

TypeOK ==
    /\ store \in Contents
    /\ key \in Seed \cup {None}
    /\ call \in [Caller -> [at : Step, new : Contents, kept : Contents,
                            password : Password \cup {None}]]
    /\ backups \subseteq Contents
    /\ date \in Nat

Init ==
    /\ store = Empty
    /\ key = None
    /\ call = [c \in Caller |-> Idle]
    /\ backups = {}
    /\ date = Never

-----------------------------------------------------------------------------
\* The caller c goes on to step s, or its call returns or throws.
GoTo(c, s) == call' = [call EXCEPT ![c] = [@ EXCEPT !.at = s]]
End(c)     == call' = [call EXCEPT ![c] = Idle]

\* The caller's call begins, with what it reads and is given.
Begin(c, op, s, new, kept, p) ==
    /\ op \in Ops
    /\ call[c].at = "idle"
    /\ call' = [call EXCEPT ![c] =
                   [at |-> s, new |-> new, kept |-> kept, password |-> p]]

Write(contents) == store' = contents

\* c is in a restore() that may still be undone.
Restoring(c) ==
    call[c].at \in {"restoreDid", "restoreCek", "restoreStatus",
                    "restoreUnlock", "restoreKey",
                    "revertStatus", "revertCek", "revertDid"}

-----------------------------------------------------------------------------
(* initialize *)

Initialize(c, s, p) ==
    /\ ~store.status.initialized
    /\ Begin(c, "initialize", "initCek",
             [did |-> s, cek |-> [key |-> s, password |-> p],
              status |-> store.status], Empty, p)
    /\ UNCHANGED <<store, key, backups, date>>

InitializeCek(c) ==
    /\ call[c].at = "initCek"
    /\ Write([store EXCEPT !.cek = call[c].new.cek])
    /\ GoTo(c, "initDid")
    /\ UNCHANGED <<key, backups, date>>

\* DidDht.create publishes the DID.
CreateFails(c) ==
    /\ call[c].at = "initDid"
    /\ "createFails" \in Happens
    /\ End(c)
    /\ UNCHANGED <<store, key, backups, date>>

InitializeDid(c) ==
    /\ call[c].at = "initDid"
    /\ Write([store EXCEPT !.did = call[c].new.did])
    /\ GoTo(c, "initKey")
    /\ UNCHANGED <<key, backups, date>>

InitializeKey(c) ==
    /\ call[c].at = "initKey"
    /\ key' = call[c].new.cek.key
    /\ GoTo(c, "initStatus")
    /\ UNCHANGED <<store, backups, date>>

InitializeStatus(c) ==
    /\ call[c].at = "initStatus"
    /\ Write([store EXCEPT !.status =
                 [@ EXCEPT !.initialized = TRUE]])
    /\ End(c)
    /\ UNCHANGED <<key, backups, date>>

-----------------------------------------------------------------------------
(* lock, unlock, changePassword *)

Lock(c) ==
    /\ call[c].at = "idle" /\ "lock" \in Ops
    /\ store.status.initialized
    /\ key' = None
    /\ UNCHANGED <<store, call, backups, date>>

\* Mutant: any password opens the vault.
UnlockAnyPassword(c, p) ==
    /\ store.status.initialized
    /\ key' = None
    /\ IF store.cek # None
       THEN Begin(c, "unlock", "unlock", Empty, store, p)
       ELSE call[c].at = "idle" /\ "unlock" \in Ops /\ UNCHANGED call
    /\ UNCHANGED <<store, backups, date>>

\* unlock() locks first: a wrong password leaves the vault locked.
Unlock(c, p) ==
    /\ store.status.initialized
    /\ key' = None
    /\ IF store.cek # None /\ store.cek.password = p
       THEN Begin(c, "unlock", "unlock", Empty, store, p)
       ELSE call[c].at = "idle" /\ "unlock" \in Ops /\ UNCHANGED call
    /\ UNCHANGED <<store, backups, date>>

UnlockKey(c) ==
    /\ call[c].at = "unlock"
    /\ key' = call[c].kept.cek.key
    /\ End(c)
    /\ UNCHANGED <<store, backups, date>>

\* changePassword() locks first too; the CEK is encrypted again as it is.
ChangePassword(c, old, p) ==
    /\ store.status.initialized
    /\ key' = None
    /\ IF store.cek # None /\ store.cek.password = old
       THEN Begin(c, "changePassword", "changeCek",
                  [store EXCEPT !.cek = [@ EXCEPT !.password = p]], store, old)
       ELSE call[c].at = "idle" /\ "changePassword" \in Ops /\ UNCHANGED call
    /\ UNCHANGED <<store, backups, date>>

ChangePasswordCek(c) ==
    /\ call[c].at = "changeCek"
    /\ Write([store EXCEPT !.cek = call[c].new.cek])
    /\ GoTo(c, "changeKey")
    /\ UNCHANGED <<key, backups, date>>

ChangePasswordKey(c) ==
    /\ call[c].at = "changeKey"
    /\ key' = call[c].new.cek.key
    /\ End(c)
    /\ UNCHANGED <<store, backups, date>>

-----------------------------------------------------------------------------
(* backup *)

Backup(c) ==
    /\ key # None
    /\ store.status.initialized
    /\ store.did # None /\ store.cek # None
    /\ date < MaxDate
    /\ Begin(c, "backup", "backup", Empty, store, None)
    /\ UNCHANGED <<store, key, backups, date>>

BackupDate(c) ==
    /\ call[c].at = "backup"
    /\ date' = date + 1
    /\ Write([store EXCEPT !.status = [@ EXCEPT !.lastBackup = date + 1]])
    /\ backups' = backups \cup {call[c].kept}
    /\ End(c)
    /\ UNCHANGED key

-----------------------------------------------------------------------------
(* restore *)

\* setStatus keeps a date for which it is given null.
MergedStatus(old, new) ==
    [initialized |-> new.initialized,
     lastBackup  |-> IF new.lastBackup = Never THEN old.lastBackup
                     ELSE new.lastBackup,
     lastRestore |-> IF new.lastRestore = Never THEN old.lastRestore
                     ELSE new.lastRestore]

Restore(c, b, p) ==
    /\ store.did # None /\ store.cek # None
    /\ date < MaxDate
    /\ Begin(c, "restore", "restoreDid", b, store, p)
    /\ UNCHANGED <<store, key, backups, date>>

\* The backup's data does not convert.
RestoreInvalid(c) ==
    /\ call[c].at = "restoreDid"
    /\ GoTo(c, "revertStatus")
    /\ UNCHANGED <<store, key, backups, date>>

RestoreDid(c) ==
    /\ call[c].at = "restoreDid"
    /\ Write([store EXCEPT !.did = call[c].new.did])
    /\ GoTo(c, "restoreCek")
    /\ UNCHANGED <<key, backups, date>>

RestoreCek(c) ==
    /\ call[c].at = "restoreCek"
    /\ Write([store EXCEPT !.cek = call[c].new.cek])
    /\ GoTo(c, "restoreStatus")
    /\ UNCHANGED <<key, backups, date>>

RestoreStatus(c) ==
    /\ call[c].at = "restoreStatus"
    /\ Write([store EXCEPT !.status = MergedStatus(@, call[c].new.status)])
    /\ GoTo(c, "restoreUnlock")
    /\ UNCHANGED <<key, backups, date>>

\* The unlock() within restore(): with a wrong password the old contents are
\* put back, and the vault is left locked.
RestoreUnlock(c) ==
    /\ call[c].at = "restoreUnlock"
    /\ key' = None
    /\ call' = [call EXCEPT ![c] =
                   IF store.cek.password = call[c].password
                   THEN [@ EXCEPT !.at = "restoreKey", !.new = store]
                   ELSE [@ EXCEPT !.at = "revertStatus"]]
    /\ UNCHANGED <<store, backups, date>>

RestoreKey(c) ==
    /\ call[c].at = "restoreKey"
    /\ key' = call[c].new.cek.key
    /\ GoTo(c, "restoreDate")
    /\ UNCHANGED <<store, backups, date>>

RestoreDate(c) ==
    /\ call[c].at = "restoreDate"
    /\ date' = date + 1
    /\ Write([store EXCEPT !.status = [@ EXCEPT !.lastRestore = date + 1]])
    /\ End(c)
    /\ UNCHANGED <<key, backups>>

RevertStatus(c) ==
    /\ call[c].at = "revertStatus"
    /\ Write([store EXCEPT !.status =
                 MergedStatus(@, call[c].kept.status)])
    /\ GoTo(c, "revertCek")
    /\ UNCHANGED <<key, backups, date>>

RevertCek(c) ==
    /\ call[c].at = "revertCek"
    /\ Write([store EXCEPT !.cek = call[c].kept.cek])
    /\ GoTo(c, "revertDid")
    /\ UNCHANGED <<key, backups, date>>

\* Mutant: the DID is not put back.
RevertDidForgotten(c) ==
    /\ call[c].at = "revertDid"
    /\ End(c)
    /\ UNCHANGED <<store, key, backups, date>>

RevertDid(c) ==
    /\ call[c].at = "revertDid"
    /\ Write([store EXCEPT !.did = call[c].kept.did])
    /\ End(c)
    /\ UNCHANGED <<key, backups, date>>

-----------------------------------------------------------------------------
(* Failures *)

\* A write fails.  restore() catches it until it has unlocked the backup;
\* any other call ends.  Within a restore() that may still be undone, this
\* and a crash are "restoreFails".
WriteFails(c) ==
    /\ call[c].at \in {"initCek", "initDid", "initStatus", "changeCek", "backup",
                       "restoreDid", "restoreCek", "restoreStatus",
                       "restoreDate", "revertStatus", "revertCek", "revertDid"}
    /\ (IF Restoring(c) THEN "restoreFails" ELSE "writeFails") \in Happens
    /\ IF call[c].at \in {"restoreDid", "restoreCek", "restoreStatus"}
       THEN GoTo(c, "revertStatus")
       ELSE End(c)
    /\ UNCHANGED <<store, key, backups, date>>

\* The process stops: what is in memory is lost.
Crash ==
    /\ (IF \E c \in Caller : Restoring(c) THEN "restoreFails" ELSE "crash")
           \in Happens
    /\ key' = None
    /\ call' = [c \in Caller |-> Idle]
    /\ UNCHANGED <<store, backups, date>>

Operation(c) ==
    \/ \E s \in Seed, p \in Password : Initialize(c, s, p)
    \/ Lock(c)
    \/ \E p \in Password : Unlock(c, p)
    \/ \E old, p \in Password : ChangePassword(c, old, p)
    \/ Backup(c)
    \/ \E b \in Foreign \cup backups, p \in Password : Restore(c, b, p)

Continue(c) ==
    \/ InitializeCek(c) \/ CreateFails(c) \/ InitializeDid(c)
    \/ InitializeKey(c) \/ InitializeStatus(c)
    \/ UnlockKey(c) \/ ChangePasswordCek(c) \/ ChangePasswordKey(c)
    \/ BackupDate(c)
    \/ RestoreInvalid(c) \/ RestoreDid(c) \/ RestoreCek(c) \/ RestoreStatus(c)
    \/ RestoreUnlock(c) \/ RestoreKey(c) \/ RestoreDate(c)
    \/ RevertStatus(c) \/ RevertCek(c) \/ RevertDid(c)

Works == \E c \in Caller : Operation(c) \/ Continue(c)
Fails == Crash \/ \E c \in Caller : WriteFails(c)

Next == Works \/ Fails

Spec == Init /\ [][Next]_vars
-----------------------------------------------------------------------------
(* What the vault promises *)

\* The contents the vault answers for: during a restore, the old ones.
Held == IF \E c \in Caller : Restoring(c)
        THEN call[CHOOSE c \in Caller : Restoring(c)].kept
        ELSE store

\* Safety: a vault that counts as initialized holds a DID and a CEK, and that
\* CEK decrypts that DID; only a restore in progress may separate them
\* (lines 345-347, 281-284).
Consistent ==
    Held.status.initialized =>
        Held.did # None /\ Held.cek # None /\ Held.cek.key = Held.did

\* Safety: an unlocked vault has the key of the DID it holds (line 299), so
\* getDid() succeeds, unless a restore is in progress.
KeyOpens ==
    key # None /\ store.status.initialized
        => key = store.did \/ \E c \in Caller : Restoring(c)

\* Safety: whatever failed or stopped half-way, an initialized vault has the
\* records without which restore() refuses to replace them (lines 684-694).
CanRestore == store.status.initialized => store.did # None /\ store.cek # None

\* Safety: every backup handed out can be restored: its CEK decrypts its DID.
BackupsComplete ==
    \A b \in backups : /\ b.status.initialized
                       /\ b.did # None /\ b.cek # None /\ b.did = b.cek.key
=============================================================================
