---------------------------- MODULE VaultProofs ----------------------------
(* Theorems about IdentityVault when its calls come one at a time, for any    *)
(* recovery phrases, passwords and backups of other vaults, and whatever      *)
(* fails.  Two calls that overlap can leave a vault that cannot open what it  *)
(* holds: nothing in the code keeps them apart.                               *)
EXTENDS MCVault, TLAPS

\* The vault's caller awaits a call before it makes the next.
OneCaller == \E c : Caller = {c}

-----------------------------------------------------------------------------
(* The invariant *)

Whole(x) == x.did # None /\ x.cek # None
Fits(x)  == Whole(x) /\ x.cek.key = x.did

\* What the step a call is at says, whatever has failed.
StepHolds(c) ==
    LET at == call[c].at  new == call[c].new  kept == call[c].kept IN
    /\ at \in {"initCek", "initDid", "initKey", "initStatus"} =>
          ~store.status.initialized /\ Fits(new)
    /\ at \in {"initDid", "initKey", "initStatus"} => store.cek = new.cek
    /\ at \in {"initKey", "initStatus"} => store.did = new.did
    /\ at = "initStatus" => key = new.did
    /\ at = "unlock" => store.status.initialized /\ Whole(kept)
    /\ at \in {"changeCek", "changeKey"} => store.status.initialized /\ Whole(new)
    /\ at = "backup" =>
          store.status.initialized /\ kept.status.initialized /\ Whole(kept)
    /\ Restoring(c) => Whole(store) /\ Whole(new) /\ Whole(kept)

\* What it says as long as no restore() has been interrupted half-way.
FirmHolds(c) ==
    LET at == call[c].at  new == call[c].new  kept == call[c].kept IN
    /\ ~Restoring(c) /\ store.status.initialized =>
          Fits(store) /\ key \in {None, store.did}
    /\ at = "unlock" => kept.cek.key = store.did
    /\ at \in {"changeCek", "changeKey"} => new.cek.key = store.did
    /\ at = "backup" => Fits(kept)
    /\ Restoring(c) /\ kept.status.initialized => Fits(kept) /\ key \in {None, kept.did}
    /\ at \in {"restoreDid", "restoreCek", "restoreStatus"} =>
          Fits(new) /\ new.status.initialized
    /\ at \in {"restoreCek", "restoreStatus"} => store.did = new.did
    /\ at = "restoreStatus" => store.cek = new.cek
    /\ at \in {"restoreUnlock", "restoreKey"} => store.status.initialized /\ Fits(store)
    /\ at = "restoreKey" => new = store
    /\ at \in {"revertCek", "revertDid"} =>
          store.status.initialized = kept.status.initialized
    /\ at = "revertDid" => store.cek = kept.cek

VaultInvariant ==
    /\ TypeOK /\ fragile \in BOOLEAN
    /\ CanRestore
    /\ \A c \in Caller : StepHolds(c) /\ (~fragile => FirmHolds(c))
    /\ \A b \in backups : b.status.initialized /\ Whole(b) /\ (~fragile => Fits(b))

CallType == [at : Step, new : Contents, kept : Contents,
             password : Password \cup {None}]

LEMMA InvariantTypes ==
    ASSUME VaultInvariant
    PROVE  /\ store \in Contents /\ call \in [Caller -> CallType]
           /\ key \in Seed \cup {None} /\ backups \subseteq Contents /\ date \in Nat
           /\ store.status \in Status
BY DEF VaultInvariant, TypeOK, CallType, Contents

\* Whatever a record of the store is replaced with.
LEMMA Replaced ==
    ASSUME NEW x \in Contents
    PROVE  /\ x.did \in Seed \cup {None} /\ x.cek \in Cek \cup {None}
           /\ x.status \in Status
           /\ \A v \in Seed \cup {None} :
                 /\ [x EXCEPT !.did = v] \in Contents
                 /\ [x EXCEPT !.did = v].did = v
                 /\ [x EXCEPT !.did = v].cek = x.cek
                 /\ [x EXCEPT !.did = v].status = x.status
           /\ \A v \in Cek \cup {None} :
                 /\ [x EXCEPT !.cek = v] \in Contents
                 /\ [x EXCEPT !.cek = v].cek = v
                 /\ [x EXCEPT !.cek = v].did = x.did
                 /\ [x EXCEPT !.cek = v].status = x.status
           /\ \A v \in Status :
                 /\ [x EXCEPT !.status = v] \in Contents
                 /\ [x EXCEPT !.status = v].status = v
                 /\ [x EXCEPT !.status = v].did = x.did
                 /\ [x EXCEPT !.status = v].cek = x.cek
BY DEF Contents

LEMMA Merged ==
    ASSUME NEW x \in Status, NEW y \in Status
    PROVE  MergedStatus(x, y) \in Status
           /\ MergedStatus(x, y).initialized = y.initialized
BY DEF MergedStatus, Status, Never

\* Whole contents have a key, of a seed, and a password.
LEMMA WholeHas ==
    ASSUME NEW x \in Contents, Whole(x)
    PROVE  x.did \in Seed /\ x.cek \in Cek /\ x.cek.key \in Seed
           /\ x.cek.password \in Password
BY DEF Whole, Contents, Cek

\* What one call does to the calls.
LEMMA Called ==
    ASSUME OneCaller, VaultInvariant, NEW c \in Caller, NEW r \in CallType,
           call' = [call EXCEPT ![c] = r]
    PROVE  /\ call' \in [Caller -> CallType] /\ call'[c] = r
           /\ \A d \in Caller : d = c
BY InvariantTypes DEF OneCaller

LEMMA Went ==
    ASSUME OneCaller, VaultInvariant, NEW c \in Caller, NEW s \in Step, GoTo(c, s)
    PROVE  /\ call' \in [Caller -> CallType]
           /\ call'[c].at = s /\ call'[c].new = call[c].new
           /\ call'[c].kept = call[c].kept /\ call'[c].password = call[c].password
<1>1. call \in [Caller -> CallType]
  BY InvariantTypes
<1>2. call' = [call EXCEPT ![c].at = s]
  BY DEF GoTo
<1> QED
  BY <1>1, <1>2 DEF CallType

LEMMA Ended ==
    ASSUME OneCaller, VaultInvariant, NEW c \in Caller, End(c)
    PROVE  call' \in [Caller -> CallType] /\ call'[c].at = "idle"
<1>1. Idle \in CallType /\ Idle.at = "idle"
  BY DEF Idle, Empty, CallType, Contents, Status, Step, Never
<1> QED
  BY <1>1, Called DEF End

LEMMA Begun ==
    ASSUME OneCaller, VaultInvariant, NEW c \in Caller, NEW op, NEW s \in Step,
           NEW new \in Contents, NEW kept \in Contents, NEW p \in Password \cup {None},
           Begin(c, op, s, new, kept, p)
    PROVE  /\ call[c].at = "idle" /\ call' \in [Caller -> CallType]
           /\ call'[c].at = s /\ call'[c].new = new /\ call'[c].kept = kept
           /\ call'[c].password = p
<1>1. PICK r : r = [at |-> s, new |-> new, kept |-> kept, password |-> p]
  OBVIOUS
<1>2. /\ r \in CallType /\ r.at = s /\ r.new = new /\ r.kept = kept
      /\ r.password = p
  BY <1>1 DEF CallType
<1>3. call[c].at = "idle" /\ call' = [call EXCEPT ![c] = r]
  BY <1>1 DEF Begin
<1> QED
  BY <1>2, <1>3, Called

\* What has to be shown of a step of the one caller.
LEMMA StepKeeps ==
    ASSUME OneCaller, VaultInvariant, NEW c \in Caller, UNCHANGED fragile,
           store' \in Contents, key' \in Seed \cup {None},
           call' \in [Caller -> CallType], date' \in Nat,
           \A b \in backups' : /\ b \in Contents /\ b.status.initialized /\ Whole(b)
                               /\ ~fragile => Fits(b),
           CanRestore', StepHolds(c)', ~fragile => FirmHolds(c)'
    PROVE  VaultInvariant'
BY DEF VaultInvariant, OneCaller, TypeOK, CallType

LEMMA InitializeCekKeeps ==
    ASSUME OneCaller, VaultInvariant, UNCHANGED fragile, NEW c \in Caller,
           InitializeCek(c)
    PROVE  VaultInvariant'
<1>1. /\ call[c].at = "initCek"
      /\ store' = [store EXCEPT !.cek = call[c].new.cek]
      /\ GoTo(c, "initDid")
      /\ UNCHANGED <<key, backups, date>>
  BY DEF InitializeCek, Write
<1>2. /\ call[c] \in CallType /\ StepHolds(c) /\ (~fragile => FirmHolds(c)) /\ CanRestore
      /\ store \in Contents /\ key \in Seed \cup {None} /\ date \in Nat
      /\ \A b \in backups : /\ b \in Contents /\ b.status.initialized /\ Whole(b)
                            /\ ~fragile => Fits(b)
  BY InvariantTypes DEF VaultInvariant
<1>3. /\ call' \in [Caller -> CallType] /\ call'[c].at = "initDid"
      /\ call'[c].new = call[c].new /\ call'[c].kept = call[c].kept
  BY <1>1, Went DEF Step
<1>4. /\ store' \in Contents /\ store'.cek = call[c].new.cek
      /\ store'.did = store.did /\ store'.status = store.status
  BY <1>1, <1>2, Replaced DEF CallType
<1>5. CanRestore' /\ StepHolds(c)' /\ (~fragile => FirmHolds(c)')
  BY <1>1, <1>2, <1>3, <1>4 DEF StepHolds, FirmHolds, Restoring, CanRestore, Whole, Fits
<1> QED
  BY <1>1, <1>2, <1>3, <1>4, <1>5, StepKeeps

LEMMA InitializeDidKeeps ==
    ASSUME OneCaller, VaultInvariant, UNCHANGED fragile, NEW c \in Caller,
           InitializeDid(c)
    PROVE  VaultInvariant'
<1>1. /\ call[c].at = "initDid"
      /\ store' = [store EXCEPT !.did = call[c].new.did]
      /\ GoTo(c, "initKey")
      /\ UNCHANGED <<key, backups, date>>
  BY DEF InitializeDid, Write
<1>2. /\ call[c] \in CallType /\ StepHolds(c) /\ (~fragile => FirmHolds(c)) /\ CanRestore
      /\ store \in Contents /\ key \in Seed \cup {None} /\ date \in Nat
      /\ \A b \in backups : /\ b \in Contents /\ b.status.initialized /\ Whole(b)
                            /\ ~fragile => Fits(b)
  BY InvariantTypes DEF VaultInvariant
<1>3. /\ call' \in [Caller -> CallType] /\ call'[c].at = "initKey"
      /\ call'[c].new = call[c].new /\ call'[c].kept = call[c].kept
  BY <1>1, Went DEF Step
<1>4. /\ store' \in Contents /\ store'.did = call[c].new.did
      /\ store'.cek = store.cek /\ store'.status = store.status
  BY <1>1, <1>2, Replaced DEF CallType
<1>5. CanRestore' /\ StepHolds(c)' /\ (~fragile => FirmHolds(c)')
  BY <1>1, <1>2, <1>3, <1>4 DEF StepHolds, FirmHolds, Restoring, CanRestore, Whole, Fits
<1> QED
  BY <1>1, <1>2, <1>3, <1>4, <1>5, StepKeeps

LEMMA CreateFailsKeeps ==
    ASSUME OneCaller, VaultInvariant, UNCHANGED fragile, NEW c \in Caller,
           CreateFails(c)
    PROVE  VaultInvariant'
<1>1. /\ call[c].at = "initDid"
      /\ End(c)
      /\ UNCHANGED <<store, key, backups, date>>
  BY DEF CreateFails
<1>2. /\ call[c] \in CallType /\ StepHolds(c) /\ (~fragile => FirmHolds(c)) /\ CanRestore
      /\ store \in Contents /\ key \in Seed \cup {None} /\ date \in Nat
      /\ \A b \in backups : /\ b \in Contents /\ b.status.initialized /\ Whole(b)
                            /\ ~fragile => Fits(b)
  BY InvariantTypes DEF VaultInvariant
<1>3. call' \in [Caller -> CallType] /\ call'[c].at = "idle"
  BY <1>1, Ended
<1>4. store' = store
  BY <1>1
<1>5. CanRestore' /\ StepHolds(c)' /\ (~fragile => FirmHolds(c)')
  BY <1>1, <1>2, <1>3, <1>4 DEF StepHolds, FirmHolds, Restoring, CanRestore, Whole, Fits
<1> QED
  BY <1>1, <1>2, <1>3, <1>4, <1>5, StepKeeps

LEMMA RestoreDidKeeps ==
    ASSUME OneCaller, VaultInvariant, UNCHANGED fragile, NEW c \in Caller,
           RestoreDid(c)
    PROVE  VaultInvariant'
<1>1. /\ call[c].at = "restoreDid"
      /\ store' = [store EXCEPT !.did = call[c].new.did]
      /\ GoTo(c, "restoreCek")
      /\ UNCHANGED <<key, backups, date>>
  BY DEF RestoreDid, Write
<1>2. /\ call[c] \in CallType /\ StepHolds(c) /\ (~fragile => FirmHolds(c)) /\ CanRestore
      /\ store \in Contents /\ key \in Seed \cup {None} /\ date \in Nat
      /\ \A b \in backups : /\ b \in Contents /\ b.status.initialized /\ Whole(b)
                            /\ ~fragile => Fits(b)
  BY InvariantTypes DEF VaultInvariant
<1>3. /\ call' \in [Caller -> CallType] /\ call'[c].at = "restoreCek"
      /\ call'[c].new = call[c].new /\ call'[c].kept = call[c].kept
  BY <1>1, Went DEF Step
<1>4. /\ store' \in Contents /\ store'.did = call[c].new.did
      /\ store'.cek = store.cek /\ store'.status = store.status
  BY <1>1, <1>2, Replaced DEF CallType
<1>5. CanRestore' /\ StepHolds(c)' /\ (~fragile => FirmHolds(c)')
  BY <1>1, <1>2, <1>3, <1>4 DEF StepHolds, FirmHolds, Restoring, CanRestore, Whole, Fits
<1> QED
  BY <1>1, <1>2, <1>3, <1>4, <1>5, StepKeeps

LEMMA RestoreCekKeeps ==
    ASSUME OneCaller, VaultInvariant, UNCHANGED fragile, NEW c \in Caller,
           RestoreCek(c)
    PROVE  VaultInvariant'
<1>1. /\ call[c].at = "restoreCek"
      /\ store' = [store EXCEPT !.cek = call[c].new.cek]
      /\ GoTo(c, "restoreStatus")
      /\ UNCHANGED <<key, backups, date>>
  BY DEF RestoreCek, Write
<1>2. /\ call[c] \in CallType /\ StepHolds(c) /\ (~fragile => FirmHolds(c)) /\ CanRestore
      /\ store \in Contents /\ key \in Seed \cup {None} /\ date \in Nat
      /\ \A b \in backups : /\ b \in Contents /\ b.status.initialized /\ Whole(b)
                            /\ ~fragile => Fits(b)
  BY InvariantTypes DEF VaultInvariant
<1>3. /\ call' \in [Caller -> CallType] /\ call'[c].at = "restoreStatus"
      /\ call'[c].new = call[c].new /\ call'[c].kept = call[c].kept
  BY <1>1, Went DEF Step
<1>4. /\ store' \in Contents /\ store'.cek = call[c].new.cek
      /\ store'.did = store.did /\ store'.status = store.status
  BY <1>1, <1>2, Replaced DEF CallType
<1>5. CanRestore' /\ StepHolds(c)' /\ (~fragile => FirmHolds(c)')
  BY <1>1, <1>2, <1>3, <1>4 DEF StepHolds, FirmHolds, Restoring, CanRestore, Whole, Fits
<1> QED
  BY <1>1, <1>2, <1>3, <1>4, <1>5, StepKeeps

LEMMA RestoreInvalidKeeps ==
    ASSUME OneCaller, VaultInvariant, UNCHANGED fragile, NEW c \in Caller,
           RestoreInvalid(c)
    PROVE  VaultInvariant'
<1>1. /\ call[c].at = "restoreDid"
      /\ GoTo(c, "revertStatus")
      /\ UNCHANGED <<store, key, backups, date>>
  BY DEF RestoreInvalid
<1>2. /\ call[c] \in CallType /\ StepHolds(c) /\ (~fragile => FirmHolds(c)) /\ CanRestore
      /\ store \in Contents /\ key \in Seed \cup {None} /\ date \in Nat
      /\ \A b \in backups : /\ b \in Contents /\ b.status.initialized /\ Whole(b)
                            /\ ~fragile => Fits(b)
  BY InvariantTypes DEF VaultInvariant
<1>3. /\ call' \in [Caller -> CallType] /\ call'[c].at = "revertStatus"
      /\ call'[c].new = call[c].new /\ call'[c].kept = call[c].kept
  BY <1>1, Went DEF Step
<1>4. store' = store
  BY <1>1
<1>5. CanRestore' /\ StepHolds(c)' /\ (~fragile => FirmHolds(c)')
  BY <1>1, <1>2, <1>3, <1>4 DEF StepHolds, FirmHolds, Restoring, CanRestore, Whole, Fits
<1> QED
  BY <1>1, <1>2, <1>3, <1>4, <1>5, StepKeeps

LEMMA RevertCekKeeps ==
    ASSUME OneCaller, VaultInvariant, UNCHANGED fragile, NEW c \in Caller,
           RevertCek(c)
    PROVE  VaultInvariant'
<1>1. /\ call[c].at = "revertCek"
      /\ store' = [store EXCEPT !.cek = call[c].kept.cek]
      /\ GoTo(c, "revertDid")
      /\ UNCHANGED <<key, backups, date>>
  BY DEF RevertCek, Write
<1>2. /\ call[c] \in CallType /\ StepHolds(c) /\ (~fragile => FirmHolds(c)) /\ CanRestore
      /\ store \in Contents /\ key \in Seed \cup {None} /\ date \in Nat
      /\ \A b \in backups : /\ b \in Contents /\ b.status.initialized /\ Whole(b)
                            /\ ~fragile => Fits(b)
  BY InvariantTypes DEF VaultInvariant
<1>3. /\ call' \in [Caller -> CallType] /\ call'[c].at = "revertDid"
      /\ call'[c].new = call[c].new /\ call'[c].kept = call[c].kept
  BY <1>1, Went DEF Step
<1>4. /\ store' \in Contents /\ store'.cek = call[c].kept.cek
      /\ store'.did = store.did /\ store'.status = store.status
  BY <1>1, <1>2, Replaced DEF CallType
<1>5. CanRestore' /\ StepHolds(c)' /\ (~fragile => FirmHolds(c)')
  BY <1>1, <1>2, <1>3, <1>4 DEF StepHolds, FirmHolds, Restoring, CanRestore, Whole, Fits
<1> QED
  BY <1>1, <1>2, <1>3, <1>4, <1>5, StepKeeps

LEMMA RevertDidKeeps ==
    ASSUME OneCaller, VaultInvariant, UNCHANGED fragile, NEW c \in Caller,
           RevertDid(c)
    PROVE  VaultInvariant'
<1>1. /\ call[c].at = "revertDid"
      /\ store' = [store EXCEPT !.did = call[c].kept.did]
      /\ End(c)
      /\ UNCHANGED <<key, backups, date>>
  BY DEF RevertDid, Write
<1>2. /\ call[c] \in CallType /\ StepHolds(c) /\ (~fragile => FirmHolds(c)) /\ CanRestore
      /\ store \in Contents /\ key \in Seed \cup {None} /\ date \in Nat
      /\ \A b \in backups : /\ b \in Contents /\ b.status.initialized /\ Whole(b)
                            /\ ~fragile => Fits(b)
  BY InvariantTypes DEF VaultInvariant
<1>3. call' \in [Caller -> CallType] /\ call'[c].at = "idle"
  BY <1>1, Ended
<1>4. /\ store' \in Contents /\ store'.did = call[c].kept.did
      /\ store'.cek = store.cek /\ store'.status = store.status
  BY <1>1, <1>2, Replaced DEF CallType
<1>5. CanRestore' /\ StepHolds(c)' /\ (~fragile => FirmHolds(c)')
  BY <1>1, <1>2, <1>3, <1>4 DEF StepHolds, FirmHolds, Restoring, CanRestore, Whole, Fits
<1> QED
  BY <1>1, <1>2, <1>3, <1>4, <1>5, StepKeeps

LEMMA ChangePasswordCekKeeps ==
    ASSUME OneCaller, VaultInvariant, UNCHANGED fragile, NEW c \in Caller,
           ChangePasswordCek(c)
    PROVE  VaultInvariant'
<1>1. /\ call[c].at = "changeCek"
      /\ store' = [store EXCEPT !.cek = call[c].new.cek]
      /\ GoTo(c, "changeKey")
      /\ UNCHANGED <<key, backups, date>>
  BY DEF ChangePasswordCek, Write
<1>2. /\ call[c] \in CallType /\ StepHolds(c) /\ (~fragile => FirmHolds(c)) /\ CanRestore
      /\ store \in Contents /\ key \in Seed \cup {None} /\ date \in Nat
      /\ \A b \in backups : /\ b \in Contents /\ b.status.initialized /\ Whole(b)
                            /\ ~fragile => Fits(b)
  BY InvariantTypes DEF VaultInvariant
<1>3. /\ call' \in [Caller -> CallType] /\ call'[c].at = "changeKey"
      /\ call'[c].new = call[c].new /\ call'[c].kept = call[c].kept
  BY <1>1, Went DEF Step
<1>4. /\ store' \in Contents /\ store'.cek = call[c].new.cek
      /\ store'.did = store.did /\ store'.status = store.status
  BY <1>1, <1>2, Replaced DEF CallType
<1>5. CanRestore' /\ StepHolds(c)' /\ (~fragile => FirmHolds(c)')
  BY <1>1, <1>2, <1>3, <1>4 DEF StepHolds, FirmHolds, Restoring, CanRestore, Whole, Fits
<1> QED
  BY <1>1, <1>2, <1>3, <1>4, <1>5, StepKeeps

LEMMA InitializeKeeps ==
    ASSUME OneCaller, VaultInvariant, UNCHANGED fragile, NEW c \in Caller,
           NEW s \in Seed, NEW p \in Password,
           Initialize(c, s, p)
    PROVE  VaultInvariant'
<1>1. PICK new : new = [did |-> s, cek |-> [key |-> s, password |-> p],
                        status |-> store.status]
  OBVIOUS
<1>2. /\ call[c] \in CallType /\ StepHolds(c) /\ (~fragile => FirmHolds(c)) /\ CanRestore
      /\ store \in Contents /\ key \in Seed \cup {None} /\ date \in Nat
      /\ \A b \in backups : /\ b \in Contents /\ b.status.initialized /\ Whole(b)
                            /\ ~fragile => Fits(b)
  BY InvariantTypes DEF VaultInvariant
<1>3. /\ new \in Contents /\ new.did = s /\ new.cek.key = s /\ new.did # None /\ new.cek # None
      /\ Empty \in Contents
  <2>1. [key |-> s, password |-> p] \in Cek /\ store.status \in Status
    BY InvariantTypes DEF Cek
  <2>2. new \in Contents /\ new.did = s /\ new.cek = [key |-> s, password |-> p]
    BY <1>1, <2>1 DEF Contents
  <2> QED
    BY <2>1, <2>2, VaultAssumption DEF Empty, Contents, Status, Never
<1>4. /\ call[c].at = "idle" /\ ~store.status.initialized
      /\ call' \in [Caller -> CallType] /\ call'[c].at = "initCek" /\ call'[c].new = new
      /\ UNCHANGED <<store, key, backups, date>>
  <2>1. Begin(c, "initialize", "initCek", new, Empty, p)
    BY <1>1 DEF Initialize
  <2>2. "initCek" \in Step
    BY DEF Step
  <2>3. /\ call[c].at = "idle" /\ call' \in [Caller -> CallType]
        /\ call'[c].at = "initCek" /\ call'[c].new = new
    BY <1>3, <2>1, <2>2, Begun
  <2> QED
    BY <2>3 DEF Initialize
<1>5. CanRestore' /\ StepHolds(c)' /\ (~fragile => FirmHolds(c)')
  BY <1>1, <1>2, <1>3, <1>4 DEF StepHolds, FirmHolds, Restoring, CanRestore, Whole, Fits
<1> QED
  BY <1>1, <1>2, <1>3, <1>4, <1>5, StepKeeps

LEMMA InitializeKeyKeeps ==
    ASSUME OneCaller, VaultInvariant, UNCHANGED fragile, NEW c \in Caller,
           InitializeKey(c)
    PROVE  VaultInvariant'
<1>1. /\ call[c].at = "initKey" /\ key' = call[c].new.cek.key
      /\ GoTo(c, "initStatus")
      /\ UNCHANGED <<store, backups, date>>
  BY DEF InitializeKey
<1>2. /\ call[c] \in CallType /\ StepHolds(c) /\ (~fragile => FirmHolds(c)) /\ CanRestore
      /\ store \in Contents /\ key \in Seed \cup {None} /\ date \in Nat
      /\ \A b \in backups : /\ b \in Contents /\ b.status.initialized /\ Whole(b)
                            /\ ~fragile => Fits(b)
  BY InvariantTypes DEF VaultInvariant
<1>3. /\ call' \in [Caller -> CallType] /\ call'[c].at = "initStatus"
      /\ call'[c].new = call[c].new /\ call'[c].kept = call[c].kept
  BY <1>1, Went DEF Step
<1>4. key' = call[c].new.did /\ key' \in Seed
  BY <1>1, <1>2, WholeHas DEF StepHolds, Fits, CallType
<1>5. CanRestore' /\ StepHolds(c)' /\ (~fragile => FirmHolds(c)')
  BY <1>1, <1>2, <1>3, <1>4 DEF StepHolds, FirmHolds, Restoring, CanRestore, Whole, Fits
<1> QED
  BY <1>1, <1>2, <1>3, <1>4, <1>5, StepKeeps

LEMMA InitializeStatusKeeps ==
    ASSUME OneCaller, VaultInvariant, UNCHANGED fragile, NEW c \in Caller,
           InitializeStatus(c)
    PROVE  VaultInvariant'
<1>1. /\ call[c].at = "initStatus" /\ End(c)
      /\ store' = [store EXCEPT !.status = [store.status EXCEPT !.initialized = TRUE]]
      /\ UNCHANGED <<key, backups, date>>
  BY DEF InitializeStatus, Write
<1>2. /\ call[c] \in CallType /\ StepHolds(c) /\ (~fragile => FirmHolds(c)) /\ CanRestore
      /\ store \in Contents /\ key \in Seed \cup {None} /\ date \in Nat
      /\ \A b \in backups : /\ b \in Contents /\ b.status.initialized /\ Whole(b)
                            /\ ~fragile => Fits(b)
  BY InvariantTypes DEF VaultInvariant
<1>3. call' \in [Caller -> CallType] /\ call'[c].at = "idle"
  BY <1>1, Ended
<1>4. /\ store' \in Contents /\ store'.did = store.did /\ store'.cek = store.cek
      /\ store'.status.initialized = TRUE
  <2>1. PICK status : status = [store.status EXCEPT !.initialized = TRUE]
    OBVIOUS
  <2>2. status \in Status /\ status.initialized = TRUE
    BY <2>1, InvariantTypes DEF Status
  <2> QED
    BY <1>1, <1>2, <2>1, <2>2, Replaced
<1>5. CanRestore' /\ StepHolds(c)' /\ (~fragile => FirmHolds(c)')
  BY <1>1, <1>2, <1>3, <1>4 DEF StepHolds, FirmHolds, Restoring, CanRestore, Whole, Fits
<1> QED
  BY <1>1, <1>2, <1>3, <1>4, <1>5, StepKeeps

LEMMA LockKeeps ==
    ASSUME OneCaller, VaultInvariant, UNCHANGED fragile, NEW c \in Caller,
           Lock(c)
    PROVE  VaultInvariant'
<1>1. /\ call[c].at = "idle" /\ key' = None
      /\ UNCHANGED <<store, call, backups, date>>
  BY DEF Lock
<1>2. /\ call[c] \in CallType /\ StepHolds(c) /\ (~fragile => FirmHolds(c)) /\ CanRestore
      /\ store \in Contents /\ key \in Seed \cup {None} /\ date \in Nat
      /\ \A b \in backups : /\ b \in Contents /\ b.status.initialized /\ Whole(b)
                            /\ ~fragile => Fits(b)
  BY InvariantTypes DEF VaultInvariant
<1>3. call' \in [Caller -> CallType]
  BY <1>1, InvariantTypes
<1>4. call'[c] = call[c]
  BY <1>1
<1>5. CanRestore' /\ StepHolds(c)' /\ (~fragile => FirmHolds(c)')
  BY <1>1, <1>2, <1>3, <1>4 DEF StepHolds, FirmHolds, Restoring, CanRestore, Whole, Fits
<1> QED
  BY <1>1, <1>2, <1>3, <1>4, <1>5, StepKeeps

LEMMA UnlockKeeps ==
    ASSUME OneCaller, VaultInvariant, UNCHANGED fragile, NEW c \in Caller,
           NEW p \in Password,
           Unlock(c, p)
    PROVE  VaultInvariant'
<1>1. /\ store.status.initialized /\ key' = None
      /\ UNCHANGED <<store, backups, date>>
      /\ \/ Begin(c, "unlock", "unlock", Empty, store, p)
         \/ call[c].at = "idle" /\ UNCHANGED call
  BY DEF Unlock
<1>2. /\ call[c] \in CallType /\ StepHolds(c) /\ (~fragile => FirmHolds(c)) /\ CanRestore
      /\ store \in Contents /\ key \in Seed \cup {None} /\ date \in Nat
      /\ \A b \in backups : /\ b \in Contents /\ b.status.initialized /\ Whole(b)
                            /\ ~fragile => Fits(b)
  BY InvariantTypes DEF VaultInvariant
<1>3. Empty \in Contents
  BY DEF Empty, Contents, Status, Never
<1>4. /\ call[c].at = "idle" /\ call' \in [Caller -> CallType]
      /\ \/ call'[c].at = "unlock" /\ call'[c].kept = store
         \/ call'[c].at = "idle"
  <2>1. CASE Begin(c, "unlock", "unlock", Empty, store, p)
    <3>1. "unlock" \in Step
      BY DEF Step
    <3> QED
      BY <1>2, <1>3, <2>1, <3>1, Begun
  <2>2. CASE call[c].at = "idle" /\ UNCHANGED call
    BY <2>2, InvariantTypes
  <2> QED
    BY <1>1, <2>1, <2>2
<1>5. CanRestore' /\ StepHolds(c)' /\ (~fragile => FirmHolds(c)')
  BY <1>1, <1>2, <1>3, <1>4 DEF StepHolds, FirmHolds, Restoring, CanRestore, Whole, Fits
<1> QED
  BY <1>1, <1>2, <1>3, <1>4, <1>5, StepKeeps

LEMMA UnlockKeyKeeps ==
    ASSUME OneCaller, VaultInvariant, UNCHANGED fragile, NEW c \in Caller,
           UnlockKey(c)
    PROVE  VaultInvariant'
<1>1. /\ call[c].at = "unlock" /\ key' = call[c].kept.cek.key /\ End(c)
      /\ UNCHANGED <<store, backups, date>>
  BY DEF UnlockKey
<1>2. /\ call[c] \in CallType /\ StepHolds(c) /\ (~fragile => FirmHolds(c)) /\ CanRestore
      /\ store \in Contents /\ key \in Seed \cup {None} /\ date \in Nat
      /\ \A b \in backups : /\ b \in Contents /\ b.status.initialized /\ Whole(b)
                            /\ ~fragile => Fits(b)
  BY InvariantTypes DEF VaultInvariant
<1>3. call' \in [Caller -> CallType] /\ call'[c].at = "idle"
  BY <1>1, Ended
<1>4. key' \in Seed
  BY <1>1, <1>2, WholeHas DEF StepHolds, CallType
<1>5. CanRestore' /\ StepHolds(c)' /\ (~fragile => FirmHolds(c)')
  BY <1>1, <1>2, <1>3, <1>4 DEF StepHolds, FirmHolds, Restoring, CanRestore, Whole, Fits
<1> QED
  BY <1>1, <1>2, <1>3, <1>4, <1>5, StepKeeps

LEMMA ChangePasswordKeeps ==
    ASSUME OneCaller, VaultInvariant, UNCHANGED fragile, NEW c \in Caller,
           NEW old \in Password, NEW p \in Password,
           ChangePassword(c, old, p)
    PROVE  VaultInvariant'
<1>1. PICK new : new = [store EXCEPT !.cek = [store.cek EXCEPT !.password = p]]
  OBVIOUS
<1>2. /\ call[c] \in CallType /\ StepHolds(c) /\ (~fragile => FirmHolds(c)) /\ CanRestore
      /\ store \in Contents /\ key \in Seed \cup {None} /\ date \in Nat
      /\ \A b \in backups : /\ b \in Contents /\ b.status.initialized /\ Whole(b)
                            /\ ~fragile => Fits(b)
  BY InvariantTypes DEF VaultInvariant
<1>3. /\ store.status.initialized /\ key' = None
      /\ UNCHANGED <<store, backups, date>>
      /\ \/ Begin(c, "changePassword", "changeCek", new, store, old)
         \/ call[c].at = "idle" /\ UNCHANGED call
  BY <1>1 DEF ChangePassword
<1>4. /\ call[c].at = "idle" /\ call' \in [Caller -> CallType]
      /\ \/ /\ call'[c].at = "changeCek" /\ call'[c].new.did = store.did
            /\ call'[c].new.cek # None /\ call'[c].new.cek.key = store.cek.key
         \/ call'[c].at = "idle"
  <2>1. CASE Begin(c, "changePassword", "changeCek", new, store, old)
    <3>1. Whole(store)
      BY <1>2, <1>3 DEF CanRestore, Whole
    <3>2. PICK cek : cek = [store.cek EXCEPT !.password = p]
      OBVIOUS
    <3>3. cek \in Cek /\ cek.key = store.cek.key /\ cek # None
      BY <1>2, <3>1, <3>2, WholeHas, VaultAssumption DEF Cek
    <3>4. new \in Contents /\ new.cek = cek /\ new.did = store.did
      BY <1>1, <1>2, <3>2, <3>3, Replaced
    <3>5. "changeCek" \in Step
      BY DEF Step
    <3>6. /\ call[c].at = "idle" /\ call' \in [Caller -> CallType]
          /\ call'[c].at = "changeCek" /\ call'[c].new = new
      BY <1>2, <2>1, <3>4, <3>5, Begun
    <3> QED
      BY <3>3, <3>4, <3>6
  <2>2. CASE call[c].at = "idle" /\ UNCHANGED call
    BY <2>2, InvariantTypes
  <2> QED
    BY <1>3, <2>1, <2>2
<1>5. CanRestore' /\ StepHolds(c)' /\ (~fragile => FirmHolds(c)')
  BY <1>1, <1>2, <1>3, <1>4 DEF StepHolds, FirmHolds, Restoring, CanRestore, Whole, Fits
<1> QED
  BY <1>1, <1>2, <1>3, <1>4, <1>5, StepKeeps

LEMMA ChangePasswordKeyKeeps ==
    ASSUME OneCaller, VaultInvariant, UNCHANGED fragile, NEW c \in Caller,
           ChangePasswordKey(c)
    PROVE  VaultInvariant'
<1>1. /\ call[c].at = "changeKey" /\ key' = call[c].new.cek.key /\ End(c)
      /\ UNCHANGED <<store, backups, date>>
  BY DEF ChangePasswordKey
<1>2. /\ call[c] \in CallType /\ StepHolds(c) /\ (~fragile => FirmHolds(c)) /\ CanRestore
      /\ store \in Contents /\ key \in Seed \cup {None} /\ date \in Nat
      /\ \A b \in backups : /\ b \in Contents /\ b.status.initialized /\ Whole(b)
                            /\ ~fragile => Fits(b)
  BY InvariantTypes DEF VaultInvariant
<1>3. call' \in [Caller -> CallType] /\ call'[c].at = "idle"
  BY <1>1, Ended
<1>4. key' \in Seed
  BY <1>1, <1>2, WholeHas DEF StepHolds, CallType
<1>5. CanRestore' /\ StepHolds(c)' /\ (~fragile => FirmHolds(c)')
  BY <1>1, <1>2, <1>3, <1>4 DEF StepHolds, FirmHolds, Restoring, CanRestore, Whole, Fits
<1> QED
  BY <1>1, <1>2, <1>3, <1>4, <1>5, StepKeeps

LEMMA BackupKeeps ==
    ASSUME OneCaller, VaultInvariant, UNCHANGED fragile, NEW c \in Caller,
           Backup(c)
    PROVE  VaultInvariant'
<1>1. /\ store.status.initialized /\ store.did # None /\ store.cek # None
      /\ Begin(c, "backup", "backup", Empty, store, None)
      /\ UNCHANGED <<store, key, backups, date>>
  BY DEF Backup
<1>2. /\ call[c] \in CallType /\ StepHolds(c) /\ (~fragile => FirmHolds(c)) /\ CanRestore
      /\ store \in Contents /\ key \in Seed \cup {None} /\ date \in Nat
      /\ \A b \in backups : /\ b \in Contents /\ b.status.initialized /\ Whole(b)
                            /\ ~fragile => Fits(b)
  BY InvariantTypes DEF VaultInvariant
<1>3. Empty \in Contents
  BY DEF Empty, Contents, Status, Never
<1>4. /\ call[c].at = "idle" /\ call' \in [Caller -> CallType]
      /\ call'[c].at = "backup" /\ call'[c].kept = store
  <2>1. "backup" \in Step
    BY DEF Step
  <2> QED
    BY <1>1, <1>2, <1>3, <2>1, Begun
<1>5. CanRestore' /\ StepHolds(c)' /\ (~fragile => FirmHolds(c)')
  BY <1>1, <1>2, <1>3, <1>4 DEF StepHolds, FirmHolds, Restoring, CanRestore, Whole, Fits
<1> QED
  BY <1>1, <1>2, <1>3, <1>4, <1>5, StepKeeps

LEMMA BackupDateKeeps ==
    ASSUME OneCaller, VaultInvariant, UNCHANGED fragile, NEW c \in Caller,
           BackupDate(c)
    PROVE  VaultInvariant'
<1>1. /\ call[c].at = "backup" /\ date' = date + 1 /\ End(c)
      /\ store' = [store EXCEPT !.status = [store.status EXCEPT !.lastBackup = date + 1]]
      /\ backups' = backups \cup {call[c].kept} /\ UNCHANGED key
  BY DEF BackupDate, Write
<1>2. /\ call[c] \in CallType /\ StepHolds(c) /\ (~fragile => FirmHolds(c)) /\ CanRestore
      /\ store \in Contents /\ key \in Seed \cup {None} /\ date \in Nat
      /\ \A b \in backups : /\ b \in Contents /\ b.status.initialized /\ Whole(b)
                            /\ ~fragile => Fits(b)
  BY InvariantTypes DEF VaultInvariant
<1>3. call' \in [Caller -> CallType] /\ call'[c].at = "idle"
  BY <1>1, Ended
<1>4. /\ store' \in Contents /\ store'.did = store.did /\ store'.cek = store.cek
      /\ store'.status.initialized = store.status.initialized
  <2>1. PICK status : status = [store.status EXCEPT !.lastBackup = date + 1]
    OBVIOUS
  <2>2. status \in Status /\ status.initialized = store.status.initialized
    BY <1>2, <2>1, InvariantTypes DEF Status
  <2> QED
    BY <1>1, <1>2, <2>1, <2>2, Replaced
<1>5. CanRestore' /\ StepHolds(c)' /\ (~fragile => FirmHolds(c)')
  BY <1>1, <1>2, <1>3, <1>4 DEF StepHolds, FirmHolds, Restoring, CanRestore, Whole, Fits
<1>6. \A b \in backups' : /\ b \in Contents /\ b.status.initialized /\ Whole(b)
                          /\ ~fragile => Fits(b)
  <2>1. /\ call[c].kept \in Contents /\ call[c].kept.status.initialized
        /\ Whole(call[c].kept) /\ (~fragile => Fits(call[c].kept))
    BY <1>1, <1>2 DEF StepHolds, FirmHolds, CallType
  <2> QED
    BY <1>1, <1>2, <2>1
<1>7. date' \in Nat
  BY <1>1, <1>2
<1> QED
  BY <1>1, <1>2, <1>3, <1>4, <1>5, <1>6, <1>7, StepKeeps

LEMMA RestoreKeeps ==
    ASSUME OneCaller, VaultInvariant, UNCHANGED fragile, NEW c \in Caller,
           NEW b \in Foreign \cup backups,
           NEW p \in Password,
           Restore(c, b, p)
    PROVE  VaultInvariant'
<1>1. /\ store.did # None /\ store.cek # None
      /\ Begin(c, "restore", "restoreDid", b, store, p)
      /\ UNCHANGED <<store, key, backups, date>>
  BY DEF Restore
<1>2. /\ call[c] \in CallType /\ StepHolds(c) /\ (~fragile => FirmHolds(c)) /\ CanRestore
      /\ store \in Contents /\ key \in Seed \cup {None} /\ date \in Nat
      /\ \A x \in backups : /\ x \in Contents /\ x.status.initialized /\ Whole(x)
                            /\ ~fragile => Fits(x)
  BY InvariantTypes DEF VaultInvariant
<1>3. b \in Contents /\ b.status.initialized /\ Whole(b) /\ (~fragile => Fits(b))
  BY <1>2, VaultAssumption DEF Whole, Fits
<1>4. /\ call[c].at = "idle" /\ call' \in [Caller -> CallType]
      /\ call'[c].at = "restoreDid" /\ call'[c].new = b /\ call'[c].kept = store
  <2>1. "restoreDid" \in Step
    BY DEF Step
  <2> QED
    BY <1>1, <1>2, <1>3, <2>1, Begun
<1>5. CanRestore' /\ StepHolds(c)' /\ (~fragile => FirmHolds(c)')
  BY <1>1, <1>2, <1>3, <1>4 DEF StepHolds, FirmHolds, Restoring, CanRestore, Whole, Fits
<1> QED
  BY <1>1, <1>2, <1>3, <1>4, <1>5, StepKeeps

LEMMA RestoreStatusKeeps ==
    ASSUME OneCaller, VaultInvariant, UNCHANGED fragile, NEW c \in Caller,
           RestoreStatus(c)
    PROVE  VaultInvariant'
<1>1. /\ call[c].at = "restoreStatus" /\ GoTo(c, "restoreUnlock")
      /\ store' = [store EXCEPT !.status = MergedStatus(store.status, call[c].new.status)]
      /\ UNCHANGED <<key, backups, date>>
  BY DEF RestoreStatus, Write
<1>2. /\ call[c] \in CallType /\ StepHolds(c) /\ (~fragile => FirmHolds(c)) /\ CanRestore
      /\ store \in Contents /\ key \in Seed \cup {None} /\ date \in Nat
      /\ \A b \in backups : /\ b \in Contents /\ b.status.initialized /\ Whole(b)
                            /\ ~fragile => Fits(b)
  BY InvariantTypes DEF VaultInvariant
<1>3. /\ call' \in [Caller -> CallType] /\ call'[c].at = "restoreUnlock"
      /\ call'[c].new = call[c].new /\ call'[c].kept = call[c].kept
  BY <1>1, Went DEF Step
<1>4. /\ store' \in Contents /\ store'.did = store.did /\ store'.cek = store.cek
      /\ store'.status.initialized = call[c].new.status.initialized
  <2>1. store.status \in Status /\ call[c].new.status \in Status
    BY <1>2, Replaced DEF CallType
  <2> QED
    BY <1>1, <1>2, <2>1, Replaced, Merged
<1>5. CanRestore' /\ StepHolds(c)' /\ (~fragile => FirmHolds(c)')
  BY <1>1, <1>2, <1>3, <1>4 DEF StepHolds, FirmHolds, Restoring, CanRestore, Whole, Fits
<1> QED
  BY <1>1, <1>2, <1>3, <1>4, <1>5, StepKeeps

LEMMA RevertStatusKeeps ==
    ASSUME OneCaller, VaultInvariant, UNCHANGED fragile, NEW c \in Caller,
           RevertStatus(c)
    PROVE  VaultInvariant'
<1>1. /\ call[c].at = "revertStatus" /\ GoTo(c, "revertCek")
      /\ store' = [store EXCEPT !.status = MergedStatus(store.status, call[c].kept.status)]
      /\ UNCHANGED <<key, backups, date>>
  BY DEF RevertStatus, Write
<1>2. /\ call[c] \in CallType /\ StepHolds(c) /\ (~fragile => FirmHolds(c)) /\ CanRestore
      /\ store \in Contents /\ key \in Seed \cup {None} /\ date \in Nat
      /\ \A b \in backups : /\ b \in Contents /\ b.status.initialized /\ Whole(b)
                            /\ ~fragile => Fits(b)
  BY InvariantTypes DEF VaultInvariant
<1>3. /\ call' \in [Caller -> CallType] /\ call'[c].at = "revertCek"
      /\ call'[c].new = call[c].new /\ call'[c].kept = call[c].kept
  BY <1>1, Went DEF Step
<1>4. /\ store' \in Contents /\ store'.did = store.did /\ store'.cek = store.cek
      /\ store'.status.initialized = call[c].kept.status.initialized
  <2>1. store.status \in Status /\ call[c].kept.status \in Status
    BY <1>2, Replaced DEF CallType
  <2> QED
    BY <1>1, <1>2, <2>1, Replaced, Merged
<1>5. CanRestore' /\ StepHolds(c)' /\ (~fragile => FirmHolds(c)')
  BY <1>1, <1>2, <1>3, <1>4 DEF StepHolds, FirmHolds, Restoring, CanRestore, Whole, Fits
<1> QED
  BY <1>1, <1>2, <1>3, <1>4, <1>5, StepKeeps

LEMMA RestoreUnlockKeeps ==
    ASSUME OneCaller, VaultInvariant, UNCHANGED fragile, NEW c \in Caller,
           RestoreUnlock(c)
    PROVE  VaultInvariant'
<1>1. /\ call[c].at = "restoreUnlock" /\ key' = None
      /\ UNCHANGED <<store, backups, date>>
      /\ \/ call' = [call EXCEPT ![c] = [@ EXCEPT !.at = "restoreKey", !.new = store]]
         \/ call' = [call EXCEPT ![c] = [@ EXCEPT !.at = "revertStatus"]]
  BY DEF RestoreUnlock
<1>2. /\ call[c] \in CallType /\ StepHolds(c) /\ (~fragile => FirmHolds(c)) /\ CanRestore
      /\ store \in Contents /\ key \in Seed \cup {None} /\ date \in Nat
      /\ \A b \in backups : /\ b \in Contents /\ b.status.initialized /\ Whole(b)
                            /\ ~fragile => Fits(b)
  BY InvariantTypes DEF VaultInvariant
<1>3. call \in [Caller -> CallType]
  BY InvariantTypes
<1>4. /\ call' \in [Caller -> CallType] /\ call'[c].kept = call[c].kept
      /\ \/ call'[c].at = "restoreKey" /\ call'[c].new = store
         \/ call'[c].at = "revertStatus" /\ call'[c].new = call[c].new
  <2>1. CASE call' = [call EXCEPT ![c] = [@ EXCEPT !.at = "restoreKey", !.new = store]]
    BY <1>2, <1>3, <2>1 DEF CallType, Step
  <2>2. CASE call' = [call EXCEPT ![c] = [@ EXCEPT !.at = "revertStatus"]]
    BY <1>2, <1>3, <2>2 DEF CallType, Step
  <2> QED
    BY <1>1, <2>1, <2>2
<1>5. CanRestore' /\ StepHolds(c)' /\ (~fragile => FirmHolds(c)')
  BY <1>1, <1>2, <1>3, <1>4 DEF StepHolds, FirmHolds, Restoring, CanRestore, Whole, Fits
<1> QED
  BY <1>1, <1>2, <1>3, <1>4, <1>5, StepKeeps

LEMMA RestoreKeyKeeps ==
    ASSUME OneCaller, VaultInvariant, UNCHANGED fragile, NEW c \in Caller,
           RestoreKey(c)
    PROVE  VaultInvariant'
<1>1. /\ call[c].at = "restoreKey" /\ key' = call[c].new.cek.key
      /\ GoTo(c, "restoreDate")
      /\ UNCHANGED <<store, backups, date>>
  BY DEF RestoreKey
<1>2. /\ call[c] \in CallType /\ StepHolds(c) /\ (~fragile => FirmHolds(c)) /\ CanRestore
      /\ store \in Contents /\ key \in Seed \cup {None} /\ date \in Nat
      /\ \A b \in backups : /\ b \in Contents /\ b.status.initialized /\ Whole(b)
                            /\ ~fragile => Fits(b)
  BY InvariantTypes DEF VaultInvariant
<1>3. /\ call' \in [Caller -> CallType] /\ call'[c].at = "restoreDate"
      /\ call'[c].new = call[c].new /\ call'[c].kept = call[c].kept
  BY <1>1, Went DEF Step
<1>4. key' \in Seed
  BY <1>1, <1>2, WholeHas DEF StepHolds, Restoring, CallType
<1>5. CanRestore' /\ StepHolds(c)' /\ (~fragile => FirmHolds(c)')
  BY <1>1, <1>2, <1>3, <1>4 DEF StepHolds, FirmHolds, Restoring, CanRestore, Whole, Fits
<1> QED
  BY <1>1, <1>2, <1>3, <1>4, <1>5, StepKeeps

LEMMA RestoreDateKeeps ==
    ASSUME OneCaller, VaultInvariant, UNCHANGED fragile, NEW c \in Caller,
           RestoreDate(c)
    PROVE  VaultInvariant'
<1>1. /\ call[c].at = "restoreDate" /\ date' = date + 1 /\ End(c)
      /\ store' = [store EXCEPT !.status = [store.status EXCEPT !.lastRestore = date + 1]]
      /\ UNCHANGED <<key, backups>>
  BY DEF RestoreDate, Write
<1>2. /\ call[c] \in CallType /\ StepHolds(c) /\ (~fragile => FirmHolds(c)) /\ CanRestore
      /\ store \in Contents /\ key \in Seed \cup {None} /\ date \in Nat
      /\ \A b \in backups : /\ b \in Contents /\ b.status.initialized /\ Whole(b)
                            /\ ~fragile => Fits(b)
  BY InvariantTypes DEF VaultInvariant
<1>3. call' \in [Caller -> CallType] /\ call'[c].at = "idle"
  BY <1>1, Ended
<1>4. /\ store' \in Contents /\ store'.did = store.did /\ store'.cek = store.cek
      /\ store'.status.initialized = store.status.initialized
  <2>1. PICK status : status = [store.status EXCEPT !.lastRestore = date + 1]
    OBVIOUS
  <2>2. status \in Status /\ status.initialized = store.status.initialized
    BY <1>2, <2>1, InvariantTypes DEF Status
  <2> QED
    BY <1>1, <1>2, <2>1, <2>2, Replaced
<1>5. CanRestore' /\ StepHolds(c)' /\ (~fragile => FirmHolds(c)')
  BY <1>1, <1>2, <1>3, <1>4 DEF StepHolds, FirmHolds, Restoring, CanRestore, Whole, Fits
<1>6. date' \in Nat
  BY <1>1, <1>2
<1> QED
  BY <1>1, <1>2, <1>3, <1>4, <1>5, <1>6, StepKeeps

\* A restore() that may be undone fails in a fragile behaviour only.
LEMMA WriteFailsKeeps ==
    ASSUME OneCaller, VaultInvariant, UNCHANGED fragile, NEW c \in Caller,
           WriteFails(c), fragile \/ ~Restoring(c)
    PROVE  VaultInvariant'
<1>1. /\ \/ call[c].at \in {"restoreDid", "restoreCek", "restoreStatus"}
            /\ GoTo(c, "revertStatus")
         \/ End(c)
      /\ UNCHANGED <<store, key, backups, date>>
  BY DEF WriteFails
<1>2. /\ call[c] \in CallType /\ StepHolds(c) /\ (~fragile => FirmHolds(c)) /\ CanRestore
      /\ store \in Contents /\ key \in Seed \cup {None} /\ date \in Nat
      /\ \A b \in backups : /\ b \in Contents /\ b.status.initialized /\ Whole(b)
                            /\ ~fragile => Fits(b)
  BY InvariantTypes DEF VaultInvariant
<1>3. CASE /\ GoTo(c, "revertStatus")
           /\ call[c].at \in {"restoreDid", "restoreCek", "restoreStatus"}
  <2>1. /\ call' \in [Caller -> CallType] /\ call'[c].at = "revertStatus"
        /\ call'[c].new = call[c].new /\ call'[c].kept = call[c].kept
    BY <1>3, Went DEF Step
  <2>2. CanRestore' /\ StepHolds(c)' /\ (~fragile => FirmHolds(c)')
    BY <1>1, <1>2, <1>3, <2>1 DEF StepHolds, FirmHolds, Restoring, CanRestore, Whole, Fits
  <2> QED
    BY <1>1, <1>2, <2>1, <2>2, StepKeeps
<1>4. CASE End(c)
  <2>1. call' \in [Caller -> CallType] /\ call'[c].at = "idle"
    BY <1>4, Ended
  <2>2. CanRestore' /\ StepHolds(c)' /\ (~fragile => FirmHolds(c)')
    BY <1>1, <1>2, <2>1 DEF StepHolds, FirmHolds, Restoring, CanRestore, Whole, Fits
  <2> QED
    BY <1>1, <1>2, <2>1, <2>2, StepKeeps
<1> QED
  BY <1>1, <1>3, <1>4

LEMMA CrashKeeps ==
    ASSUME OneCaller, VaultInvariant, UNCHANGED fragile, Crash,
           fragile \/ ~\E c \in Caller : Restoring(c)
    PROVE  VaultInvariant'
<1>1. /\ key' = None /\ call' = [c \in Caller |-> Idle]
      /\ UNCHANGED <<store, backups, date>>
  BY DEF Crash
<1>2. Idle \in CallType /\ Idle.at = "idle"
  BY DEF Idle, Empty, CallType, Contents, Status, Step, Never
<1>3. call' \in [Caller -> CallType] /\ \A c \in Caller : call'[c].at = "idle"
  BY <1>1, <1>2
<1>4. CanRestore'
  BY <1>1 DEF VaultInvariant, CanRestore
<1>5. ASSUME NEW c \in Caller PROVE StepHolds(c)' /\ (~fragile => FirmHolds(c)')
  BY <1>1, <1>3, <1>5 DEF VaultInvariant, StepHolds, FirmHolds, Restoring, Whole, Fits
<1>6. TypeOK'
  BY <1>1, <1>3, InvariantTypes DEF TypeOK, CallType
<1> QED
  BY <1>1, <1>4, <1>5, <1>6 DEF VaultInvariant

LEMMA OperationKeeps ==
    ASSUME OneCaller, VaultInvariant, UNCHANGED fragile, NEW c \in Caller, Operation(c)
    PROVE  VaultInvariant'
BY InitializeKeeps, LockKeeps, UnlockKeeps, ChangePasswordKeeps, BackupKeeps,
   RestoreKeeps DEF Operation

LEMMA ContinueKeeps ==
    ASSUME OneCaller, VaultInvariant, UNCHANGED fragile, NEW c \in Caller, Continue(c)
    PROVE  VaultInvariant'
BY InitializeCekKeeps, CreateFailsKeeps, InitializeDidKeeps, InitializeKeyKeeps,
   InitializeStatusKeeps, UnlockKeyKeeps, ChangePasswordCekKeeps,
   ChangePasswordKeyKeeps, BackupDateKeeps, RestoreInvalidKeeps, RestoreDidKeeps,
   RestoreCekKeeps, RestoreStatusKeeps, RestoreUnlockKeeps, RestoreKeyKeeps,
   RestoreDateKeeps, RevertStatusKeeps, RevertCekKeeps, RevertDidKeeps
   DEF Continue

LEMMA FailsKeeps ==
    ASSUME OneCaller, VaultInvariant, UNCHANGED fragile, Fails,
           fragile \/ ~\E c \in Caller : Restoring(c)
    PROVE  VaultInvariant'
BY CrashKeeps, WriteFailsKeeps DEF Fails

LEMMA InitHolds == FragileInit => VaultInvariant
<1> SUFFICES ASSUME FragileInit PROVE VaultInvariant
  OBVIOUS
<1>1. /\ store = Empty /\ key = None /\ call = [c \in Caller |-> Idle]
      /\ backups = {} /\ date = 0 /\ fragile \in BOOLEAN
  BY DEF FragileInit, Init, Never
<1>2. Empty \in Contents /\ Empty.status.initialized = FALSE
  BY DEF Empty, Contents, Status, Never
<1>3. Idle \in CallType /\ Idle.at = "idle"
  BY <1>2 DEF Idle, CallType, Step
<1>4. TypeOK
  BY <1>1, <1>2, <1>3 DEF TypeOK, CallType
<1>5. CanRestore
  BY <1>1, <1>2 DEF CanRestore
<1>6. ASSUME NEW c \in Caller PROVE StepHolds(c) /\ FirmHolds(c)
  BY <1>1, <1>2, <1>3, <1>6 DEF StepHolds, FirmHolds, Restoring
<1> QED
  BY <1>1, <1>4, <1>5, <1>6 DEF VaultInvariant

LEMMA NextKeeps ==
    OneCaller /\ VaultInvariant /\ [FragileNext]_<<vars, fragile>> => VaultInvariant'
<1> SUFFICES ASSUME OneCaller, VaultInvariant, [FragileNext]_<<vars, fragile>>
             PROVE  VaultInvariant'
  OBVIOUS
<1>1. CASE FragileNext
  BY <1>1, OperationKeeps, ContinueKeeps, FailsKeeps DEF FragileNext, Works
<1>2. CASE UNCHANGED <<vars, fragile>>
  BY <1>2 DEF vars, VaultInvariant, TypeOK, CanRestore, StepHolds, FirmHolds,
     Restoring, Whole, Fits
<1> QED
  BY <1>1, <1>2

\* The store, the key and what a call has read and will write fit together as
\* the step the call is at says, whatever failed.
THEOREM VaultInvariantHolds == OneCaller => (FragileSpec => []VaultInvariant)
<1> SUFFICES ASSUME OneCaller PROVE FragileSpec => []VaultInvariant
  OBVIOUS
<1>1. VaultInvariant /\ [FragileNext]_<<vars, fragile>> => VaultInvariant'
  BY NextKeeps
<1> QED
  BY <1>1, InitHolds, PTL DEF FragileSpec

-----------------------------------------------------------------------------
(* The vault answers for its contents *)

\* With one caller, what the vault answers for, before a step and after it.
LEMMA OneHeld ==
    ASSUME OneCaller, NEW c \in Caller
    PROVE  /\ Held = IF Restoring(c) THEN call[c].kept ELSE store
           /\ Held' = IF Restoring(c)' THEN call'[c].kept ELSE store'
BY DEF OneCaller, Held, Restoring

\* A vault that counts as initialized can open what it holds, an unlocked one
\* has the key of its DID, a backup it handed out can be restored, and an
\* interrupted restore() can be tried again.
THEOREM VaultWholeHolds == OneCaller => (FragileSpec => []VaultWhole)
<1> SUFFICES ASSUME OneCaller PROVE FragileSpec => []VaultWhole
  OBVIOUS
<1>1. VaultInvariant => VaultWhole
  <2> SUFFICES ASSUME VaultInvariant PROVE VaultWhole
    OBVIOUS
  <2>1. PICK c : c \in Caller
    BY DEF OneCaller
  <2>2. StepHolds(c) /\ (~fragile => FirmHolds(c))
    BY <2>1 DEF VaultInvariant
  <2>3. Held = IF Restoring(c) THEN call[c].kept ELSE store
    BY <2>1, OneHeld
  <2>4. ASSUME ~fragile PROVE Consistent /\ KeyOpens
    <3>1. Held.status.initialized => Fits(Held)
      BY <2>2, <2>3, <2>4 DEF FirmHolds
    <3>2. key # None /\ store.status.initialized => key = store.did \/ Restoring(c)
      BY <2>2, <2>4 DEF FirmHolds
    <3> QED
      BY <2>1, <3>1, <3>2 DEF Consistent, KeyOpens, Fits, Whole
  <2>5. ASSUME ~fragile PROVE BackupsComplete
    BY <2>5 DEF VaultInvariant, BackupsComplete, Fits, Whole
  <2> QED
    BY <2>4, <2>5 DEF VaultInvariant, VaultWhole
<1> QED
  BY <1>1, VaultInvariantHolds, PTL

-----------------------------------------------------------------------------
(* The vault is the abstract one *)

Identity == IF Held.status.initialized /\ ~fragile THEN Held.did ELSE None
Opener   == IF Held.status.initialized /\ ~fragile THEN Held.cek.password ELSE None
Open     == Held.status.initialized /\ ~fragile /\ key # None
Entered  == IF fragile THEN None ELSE Typed
Answers  == <<Identity, Opener, Open, Entered>>

\* What is the same to the owner.
Alike ==
    /\ Held'.status.initialized = Held.status.initialized
    /\ Held.status.initialized =>
          /\ Held'.did = Held.did /\ Held'.cek.password = Held.cek.password
          /\ (key' = None) = (key = None)

\* A call goes on, ends, or begins with a password.
TypedGoesOn == \/ Typed' \in {Typed, None}
               \/ Typed = None /\ Typed' \in Password

LEMMA FragileAnswers == ASSUME fragile, fragile' PROVE UNCHANGED Answers
BY DEF Answers, Identity, Opener, Open, Entered

LEMMA SameAnswers ==
    ASSUME UNCHANGED fragile, TypedGoesOn,
           fragile \/ (Identity' = Identity /\ Opener' = Opener /\ Open' = Open)
    PROVE  Calm!Next \/ UNCHANGED Answers
<1>1. CASE ~fragile
  <2>1. Identity' = Identity /\ Opener' = Opener /\ Open' = Open
    BY <1>1
  <2>2. Entered = Typed /\ Entered' = Typed'
    BY <1>1 DEF Entered
  <2>3. CASE Typed' = Typed
    BY <2>1, <2>2, <2>3 DEF Answers
  <2>4. CASE Typed' = None
    <3>1. Calm!Leave
      BY <2>1, <2>2, <2>4 DEF Calm!Leave, Identity, Opener, Open, Entered
    <3> QED
      BY <3>1 DEF Calm!Next
  <2>5. CASE Typed = None /\ Typed' \in Password
    <3>1. Calm!Enter(Typed')
      BY <2>1, <2>2, <2>5 DEF Calm!Enter, Identity, Opener, Open, Entered
    <3> QED
      BY <2>5, <3>1 DEF Calm!Next
  <2> QED
    BY <2>3, <2>4, <2>5 DEF TypedGoesOn
<1> QED
  BY <1>1, FragileAnswers

LEMMA AlikeAnswers ==
    ASSUME UNCHANGED fragile, fragile \/ Alike, TypedGoesOn
    PROVE  Calm!Next \/ UNCHANGED Answers
BY SameAnswers DEF Alike, Identity, Opener, Open

\* The vault that was held is locked.
LEMMA LockedAnswers ==
    ASSUME UNCHANGED fragile, key' = None, Held' = Held, TypedGoesOn,
           Held.status.initialized /\ ~fragile => Held.did # None
    PROVE  Calm!Next \/ UNCHANGED Answers
<1>1. CASE ~fragile
  <2>1. Identity' = Identity /\ Opener' = Opener /\ Open' = FALSE
    BY <1>1 DEF Identity, Opener, Open
  <2>2. Entered = Typed /\ Entered' = Typed'
    BY <1>1 DEF Entered
  <2>3. CASE Typed' = Typed
    <3>1. CASE Identity # None
      <4>1. Calm!Lock
        BY <2>1, <2>2, <2>3, <3>1 DEF Calm!Lock, Identity, Opener, Open, Entered
      <4> QED
        BY <4>1 DEF Calm!Next
    <3>2. CASE Identity = None
      <4>1. Open = FALSE
        BY <1>1, <3>2 DEF Identity, Open
      <4> QED
        BY <2>1, <2>2, <2>3, <4>1 DEF Answers
    <3> QED
      BY <3>1, <3>2
  <2>4. CASE Typed' = None
    <3>1. Calm!Leave
      BY <2>1, <2>2, <2>4 DEF Calm!Leave, Identity, Opener, Open, Entered
    <3> QED
      BY <3>1 DEF Calm!Next
  <2>5. CASE Typed = None /\ Typed' \in Password
    <3>1. Calm!Enter(Typed')
      BY <2>1, <2>2, <2>5 DEF Calm!Enter, Identity, Opener, Open, Entered
    <3> QED
      BY <2>5, <3>1 DEF Calm!Next
  <2> QED
    BY <2>3, <2>4, <2>5 DEF TypedGoesOn
<1> QED
  BY <1>1, FragileAnswers

\* A key and a password that are not None.
LEMMA Given ==
    /\ \A s \in Seed : s # None
    /\ \A p \in Password : p # None
BY VaultAssumption

\* What the password of a call is, at the step it is at.
PasswordHolds(c) ==
    LET at == call[c].at  new == call[c].new IN
    /\ at = "idle" => call[c].password = None
    /\ at \in {"initCek", "initDid", "initKey", "initStatus"} =>
          call[c].password = new.cek.password
    /\ at \in {"unlock", "changeCek", "restoreKey"} =>
          call[c].password = store.cek.password
    /\ at = "changeKey" => store.cek = new.cek

LEMMA TypedIs ==
    ASSUME OneCaller, NEW c \in Caller
    PROVE  /\ Typed = IF call[c].at = "changeKey" THEN call[c].new.cek.password
                      ELSE call[c].password
           /\ Typed' = IF call'[c].at = "changeKey" THEN call'[c].new.cek.password
                       ELSE call'[c].password
BY DEF OneCaller, Typed

\* What a call does to its own record.
Begins(c) ==
    /\ call[c].at = "idle" /\ call'[c].at # "changeKey"
    /\ call'[c].password \in Password \cup {None}
    /\ PasswordHolds(c)'
GoesOn(c) ==
    /\ call[c].at # "changeKey" /\ call'[c].at # "changeKey"
    /\ call'[c].password = call[c].password
    /\ PasswordHolds(c)'
Over(c) == call'[c] = Idle

LEMMA BegunWith ==
    ASSUME OneCaller, VaultInvariant, NEW c \in Caller, NEW op,
           NEW s \in {"initCek", "unlock", "changeCek", "backup", "restoreDid"},
           NEW new \in Contents, NEW kept \in Contents, NEW p \in Password \cup {None},
           Begin(c, op, s, new, kept, p),
           s = "initCek" => p = new.cek.password,
           s \in {"unlock", "changeCek"} => p = store'.cek.password
    PROVE  Begins(c)
<1>1. /\ call[c].at = "idle" /\ call'[c].at = s /\ call'[c].new = new
      /\ call'[c].password = p
  <2>1. call \in [Caller -> CallType]
    BY InvariantTypes
  <2>2. /\ call[c].at = "idle"
        /\ call'[c] = [at |-> s, new |-> new, kept |-> kept, password |-> p]
    BY <2>1 DEF Begin
  <2> QED
    BY <2>2
<1>2. PasswordHolds(c)'
  BY <1>1 DEF PasswordHolds
<1> QED
  BY <1>1, <1>2 DEF Begins

LEMMA OperationBegins ==
    ASSUME OneCaller, VaultInvariant, NEW c \in Caller, PasswordHolds(c), Operation(c)
    PROVE  Begins(c) \/ (call' = call /\ call[c].at = "idle")
<1>0. store \in Contents /\ Empty \in Contents /\ backups \subseteq Contents
      /\ Foreign \subseteq Contents
  BY InvariantTypes, VaultAssumption DEF Empty, Contents, Status, Never
<1>1. ASSUME NEW s \in Seed, NEW p \in Password, Initialize(c, s, p)
      PROVE  Begins(c)
  <2> DEFINE new == [did |-> s, cek |-> [key |-> s, password |-> p],
                     status |-> store.status]
  <2>1. new \in Contents /\ new.cek.password = p
    BY <1>0 DEF Contents, Cek
  <2>2. Begin(c, "initialize", "initCek", new, Empty, p)
    BY <1>1 DEF Initialize
  <2> HIDE DEF new
  <2> QED
    BY <1>0, <2>1, <2>2, BegunWith
<1>2. ASSUME NEW p \in Password, Unlock(c, p)
      PROVE  Begins(c) \/ (call' = call /\ call[c].at = "idle")
  <2>1. UNCHANGED store
    BY <1>2 DEF Unlock
  <2>2. CASE store.cek # None /\ store.cek.password = p
    <3>1. Begin(c, "unlock", "unlock", Empty, store, p)
      BY <1>2, <2>2 DEF Unlock
    <3> QED
      BY <1>0, <2>1, <2>2, <3>1, BegunWith
  <2>3. CASE ~(store.cek # None /\ store.cek.password = p)
    BY <1>2, <2>3 DEF Unlock
  <2> QED
    BY <2>2, <2>3
<1>3. ASSUME NEW old \in Password, NEW p \in Password, ChangePassword(c, old, p)
      PROVE  Begins(c) \/ (call' = call /\ call[c].at = "idle")
  <2>1. UNCHANGED store
    BY <1>3 DEF ChangePassword
  <2>2. CASE store.cek # None /\ store.cek.password = old
    <3> DEFINE new == [store EXCEPT !.cek = [@ EXCEPT !.password = p]]
    <3>1. new \in Contents
      BY <1>0, <2>2 DEF Contents, Cek
    <3>2. Begin(c, "changePassword", "changeCek", new, store, old)
      BY <1>3, <2>2 DEF ChangePassword
    <3> HIDE DEF new
    <3> QED
      BY <1>0, <2>1, <2>2, <3>1, <3>2, BegunWith
  <2>3. CASE ~(store.cek # None /\ store.cek.password = old)
    BY <1>3, <2>3 DEF ChangePassword
  <2> QED
    BY <2>2, <2>3
<1>4. ASSUME Backup(c) PROVE Begins(c)
  <2>1. Begin(c, "backup", "backup", Empty, store, None)
    BY <1>4 DEF Backup
  <2> QED
    BY <1>0, <2>1, BegunWith
<1>5. ASSUME NEW b \in Foreign \cup backups, NEW p \in Password, Restore(c, b, p)
      PROVE  Begins(c)
  <2>1. Begin(c, "restore", "restoreDid", b, store, p) /\ b \in Contents
    BY <1>0, <1>5 DEF Restore
  <2> QED
    BY <1>0, <2>1, BegunWith
<1>6. ASSUME Lock(c) PROVE call' = call /\ call[c].at = "idle"
  BY <1>6 DEF Lock
<1> QED
  BY <1>1, <1>2, <1>3, <1>4, <1>5, <1>6 DEF Operation

LEMMA ContinueGoesOn ==
    ASSUME OneCaller, VaultInvariant, NEW c \in Caller, PasswordHolds(c),
           Continue(c) \/ WriteFails(c), ~ChangePasswordCek(c)
    PROVE  GoesOn(c) \/ Over(c)
<1>0. call[c] \in CallType /\ call \in [Caller -> CallType]
  BY InvariantTypes
<1>1. ASSUME NEW s \in {"initDid", "initKey", "initStatus"}, GoTo(c, s),
             call[c].at \in {"initCek", "initDid", "initKey"}
      PROVE  GoesOn(c)
  BY <1>1, Went DEF GoesOn, PasswordHolds, Step
<1>2. ASSUME NEW s \in {"restoreCek", "restoreStatus", "restoreUnlock", "restoreDate",
                        "revertStatus", "revertCek", "revertDid"}, GoTo(c, s),
             call[c].at # "changeKey"
      PROVE  GoesOn(c)
  BY <1>2, Went DEF GoesOn, PasswordHolds, Step
<1>3. CASE InitializeCek(c) \/ InitializeDid(c) \/ InitializeKey(c)
  BY <1>1, <1>3 DEF InitializeCek, InitializeDid, InitializeKey
<1>4. CASE \/ RestoreInvalid(c) \/ RestoreDid(c) \/ RestoreCek(c) \/ RestoreStatus(c)
           \/ RestoreKey(c) \/ RevertStatus(c) \/ RevertCek(c)
  BY <1>2, <1>4 DEF RestoreInvalid, RestoreDid, RestoreCek, RestoreStatus, RestoreKey,
     RevertStatus, RevertCek
<1>5. CASE \/ CreateFails(c) \/ InitializeStatus(c) \/ UnlockKey(c) \/ ChangePasswordKey(c)
           \/ BackupDate(c) \/ RestoreDate(c) \/ RevertDid(c)
  <2>1. End(c)
    BY <1>5 DEF CreateFails, InitializeStatus, UnlockKey, ChangePasswordKey, BackupDate,
       RestoreDate, RevertDid
  <2> QED
    BY <1>0, <2>1 DEF End, Over
<1>6. CASE RestoreUnlock(c)
  <2>1. /\ call[c].at = "restoreUnlock" /\ UNCHANGED store
        /\ call'[c] = IF store.cek.password = call[c].password
                      THEN [call[c] EXCEPT !.at = "restoreKey", !.new = store]
                      ELSE [call[c] EXCEPT !.at = "revertStatus"]
    BY <1>0, <1>6 DEF RestoreUnlock
  <2>2. /\ call'[c].password = call[c].password
        /\ \/ call'[c].at = "revertStatus"
           \/ call'[c].at = "restoreKey" /\ store.cek.password = call[c].password
    BY <1>0, <2>1 DEF CallType
  <2> QED
    BY <2>1, <2>2 DEF GoesOn, PasswordHolds
<1>7. CASE WriteFails(c)
  <2>1. CASE call[c].at \in {"restoreDid", "restoreCek", "restoreStatus"}
    BY <1>2, <1>7, <2>1 DEF WriteFails
  <2>2. CASE call[c].at \notin {"restoreDid", "restoreCek", "restoreStatus"}
    BY <1>0, <1>7, <2>2 DEF WriteFails, End, Over
  <2> QED
    BY <2>1, <2>2
<1> QED
  BY <1>3, <1>4, <1>5, <1>6, <1>7 DEF Continue

\* Except where a new password is stored.
LEMMA TypedGoes ==
    ASSUME OneCaller, VaultInvariant, FragileNext, NEW c \in Caller, PasswordHolds(c)
    PROVE  PasswordHolds(c)' /\ (ChangePasswordCek(c) \/ TypedGoesOn)
<1>0. \A d \in Caller : d = c
  BY DEF OneCaller
<1>1. Idle.at = "idle" /\ Idle.password = None
  BY DEF Idle
<1>2. ASSUME Begins(c) PROVE PasswordHolds(c)' /\ TypedGoesOn
  BY <1>2, TypedIs DEF Begins, TypedGoesOn, PasswordHolds
<1>3. ASSUME call' = call, call[c].at = "idle" PROVE PasswordHolds(c)' /\ TypedGoesOn
  BY <1>3, TypedIs DEF TypedGoesOn, PasswordHolds
<1>4. ASSUME GoesOn(c) PROVE PasswordHolds(c)' /\ TypedGoesOn
  BY <1>4, TypedIs DEF GoesOn, TypedGoesOn
<1>5. ASSUME Over(c) PROVE PasswordHolds(c)' /\ TypedGoesOn
  BY <1>1, <1>5, TypedIs DEF Over, TypedGoesOn, PasswordHolds
<1>6. ASSUME ChangePasswordCek(c) PROVE PasswordHolds(c)'
  <2>1. /\ GoTo(c, "changeKey") /\ store' = [store EXCEPT !.cek = call[c].new.cek]
    BY <1>6 DEF ChangePasswordCek, Write
  <2>2. store'.cek = call[c].new.cek
    BY <2>1, InvariantTypes DEF Contents
  <2>3. call'[c].at = "changeKey" /\ call'[c].new = call[c].new
    BY <2>1, Went DEF Step
  <2> QED
    BY <2>2, <2>3 DEF PasswordHolds
<1>7. ASSUME Crash PROVE Over(c)
  BY <1>7 DEF Crash, Over
<1> QED
  BY <1>0, <1>2, <1>3, <1>4, <1>5, <1>6, <1>7, OperationBegins, ContinueGoesOn
     DEF FragileNext, Works, Fails

\* A step that leaves alone what the vault answers for.
LEMMA HeldStays ==
    ASSUME OneCaller, VaultInvariant, UNCHANGED fragile, NEW c \in Caller,
           \/ \E s \in Seed, p \in Password : Initialize(c, s, p)
           \/ CreateFails(c) \/ Backup(c)
           \/ \E b \in Foreign \cup backups, p \in Password : Restore(c, b, p)
           \/ RestoreInvalid(c) \/ RestoreDid(c) \/ RestoreCek(c) \/ RestoreStatus(c)
           \/ RevertStatus(c) \/ RevertCek(c)
           \/ ~Restoring(c) /\ WriteFails(c)
    PROVE  UNCHANGED <<Held, key>>
<1>0. call \in [Caller -> CallType]
  BY InvariantTypes
<1>1. ASSUME \/ \E s \in Seed, p \in Password : Initialize(c, s, p)
             \/ CreateFails(c) \/ Backup(c)
             \/ ~Restoring(c) /\ WriteFails(c)
      PROVE  UNCHANGED <<store, key>> /\ ~Restoring(c) /\ ~Restoring(c)'
  <2>1. ASSUME \/ \E s \in Seed, p \in Password : Initialize(c, s, p)
               \/ Backup(c)
        PROVE  UNCHANGED <<store, key>> /\ ~Restoring(c) /\ ~Restoring(c)'
    BY <1>0, <2>1 DEF Initialize, Backup, Begin, Restoring
  <2>2. ASSUME CreateFails(c) \/ (~Restoring(c) /\ WriteFails(c))
        PROVE  UNCHANGED <<store, key>> /\ End(c) /\ ~Restoring(c)
    BY <2>2 DEF CreateFails, WriteFails, Restoring
  <2>3. End(c) => ~Restoring(c)'
    BY Ended DEF Restoring
  <2> QED
    BY <1>1, <2>1, <2>2, <2>3
<1>2. ASSUME NEW b \in Foreign \cup backups, NEW p \in Password, Restore(c, b, p)
      PROVE  /\ UNCHANGED <<store, key>> /\ ~Restoring(c)
             /\ Restoring(c)' /\ call'[c].kept = store
  BY <1>0, <1>2 DEF Restore, Begin, Restoring
<1>3. ASSUME \/ RestoreInvalid(c) \/ RestoreDid(c) \/ RestoreCek(c) \/ RestoreStatus(c)
             \/ RevertStatus(c) \/ RevertCek(c)
      PROVE  /\ UNCHANGED key /\ Restoring(c) /\ Restoring(c)'
             /\ call'[c].kept = call[c].kept
  <2>1. PICK s \in {"restoreCek", "restoreStatus", "restoreUnlock",
                    "revertStatus", "revertCek", "revertDid"} : GoTo(c, s)
    BY <1>3 DEF RestoreInvalid, RestoreDid, RestoreCek, RestoreStatus, RevertStatus, RevertCek
  <2>2. call'[c].at = s /\ call'[c].kept = call[c].kept
    BY <2>1, Went DEF Step
  <2> QED
    BY <1>3, <2>2 DEF RestoreInvalid, RestoreDid, RestoreCek, RestoreStatus,
       RevertStatus, RevertCek, Restoring
<1> QED
  BY <1>1, <1>2, <1>3, OneHeld

\* A step towards a vault that does not count as initialized yet.
LEMMA NotYetHeld ==
    ASSUME OneCaller, VaultInvariant, NEW c \in Caller,
           InitializeCek(c) \/ InitializeDid(c) \/ InitializeKey(c)
    PROVE  ~Held.status.initialized /\ ~Held'.status.initialized
<1>1. /\ call[c].at \in {"initCek", "initDid", "initKey"}
      /\ \E s \in {"initDid", "initKey", "initStatus"} : GoTo(c, s)
      /\ store' \in {store, [store EXCEPT !.cek = call[c].new.cek],
                     [store EXCEPT !.did = call[c].new.did]}
  BY DEF InitializeCek, InitializeDid, InitializeKey, Write
<1>2. ~Restoring(c) /\ ~Restoring(c)'
  BY <1>1, Went DEF Restoring, Step
<1>3. ~store.status.initialized
  BY <1>1 DEF VaultInvariant, StepHolds
<1>4. store'.status = store.status
  BY <1>1, InvariantTypes DEF Contents
<1> QED
  BY <1>2, <1>3, <1>4, OneHeld

\* A step that changes the dates.
LEMMA DateHeld ==
    ASSUME OneCaller, VaultInvariant, NEW c \in Caller, BackupDate(c) \/ RestoreDate(c)
    PROVE  UNCHANGED key /\ Alike
<1>1. /\ call[c].at \in {"backup", "restoreDate"} /\ End(c) /\ UNCHANGED key
      /\ \/ store' = [store EXCEPT !.status = [@ EXCEPT !.lastBackup = date + 1]]
         \/ store' = [store EXCEPT !.status = [@ EXCEPT !.lastRestore = date + 1]]
  BY DEF BackupDate, RestoreDate, Write
<1>2. ~Restoring(c) /\ ~Restoring(c)'
  BY <1>1, Ended DEF Restoring
<1>3. /\ store'.did = store.did /\ store'.cek = store.cek
      /\ store'.status.initialized = store.status.initialized
  BY <1>1, InvariantTypes DEF Contents, Status
<1> QED
  BY <1>1, <1>2, <1>3, OneHeld DEF Alike

\* The last write that undoes a restore() puts back what was answered for.
LEMMA UndoneHeld ==
    ASSUME OneCaller, VaultInvariant, ~fragile, NEW c \in Caller, RevertDid(c)
    PROVE  Alike
<1>1. /\ call[c].at = "revertDid" /\ End(c) /\ UNCHANGED key
      /\ store' = [store EXCEPT !.did = call[c].kept.did]
  BY DEF RevertDid, Write
<1>2. Restoring(c) /\ ~Restoring(c)'
  BY <1>1, Ended DEF Restoring
<1>3. /\ store.cek = call[c].kept.cek
      /\ store.status.initialized = call[c].kept.status.initialized
  BY <1>1 DEF VaultInvariant, FirmHolds
<1>4. store'.did = call[c].kept.did /\ store'.cek = store.cek /\ store'.status = store.status
  BY <1>1, InvariantTypes DEF Contents
<1> QED
  BY <1>1, <1>2, <1>3, <1>4, OneHeld DEF Alike

\* What an initialized vault answers for is whole, and its key opens it.
LEMMA HeldIsWhole ==
    ASSUME OneCaller, VaultInvariant, ~fragile, Held.status.initialized
    PROVE  /\ Held.did \in Seed /\ Held.cek.password \in Password
           /\ Held.did # None
<1>1. PICK c : c \in Caller
  BY DEF OneCaller
<1>2. Held = IF Restoring(c) THEN call[c].kept ELSE store
  BY <1>1, OneHeld
<1>3. Held \in Contents
  BY <1>1, <1>2, InvariantTypes DEF CallType
<1>4. Fits(Held)
  BY <1>1, <1>2 DEF VaultInvariant, FirmHolds
<1> QED
  BY <1>3, <1>4, WholeHas, Given DEF Fits

\* A step that locks the vault.
LEMMA LockingStep ==
    ASSUME OneCaller, VaultInvariant, UNCHANGED fragile, NEW c \in Caller, TypedGoesOn,
           \/ Lock(c) \/ RestoreUnlock(c)
           \/ \E p \in Password : Unlock(c, p)
           \/ \E old, p \in Password : ChangePassword(c, old, p)
    PROVE  Calm!Next \/ UNCHANGED Answers
<1>0. call \in [Caller -> CallType]
  BY InvariantTypes
<1>1. ASSUME Lock(c)
      PROVE  key' = None /\ Held' = Held
  BY <1>1, OneHeld DEF Lock, Restoring
<1>2. ASSUME RestoreUnlock(c)
      PROVE  key' = None /\ Held' = Held
  <2>1. /\ Restoring(c) /\ key' = None
        /\ \/ call' = [call EXCEPT ![c] = [@ EXCEPT !.at = "restoreKey", !.new = store]]
           \/ call' = [call EXCEPT ![c] = [@ EXCEPT !.at = "revertStatus"]]
    BY <1>2 DEF RestoreUnlock, Restoring
  <2>2. call'[c].kept = call[c].kept /\ Restoring(c)'
    <3>1. call[c] \in CallType
      BY <1>0
    <3>2. call'[c] \in {[call[c] EXCEPT !.at = "restoreKey", !.new = store],
                        [call[c] EXCEPT !.at = "revertStatus"]}
      BY <1>0, <2>1
    <3> QED
      BY <3>1, <3>2 DEF Restoring, CallType
  <2> QED
    BY <2>1, <2>2, OneHeld
<1>3. ASSUME NEW p \in Password, Unlock(c, p)
      PROVE  key' = None /\ Held' = Held
  BY <1>0, <1>3, OneHeld DEF Unlock, Begin, Restoring
<1>4. ASSUME NEW old \in Password, NEW p \in Password, ChangePassword(c, old, p)
      PROVE  key' = None /\ Held' = Held
  BY <1>0, <1>4, OneHeld DEF ChangePassword, Begin, Restoring
<1> QED
  BY <1>1, <1>2, <1>3, <1>4, HeldIsWhole, LockedAnswers

\* The key is put in place by the calls that were given the password.
LEMMA UnlockingStep ==
    ASSUME OneCaller, VaultInvariant, UNCHANGED fragile, NEW c \in Caller,
           PasswordHolds(c), UnlockKey(c) \/ ChangePasswordKey(c)
    PROVE  Calm!Unlock \/ UNCHANGED Answers
<1>1. /\ call[c].at \in {"unlock", "changeKey"} /\ End(c) /\ UNCHANGED store
      /\ key' = IF call[c].at = "unlock" THEN call[c].kept.cek.key ELSE call[c].new.cek.key
  BY DEF UnlockKey, ChangePasswordKey
<1>2. Held = store /\ Held' = store
  BY <1>1, Ended, OneHeld DEF Restoring
<1>3. store.status.initialized /\ key' # None
  <2>1. call[c] \in CallType /\ StepHolds(c)
    BY InvariantTypes DEF VaultInvariant
  <2> QED
    BY <1>1, <2>1, WholeHas, Given DEF StepHolds, CallType
<1>4. CASE fragile
  BY <1>4, FragileAnswers
<1>5. CASE ~fragile
  <2>1. Typed = store.cek.password
    BY <1>1, TypedIs DEF PasswordHolds
  <2>2. call \in [Caller -> CallType] /\ Idle.at = "idle" /\ Idle.password = None
    BY InvariantTypes DEF Idle
  <2>3. Typed' = None
    BY <1>1, <2>2, TypedIs DEF End
  <2> QED
    BY <1>2, <1>3, <1>5, <2>1, <2>3, HeldIsWhole DEF Calm!Unlock
<1> QED
  BY <1>4, <1>5

\* From the write of the new CEK on, the new password opens the vault.
LEMMA PasswordStep ==
    ASSUME OneCaller, VaultInvariant, UNCHANGED fragile, NEW c \in Caller,
           PasswordHolds(c), ChangePasswordCek(c)
    PROVE  (\E p \in Password : Calm!ChangePassword(p)) \/ UNCHANGED Answers
<1>1. /\ call[c].at = "changeCek" /\ GoTo(c, "changeKey") /\ UNCHANGED key
      /\ store' = [store EXCEPT !.cek = call[c].new.cek]
  BY DEF ChangePasswordCek, Write
<1>2. Held = store /\ Held' = store'
  BY <1>1, Went, OneHeld DEF Restoring, Step
<1>3. store.status.initialized /\ call[c].new.cek.password \in Password
  <2>1. call[c] \in CallType /\ StepHolds(c)
    BY InvariantTypes DEF VaultInvariant
  <2> QED
    BY <1>1, <2>1, WholeHas DEF StepHolds, CallType
<1>4. /\ store'.did = store.did /\ store'.status = store.status
      /\ store'.cek = call[c].new.cek
  BY <1>1, InvariantTypes DEF Contents
<1>5. CASE fragile
  BY <1>5, FragileAnswers
<1>6. CASE ~fragile
  <2>1. Typed = store.cek.password
    BY <1>1, TypedIs DEF PasswordHolds
  <2>2. Typed' = call[c].new.cek.password
    BY <1>1, Went, TypedIs DEF Step
  <2>3. Calm!ChangePassword(call[c].new.cek.password)
    BY <1>1, <1>2, <1>3, <1>4, <1>6, <2>1, <2>2, HeldIsWhole DEF Calm!ChangePassword
  <2> QED
    BY <1>3, <2>3
<1> QED
  BY <1>5, <1>6

\* initialize() takes effect with the write of the status.
LEMMA FillingStep ==
    ASSUME OneCaller, VaultInvariant, UNCHANGED fragile, NEW c \in Caller,
           PasswordHolds(c), InitializeStatus(c)
    PROVE  (\E s \in Seed : Calm!Initialize(s)) \/ UNCHANGED Answers
<1>0. call[c] \in CallType /\ call \in [Caller -> CallType] /\ store \in Contents
      /\ StepHolds(c)
  BY InvariantTypes DEF VaultInvariant
<1>1. CASE fragile
  BY <1>1, FragileAnswers
<1>2. CASE ~fragile
  <2>1. /\ call[c].at = "initStatus" /\ End(c) /\ UNCHANGED key
        /\ store' = [store EXCEPT !.status = [@ EXCEPT !.initialized = TRUE]]
    BY DEF InitializeStatus, Write
  <2>2. /\ store'.did = store.did /\ store'.cek = store.cek
        /\ store'.status.initialized = TRUE /\ store' \in Contents
    BY <2>1, <1>0 DEF Contents, Status
  <2>3. Fits(call[c].new) /\ key = call[c].new.did /\ store.did = key
        /\ store.cek = call[c].new.cek /\ ~store.status.initialized
    BY <1>0, <2>1 DEF StepHolds
  <2>4. Held = store /\ Held' = store'
    BY <2>1, Ended, OneHeld DEF Restoring
  <2>5. Idle.at = "idle" /\ Idle.password = None
    BY DEF Idle
  <2>6. Typed = store'.cek.password /\ Typed' = None
    BY <1>0, <2>1, <2>2, <2>3, <2>5, TypedIs DEF PasswordHolds, End
  <2>7. store'.did \in Seed /\ store'.cek.password # None /\ key' # None
    BY <2>1, <2>2, <2>3, WholeHas, Given DEF Fits, Whole
  <2>8. Calm!Initialize(store'.did)
    BY <1>2, <2>2, <2>3, <2>4, <2>6, <2>7 DEF Calm!Initialize
  <2> QED
    BY <2>7, <2>8
<1> QED
  BY <1>1, <1>2

\* restore() takes effect when the key is in place.
LEMMA ReplacingStep ==
    ASSUME OneCaller, VaultInvariant, UNCHANGED fragile, NEW c \in Caller,
           PasswordHolds(c), RestoreKey(c)
    PROVE  (\E s \in Seed : Calm!Restore(s)) \/ UNCHANGED Answers
<1>0. /\ call[c] \in CallType /\ store \in Contents
      /\ ~fragile => FirmHolds(c)
  BY InvariantTypes DEF VaultInvariant
<1>1. CASE fragile
  BY <1>1, FragileAnswers
<1>2. CASE ~fragile
  <2>1. /\ call[c].at = "restoreKey" /\ GoTo(c, "restoreDate") /\ UNCHANGED store
        /\ key' = call[c].new.cek.key
    BY DEF RestoreKey
  <2>2. call[c].new = store /\ Fits(store) /\ store.status.initialized
    BY <1>0, <1>2, <2>1 DEF FirmHolds
  <2>3. Held' = store
    BY <2>1, Went, OneHeld DEF Restoring, Step
  <2>4. key' # None /\ store.did \in Seed /\ store.cek.password # None
    BY <1>0, <2>1, <2>2, WholeHas, Given DEF Fits
  <2>5. Typed = store.cek.password /\ Typed' = Typed
    BY <2>1, Went, TypedIs DEF PasswordHolds, Step
  <2>6. Calm!Restore(store.did)
    BY <1>2, <2>1, <2>2, <2>3, <2>4, <2>5 DEF Calm!Restore
  <2> QED
    BY <2>4, <2>6
<1> QED
  BY <1>1, <1>2

\* The process stops while no restore() is in progress.
LEMMA CrashingStep ==
    ASSUME OneCaller, VaultInvariant, UNCHANGED fragile, Crash, TypedGoesOn,
           fragile \/ ~\E c \in Caller : Restoring(c)
    PROVE  Calm!Next \/ UNCHANGED Answers
<1>1. CASE fragile
  BY <1>1, FragileAnswers
<1>2. CASE ~fragile
  <2>1. PICK c : c \in Caller
    BY DEF OneCaller
  <2>2. /\ key' = None /\ store' = store /\ call'[c] = Idle
    BY <2>1 DEF Crash
  <2>3. Held' = Held
    BY <1>2, <2>1, <2>2, OneHeld DEF Idle, Restoring
  <2> QED
    BY <2>2, <2>3, HeldIsWhole, LockedAnswers
<1> QED
  BY <1>1, <1>2

LEMMA UnseenStep ==
    ASSUME OneCaller, VaultInvariant, UNCHANGED fragile, NEW c \in Caller, TypedGoesOn,
           \/ UNCHANGED <<Held, key>>
           \/ InitializeCek(c) \/ InitializeDid(c) \/ InitializeKey(c)
           \/ BackupDate(c) \/ RestoreDate(c) \/ RevertDid(c)
    PROVE  Calm!Next \/ UNCHANGED Answers
<1>1. ASSUME UNCHANGED <<Held, key>> PROVE Alike
  BY <1>1 DEF Alike
<1>2. ASSUME InitializeCek(c) \/ InitializeDid(c) \/ InitializeKey(c)
      PROVE  Identity' = Identity /\ Opener' = Opener /\ Open' = Open
  BY <1>2, NotYetHeld DEF Identity, Opener, Open
<1>3. ASSUME BackupDate(c) \/ RestoreDate(c) PROVE Alike
  BY <1>3, DateHeld
<1>4. ASSUME RevertDid(c) PROVE fragile \/ Alike
  BY <1>4, UndoneHeld
<1> QED
  BY <1>1, <1>2, <1>3, <1>4, AlikeAnswers, SameAnswers

LEMMA StepAnswers ==
    ASSUME OneCaller, VaultInvariant, FragileNext, \A c \in Caller : PasswordHolds(c)
    PROVE  Calm!Next \/ UNCHANGED Answers
<1>0. UNCHANGED fragile
  BY DEF FragileNext
<1>1. ASSUME NEW c \in Caller, Operation(c)
      PROVE  Calm!Next \/ UNCHANGED Answers
  <2>1. TypedGoesOn
    BY <1>1, TypedIs, OperationBegins DEF Begins, TypedGoesOn, PasswordHolds
  <2>2. \/ UNCHANGED <<Held, key>>
        \/ Calm!Next \/ UNCHANGED Answers
    BY <1>0, <1>1, <2>1, HeldStays, LockingStep DEF Operation
  <2> QED
    BY <1>0, <1>1, <2>1, <2>2, UnseenStep
<1>2. ASSUME NEW c \in Caller, Continue(c)
      PROVE  Calm!Next \/ UNCHANGED Answers
  <2>0. ChangePasswordCek(c) \/ TypedGoesOn
    BY <1>2, TypedGoes
  <2>1. CASE TypedGoesOn /\ (\/ CreateFails(c) \/ RestoreInvalid(c) \/ RestoreDid(c)
                             \/ RestoreCek(c) \/ RestoreStatus(c) \/ RevertStatus(c)
                             \/ RevertCek(c))
    BY <1>0, <1>2, <2>1, HeldStays, UnseenStep
  <2>2. CASE TypedGoesOn /\ (\/ InitializeCek(c) \/ InitializeDid(c) \/ InitializeKey(c)
                             \/ BackupDate(c) \/ RestoreDate(c) \/ RevertDid(c))
    BY <1>0, <1>2, <2>2, UnseenStep
  <2>3. CASE TypedGoesOn /\ RestoreUnlock(c)
    BY <1>0, <1>2, <2>3, LockingStep
  <2>4. CASE UnlockKey(c) \/ ChangePasswordKey(c)
    BY <1>0, <1>2, <2>4, UnlockingStep DEF Calm!Next
  <2>5. CASE ChangePasswordCek(c)
    BY <1>0, <1>2, <2>5, PasswordStep DEF Calm!Next
  <2>6. CASE InitializeStatus(c)
    BY <1>0, <1>2, <2>6, FillingStep DEF Calm!Next
  <2>7. CASE RestoreKey(c)
    BY <1>0, <1>2, <2>7, ReplacingStep DEF Calm!Next
  <2> QED
    BY <1>2, <2>0, <2>1, <2>2, <2>3, <2>4, <2>5, <2>6, <2>7 DEF Continue
<1>3. ASSUME Fails, fragile \/ ~\E c \in Caller : Restoring(c)
      PROVE  Calm!Next \/ UNCHANGED Answers
  <2>1. PICK c : c \in Caller
    BY DEF OneCaller
  <2>2. CASE Crash
    <3>1. TypedGoesOn
      <4>1. call'[c] = Idle /\ Idle.at = "idle" /\ Idle.password = None
        BY <2>1, <2>2 DEF Crash, Idle
      <4> QED
        BY <2>1, <4>1, TypedIs DEF TypedGoesOn
    <3> QED
      BY <1>0, <1>3, <2>2, <3>1, CrashingStep
  <2>3. ASSUME NEW d \in Caller, WriteFails(d), ~fragile
        PROVE  Calm!Next \/ UNCHANGED Answers
    <3>1. ~Restoring(d)
      BY <1>3, <2>3
    <3>2. TypedGoesOn
      <4>1. GoesOn(d) \/ Over(d) \/ ChangePasswordCek(d)
        BY <2>3, ContinueGoesOn
      <4>2. ~ChangePasswordCek(d)
        <5>1. ASSUME ChangePasswordCek(d), End(d) PROVE FALSE
          <6>1. call'[d].at = "changeKey"
            BY <5>1, Went DEF ChangePasswordCek, Step
          <6> QED
            BY <5>1, <6>1, Ended
        <5> QED
          BY <2>3, <3>1, <5>1 DEF WriteFails, Restoring
      <4>3. Idle.at = "idle" /\ Idle.password = None
        BY DEF Idle
      <4> QED
        BY <4>1, <4>2, <4>3, TypedIs DEF GoesOn, Over, TypedGoesOn
    <3> QED
      BY <1>0, <2>3, <3>1, <3>2, HeldStays, UnseenStep
  <2>4. CASE fragile
    BY <1>0, <2>4, FragileAnswers
  <2> QED
    BY <1>3, <2>2, <2>3, <2>4 DEF Fails
<1> QED
  BY <1>1, <1>2, <1>3 DEF FragileNext, Works

\* initialize() and restore() take effect at once or not at all, a failed call
\* changes neither the identity nor its password, and only a call that was
\* given the password of the CEK opens the vault or changes the password,
\* unless a restore() was interrupted half-way.
THEOREM IsVaultHolds == OneCaller => (FragileSpec => IsVault)
<1> SUFFICES ASSUME OneCaller PROVE FragileSpec => IsVault
  OBVIOUS
<1> DEFINE Passwords == \A c \in Caller : PasswordHolds(c)
<1>1. FragileInit => Calm!Init /\ Passwords
  <2> SUFFICES ASSUME FragileInit PROVE Calm!Init /\ Passwords
    OBVIOUS
  <2>1. PICK c : c \in Caller
    BY DEF OneCaller
  <2>2. Held = IF Restoring(c) THEN call[c].kept ELSE store
    BY <2>1, OneHeld
  <2>3. ~Held.status.initialized
    BY <2>1, <2>2 DEF FragileInit, Init, Idle, Empty, Restoring
  <2>4. \A d \in Caller : call[d].at = "idle" /\ call[d].password = None
    BY DEF FragileInit, Init, Idle
  <2>5. Typed = None
    BY <2>1, <2>4 DEF Typed
  <2> QED
    BY <2>3, <2>4, <2>5 DEF Calm!Init, PasswordHolds
<1>2. VaultInvariant /\ Passwords /\ [FragileNext]_<<vars, fragile>>
         => Passwords' /\ [Calm!Next]_(Calm!vars)
  <2> SUFFICES ASSUME VaultInvariant, Passwords, [FragileNext]_<<vars, fragile>>
               PROVE  Passwords' /\ (Calm!Next \/ UNCHANGED Answers)
    BY DEF Calm!vars, Answers, Identity, Opener, Open, Entered
  <2>1. CASE UNCHANGED <<vars, fragile>>
    BY <2>1 DEF vars, Answers, Identity, Opener, Open, Entered, Typed, Held, Restoring,
       PasswordHolds
  <2>2. CASE FragileNext
    BY <2>2, StepAnswers, TypedGoes
  <2> QED
    BY <2>1, <2>2
<1> QED
  BY <1>1, <1>2, VaultInvariantHolds, PTL DEF FragileSpec, IsVault, Calm!Spec
=============================================================================
