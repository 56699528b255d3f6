------------------------- MODULE DwnDataStoreProofs -------------------------
(* Theorems about DwnDataStore, for any identifiers, tenants, objects,       *)
(* callers and number of records, whatever calls, failures, expiries and     *)
(* restarts cross.                                                           *)
EXTENDS DwnDataStore, FiniteSetTheorems, WellFoundedInduction, TLAPS

-----------------------------------------------------------------------------
(* The invariant *)

\* What is known of a call wherever it awaits the node.
CallHolds(c) ==
    /\ call[c].at # "idle" => call[c].key \in Key
    /\ call[c].at \in {"initialize", "install"} => call[c].op \in Sets
    /\ call[c].at \in {"readEntry", "write", "written"} => call[c].op \in Sets
    /\ call[c].op \in Sets /\ call[c].at \notin {"idle", "initialize", "install"}
          => TenantIn(c) \in installed
    /\ call[c].record # NoRecord =>
          call[c].record \in Record /\ owner[call[c].record] = call[c].key
    /\ call[c].at = "idle" => call[c].record = NoRecord
    /\ \A r \in Record : call[c].read[r] # Nothing => owner[r] \in Key

\* An object is always of a record that was written under some key.
MemoryHolds ==
    /\ ready \subseteq installed
    /\ \A k \in Key : index[k] # NoRecord =>
                          index[k] \in Record /\ owner[index[k]] = k
    /\ \A r \in Record :
          (data[r] # Nothing \/ cache[r] # Nothing) => owner[r] \in Key

StoreInvariant == TypeOK /\ MemoryHolds /\ \A c \in Caller : CallHolds(c)

-----------------------------------------------------------------------------
(* Numbers *)

\* A set of natural numbers has a least one.
LEMMA LeastExists ==
    ASSUME NEW S \in SUBSET Nat, S # {}
    PROVE  \E x \in S : \A y \in S : x <= y
<1> DEFINE T == {0..x : x \in S}
<1>1. T \subseteq FiniteSubsetsOf(Nat) /\ T # {}
  <2>1. \A x \in S : IsFiniteSet(0..x) /\ 0..x \in SUBSET Nat
    BY FS_Interval
  <2> QED
    BY <2>1 DEF FiniteSubsetsOf
<1>2. PICK a \in T : \A b \in T : <<b, a>> \notin StrictSubsetOrdering(Nat)
  <2> HIDE DEF T
  <2> QED
    BY <1>1, FS_StrictSubsetOrderingWellFounded, WFMin
<1>3. PICK x \in S : a = 0..x
  OBVIOUS
<1>4. ASSUME NEW y \in S, ~(x <= y) PROVE FALSE
  <2>1. y < x /\ y \in Nat /\ x \in Nat
    BY <1>4
  <2>2. 0..y \subseteq 0..x /\ x \in 0..x /\ x \notin 0..y
    BY <2>1
  <2>3. 0..y \in SUBSET Nat /\ 0..x \in SUBSET Nat
    BY <2>1
  <2>4. <<0..y, 0..x>> \in StrictSubsetOrdering(Nat)
    BY <2>2, <2>3 DEF StrictSubsetOrdering
  <2>5. 0..y \in T
    OBVIOUS
  <2> QED
    BY <1>2, <1>3, <2>4, <2>5
<1> QED
  BY <1>4

\* Of several records the last is one of them.
LEMMA LastIsOne ==
    ASSUME NEW S \in SUBSET Record, S # {}
    PROVE  Last(S) \in S
<1> USE StoreAssumption
<1> DEFINE T == {MaxRecord - x : x \in S}
<1>1. T \in SUBSET Nat /\ T # {}
  <2>1. \A x \in S : MaxRecord - x \in Nat
    BY DEF Record
  <2> QED
    BY <2>1
<1>2. PICK t \in T : \A u \in T : t <= u
  <2> HIDE DEF T
  <2> QED
    BY <1>1, LeastExists
<1>3. PICK x \in S : t = MaxRecord - x
  BY <1>2
<1>4. \A y \in S : y <= x
  <2> TAKE y \in S
  <2>1. MaxRecord - y \in T
    OBVIOUS
  <2>2. MaxRecord - x <= MaxRecord - y
    BY <1>2, <1>3, <2>1
  <2> QED
    BY <2>2 DEF Record
<1> QED
  BY <1>4 DEF Last

\* A new record has the least number of those not used.
LEMMA NewIsOne ==
    ASSUME NEW S \in SUBSET Record, S # {}
    PROVE  (CHOOSE n \in S : \A m \in S : n <= m) \in S
<1>1. S \in SUBSET Nat
  BY StoreAssumption DEF Record
<1>2. \E n \in S : \A m \in S : n <= m
  BY <1>1, LeastExists
<1> QED
  BY <1>2

-----------------------------------------------------------------------------
(* The helpers the actions are built from *)

NeedsRecord == {"read", "fill", "readEntry", "written", "remove", "removed"}

\* What every step gives to the callers that do not take it.
OwnersStay == \A r \in Record : owner[r] \in Key => owner'[r] = owner[r]

LEMMA OthersHold ==
    ASSUME NEW b \in Caller, CallHolds(b), call'[b] = call[b],
           installed \subseteq installed', OwnersStay
    PROVE  CallHolds(b)'
<1>1. call[b].record # NoRecord =>
          call[b].record \in Record /\ owner'[call[b].record] = call[b].key
  BY DEF CallHolds, OwnersStay
<1>2. \A r \in Record : call[b].read[r] # Nothing => owner'[r] \in Key
  BY DEF CallHolds, OwnersStay
<1> QED
  BY <1>1, <1>2 DEF CallHolds, TenantIn

\* Setting the record of a caller.
LEMMA CallSet ==
    ASSUME TypeOK, NEW c \in Caller, NEW r \in Call,
           r.at \in NeedsRecord => r.record # NoRecord,
           call' = [call EXCEPT ![c] = r]
    PROVE  /\ call' \in [Caller -> Call] /\ call'[c] = r
           /\ \A b \in Caller : b # c => call'[b] = call[b]
           /\ \A b \in Caller : call'[b].at \in NeedsRecord => call'[b].record # NoRecord
<1>1. /\ call' \in [Caller -> Call] /\ call'[c] = r
      /\ \A b \in Caller : b # c => call'[b] = call[b]
  BY DEF TypeOK
<1>2. \A b \in Caller : call[b].at \in NeedsRecord => call[b].record # NoRecord
  BY DEF TypeOK, NeedsRecord
<1> QED
  BY <1>1, <1>2

LEMMA IdleCall == Idle \in Call
BY DEF Idle, Call, Step, Op, Snapshot, NoObjects

\* The three moves of a call.
LEMMA Moves ==
    ASSUME TypeOK, NEW c \in Caller, NEW s \in Step, Goto(c, s),
           s \in NeedsRecord => call[c].record # NoRecord
    PROVE  /\ call' \in [Caller -> Call]
           /\ \A b \in Caller : b # c => call'[b] = call[b]
           /\ \A b \in Caller : call'[b].at \in NeedsRecord => call'[b].record # NoRecord
           /\ call'[c].at = s
           /\ call'[c].op = call[c].op /\ call'[c].key = call[c].key
           /\ call'[c].data = call[c].data /\ call'[c].record = call[c].record
           /\ call'[c].read = call[c].read /\ call'[c].useCache = call[c].useCache
<1> DEFINE r == [call[c] EXCEPT !.at = s]
<1>1. call[c] \in Call
  BY DEF TypeOK
<1>2. /\ r \in Call /\ r.at = s
      /\ r.op = call[c].op /\ r.key = call[c].key
      /\ r.data = call[c].data /\ r.record = call[c].record
      /\ r.read = call[c].read /\ r.useCache = call[c].useCache
  BY <1>1 DEF Call
<1>3. call' = [call EXCEPT ![c] = r]
  BY DEF Goto
<1> HIDE DEF r
<1> QED
  BY <1>2, <1>3, CallSet

LEMMA MovesWith ==
    ASSUME TypeOK, NEW c \in Caller, NEW s \in Step, NEW n \in Record \cup {NoRecord},
           GotoWith(c, s, n), s \in NeedsRecord => n # NoRecord
    PROVE  /\ call' \in [Caller -> Call]
           /\ \A b \in Caller : b # c => call'[b] = call[b]
           /\ \A b \in Caller : call'[b].at \in NeedsRecord => call'[b].record # NoRecord
           /\ call'[c].at = s
           /\ call'[c].op = call[c].op /\ call'[c].key = call[c].key
           /\ call'[c].data = call[c].data /\ call'[c].record = n
           /\ call'[c].read = NoObjects /\ call'[c].useCache = call[c].useCache
<1> DEFINE r == [call[c] EXCEPT !.at = s, !.record = n, !.read = NoObjects]
<1>1. call[c] \in Call /\ NoObjects \in Snapshot
  BY DEF TypeOK, NoObjects, Snapshot
<1>2. /\ r \in Call /\ r.at = s
      /\ r.op = call[c].op /\ r.key = call[c].key
      /\ r.data = call[c].data /\ r.record = n
      /\ r.read = NoObjects /\ r.useCache = call[c].useCache
  BY <1>1 DEF Call
<1>3. call' = [call EXCEPT ![c] = r]
  BY <1>1 DEF GotoWith, Call
<1> HIDE DEF r
<1> QED
  BY <1>2, <1>3, CallSet

LEMMA Finishes ==
    ASSUME TypeOK, NEW c \in Caller, Ends(c)
    PROVE  /\ call' \in [Caller -> Call] /\ call'[c] = Idle
           /\ \A b \in Caller : b # c => call'[b] = call[b]
           /\ \A b \in Caller : call'[b].at \in NeedsRecord => call'[b].record # NoRecord
BY IdleCall, CallSet DEF Ends, Idle, NeedsRecord

\* An idle call holds whatever the rest of the state is.
LEMMA IdleHolds ==
    ASSUME NEW c \in Caller, call'[c] = Idle
    PROVE  CallHolds(c)'
<1>1. /\ Idle.at = "idle" /\ Idle.op = "get" /\ Idle.record = NoRecord
      /\ \A r \in Record : Idle.read[r] = Nothing
  BY DEF Idle, NoObjects
<1>2. "get" \notin Sets
  BY DEF Sets
<1> QED
  BY <1>1, <1>2 DEF CallHolds

\* A step of one caller keeps the invariant when it keeps its own part of it.
LEMMA StepHolds ==
    ASSUME StoreInvariant, NEW c \in Caller,
           call' \in [Caller -> Call],
           \A b \in Caller : b # c => call'[b] = call[b],
           \A b \in Caller : call'[b].at \in NeedsRecord => call'[b].record # NoRecord,
           installed \subseteq installed', OwnersStay, CallHolds(c)',
           owner' \in [Record -> Key \cup {Nothing}], data' \in Snapshot,
           installed' \subseteq Tenant, ready' \subseteq Tenant,
           index' \in [Key -> Record \cup {NoRecord}], cache' \in Snapshot,
           calm' \in BOOLEAN, MemoryHolds'
    PROVE  StoreInvariant'
<1>1. TypeOK'
  BY DEF TypeOK, NeedsRecord
<1>2. ASSUME NEW b \in Caller PROVE CallHolds(b)'
  BY OthersHold DEF StoreInvariant
<1> QED
  BY <1>1, <1>2 DEF StoreInvariant

\* The same of a step that changes nothing but the call.
LEMMA CallStepHolds ==
    ASSUME StoreInvariant, NEW c \in Caller,
           call' \in [Caller -> Call],
           \A b \in Caller : b # c => call'[b] = call[b],
           \A b \in Caller : call'[b].at \in NeedsRecord => call'[b].record # NoRecord,
           CallHolds(c)', UNCHANGED <<node, memory, calm>>
    PROVE  StoreInvariant'
<1>1. /\ owner' = owner /\ data' = data /\ installed' = installed
      /\ ready' = ready /\ index' = index /\ cache' = cache /\ calm' = calm
  BY DEF node, memory
<1>2. OwnersStay /\ MemoryHolds'
  BY <1>1 DEF OwnersStay, MemoryHolds, StoreInvariant
<1> QED
  BY <1>1, <1>2, StepHolds DEF StoreInvariant, TypeOK

LEMMA EndHolds ==
    ASSUME StoreInvariant, NEW c \in Caller, Ends(c), UNCHANGED <<node, memory, calm>>
    PROVE  StoreInvariant'
BY Finishes, IdleHolds, CallStepHolds DEF StoreInvariant

-----------------------------------------------------------------------------
(* The steps of a caller *)

LEMMA BeginStep ==
    ASSUME StoreInvariant, NEW c \in Caller, NEW op \in Op, NEW k \in Key,
           NEW d \in Data \cup {Nothing}, NEW useCache \in BOOLEAN,
           Begin(c, op, k, d, useCache)
    PROVE  StoreInvariant'
<1> DEFINE step == IF op \in Sets THEN "initialize"
                   ELSE IF op = "list" THEN "query" ELSE "lookup"
<1> DEFINE r == [Idle EXCEPT !.at = step, !.op = op, !.key = k, !.data = d,
                             !.useCache = useCache]
<1>1. /\ r \in Call /\ r.at = step /\ r.op = op /\ r.key = k
      /\ r.record = NoRecord /\ r.read = NoObjects
  BY DEF Idle, Call, Step, Op, Snapshot, NoObjects
<1>2. step \in {"initialize", "query", "lookup"} /\ (step = "initialize" <=> op \in Sets)
  OBVIOUS
<1>3. /\ call' = [call EXCEPT ![c] = r]
      /\ UNCHANGED <<owner, data, installed, ready, cache>>
      /\ index' = IF op = "list" THEN [j \in Key |-> NoRecord] ELSE index
      /\ calm' \in BOOLEAN
  BY DEF Begin, node, StoreInvariant, TypeOK
<1> HIDE DEF step, r
<1>4. r.at \in NeedsRecord => r.record # NoRecord
  BY <1>1, <1>2 DEF NeedsRecord
<1>5. /\ call' \in [Caller -> Call] /\ call'[c] = r
      /\ \A b \in Caller : b # c => call'[b] = call[b]
      /\ \A b \in Caller : call'[b].at \in NeedsRecord => call'[b].record # NoRecord
  BY <1>1, <1>3, <1>4, CallSet DEF StoreInvariant
<1>6. CallHolds(c)'
  BY <1>1, <1>2, <1>5 DEF CallHolds, NoObjects
<1>7. index' \in [Key -> Record \cup {NoRecord}] /\ MemoryHolds' /\ OwnersStay
  BY <1>3 DEF StoreInvariant, TypeOK, MemoryHolds, OwnersStay
<1> QED
  BY <1>3, <1>5, <1>6, <1>7, StepHolds DEF StoreInvariant, TypeOK

\* initialize(): when it is done the node has the protocol.
LEMMA InitializeStep ==
    ASSUME StoreInvariant, NEW c \in Caller, Initialize(c) \/ Install(c)
    PROVE  StoreInvariant'
<1>1. /\ call[c] \in Call /\ call[c].key \in Key /\ call[c].op \in Sets
      /\ TenantIn(c) \in Tenant
  BY StoreAssumption DEF StoreInvariant, TypeOK, CallHolds, Initialize, Install, TenantIn
<1>2. UNCHANGED <<owner, data, index, cache, calm>> /\ OwnersStay
  BY DEF Initialize, Install, node, OwnersStay
<1>3. CASE Initialized(c) /\ TenantIn(c) \in installed'
           /\ installed' \in {installed, installed \cup {TenantIn(c)}}
           /\ ready' = ready \cup {TenantIn(c)}
  <2> DEFINE s == IF call[c].op = "create" THEN "write" ELSE "lookup"
  <2>1. s \in Step \ NeedsRecord /\ s \in {"write", "lookup"}
    BY DEF Step, NeedsRecord
  <2>2. Goto(c, s)
    BY <1>3 DEF Initialized
  <2> HIDE DEF s
  <2>3. /\ call' \in [Caller -> Call]
        /\ \A b \in Caller : b # c => call'[b] = call[b]
        /\ \A b \in Caller : call'[b].at \in NeedsRecord => call'[b].record # NoRecord
        /\ call'[c].at = s
        /\ call'[c].op = call[c].op /\ call'[c].key = call[c].key
        /\ call'[c].record = call[c].record /\ call'[c].read = call[c].read
    BY <2>1, <2>2, Moves DEF StoreInvariant
  <2>4. CallHolds(c)'
    BY <1>1, <1>2, <1>3, <2>1, <2>3 DEF StoreInvariant, CallHolds, TenantIn
  <2>5. MemoryHolds' /\ installed' \subseteq Tenant /\ ready' \subseteq Tenant
    BY <1>1, <1>2, <1>3 DEF StoreInvariant, MemoryHolds, TypeOK
  <2> QED
    BY <1>2, <1>3, <2>3, <2>4, <2>5, StepHolds DEF StoreInvariant, TypeOK
<1>4. CASE Goto(c, "install") /\ UNCHANGED <<node, memory, calm>> /\ call[c].at = "initialize"
  <2>1. "install" \in Step \ NeedsRecord
    BY DEF Step, NeedsRecord
  <2>2. /\ call' \in [Caller -> Call]
        /\ \A b \in Caller : b # c => call'[b] = call[b]
        /\ \A b \in Caller : call'[b].at \in NeedsRecord => call'[b].record # NoRecord
        /\ call'[c].at = "install"
        /\ call'[c].op = call[c].op /\ call'[c].key = call[c].key
        /\ call'[c].record = call[c].record /\ call'[c].read = call[c].read
    BY <1>4, <2>1, Moves DEF StoreInvariant
  <2>3. CallHolds(c)'
    BY <1>1, <1>2, <2>2 DEF StoreInvariant, CallHolds
  <2> QED
    BY <1>4, <2>2, <2>3, CallStepHolds
<1>5. CASE Install(c)
  BY <1>3, <1>5 DEF Install
<1>6. CASE Initialize(c)
  <2>1. CASE TenantIn(c) \in ready \cup installed
    <3>1. /\ ready' = ready \cup {TenantIn(c)} /\ Initialized(c)
          /\ installed' = installed
      BY <1>6, <2>1 DEF Initialize, node
    <3>2. TenantIn(c) \in installed'
      BY <2>1, <3>1 DEF StoreInvariant, MemoryHolds
    <3> QED
      BY <1>3, <3>1, <3>2
  <2>2. CASE TenantIn(c) \notin ready \cup installed
    BY <1>4, <1>6, <2>2 DEF Initialize, node, memory
  <2> QED
    BY <2>1, <2>2
<1> QED
  BY <1>5, <1>6

\* What follows when the index has led to a record, or to none.
LEMMA FoundStep ==
    ASSUME StoreInvariant, NEW c \in Caller, call[c].at \in {"lookup", "indexed", "blank"},
           NEW r \in Record, owner[r] = call[c].key, Found(c, r),
           UNCHANGED <<node, memory, calm>>
    PROVE  StoreInvariant'
<1>1. ASSUME NEW s \in {"read", "remove", "readEntry"}, GotoWith(c, s, r),
             s = "readEntry" => call[c].op \in Sets
      PROVE  StoreInvariant'
  <2>1. s \in Step /\ r \in Record \cup {NoRecord} /\ r # NoRecord
    BY StoreAssumption DEF Step, Record, NoRecord
  <2>2. /\ call' \in [Caller -> Call]
        /\ \A b \in Caller : b # c => call'[b] = call[b]
        /\ \A b \in Caller : call'[b].at \in NeedsRecord => call'[b].record # NoRecord
        /\ call'[c].at = s
        /\ call'[c].op = call[c].op /\ call'[c].key = call[c].key
        /\ call'[c].record = r /\ call'[c].read = NoObjects
    BY <1>1, <2>1, MovesWith DEF StoreInvariant
  <2>3. owner' = owner /\ installed' = installed
    BY DEF node
  <2>4. CallHolds(c)'
    BY <1>1, <2>2, <2>3 DEF StoreInvariant, CallHolds, TenantIn, NoObjects
  <2> QED
    BY <2>2, <2>4, CallStepHolds
<1>2. CASE Ends(c)
  BY <1>2, EndHolds
<1>3. "update" \in Sets
  BY DEF Sets
<1> QED
  BY <1>1, <1>2, <1>3 DEF Found

LEMMA LookupStep ==
    ASSUME StoreInvariant, NEW c \in Caller, Lookup(c)
    PROVE  StoreInvariant'
<1> DEFINE r == index[call[c].key]
<1>1. call[c].key \in Key /\ r \in Record \cup {NoRecord}
  BY DEF StoreInvariant, TypeOK, CallHolds, Lookup
<1>2. CASE r # NoRecord
  <2>1. r \in Record /\ owner[r] = call[c].key
    BY <1>1, <1>2 DEF StoreInvariant, MemoryHolds
  <2>2. Found(c, r) /\ UNCHANGED <<node, memory, calm>> /\ call[c].at = "lookup"
    BY <1>2 DEF Lookup, memory
  <2> QED
    BY <2>1, <2>2, FoundStep
<1>3. CASE r = NoRecord
  <2>1. /\ Goto(c, "query") /\ index' = [k \in Key |-> NoRecord]
        /\ UNCHANGED <<owner, data, installed, ready, cache, calm>>
    BY <1>3 DEF Lookup, node
  <2>2. "query" \in Step \ NeedsRecord
    BY DEF Step, NeedsRecord
  <2>3. /\ call' \in [Caller -> Call]
        /\ \A b \in Caller : b # c => call'[b] = call[b]
        /\ \A b \in Caller : call'[b].at \in NeedsRecord => call'[b].record # NoRecord
        /\ call'[c].at = "query"
        /\ call'[c].op = call[c].op /\ call'[c].key = call[c].key
        /\ call'[c].record = call[c].record /\ call'[c].read = call[c].read
    BY <2>1, <2>2, Moves DEF StoreInvariant
  <2>4. call[c].at = "lookup"
    BY DEF Lookup
  <2>5. CallHolds(c)'
    BY <1>1, <2>1, <2>3, <2>4 DEF StoreInvariant, CallHolds, TenantIn
  <2>6. MemoryHolds' /\ OwnersStay
    BY <2>1 DEF StoreInvariant, MemoryHolds, OwnersStay
  <2> QED
    BY <2>1, <2>3, <2>5, <2>6, StepHolds DEF StoreInvariant, TypeOK
<1> QED
  BY <1>2, <1>3

LEMMA QueryStep ==
    ASSUME StoreInvariant, NEW c \in Caller, Query(c)
    PROVE  StoreInvariant'
<1> DEFINE Seen == [r \in Record |->
              IF Live(r) /\ TenantOf[owner[r]] = TenantIn(c) THEN data[r] ELSE Nothing]
<1> DEFINE n == [call[c] EXCEPT !.at = "rebuild", !.read = Seen]
<1>1. call[c] \in Call /\ data \in Snapshot
  BY DEF StoreInvariant, TypeOK
<1>2. Seen \in Snapshot /\ \A r \in Record : Seen[r] # Nothing => data[r] # Nothing
  BY <1>1 DEF Snapshot
<1> HIDE DEF Seen
<1>3. /\ n \in Call /\ n.at = "rebuild" /\ n.op = call[c].op /\ n.key = call[c].key
      /\ n.record = call[c].record /\ n.read = Seen
  BY <1>1, <1>2 DEF Call, Step
<1>4. call' = [call EXCEPT ![c] = n] /\ UNCHANGED <<node, memory, calm>> /\ call[c].at = "query"
  BY DEF Query, Seen
<1> HIDE DEF n
<1>5. "rebuild" \notin NeedsRecord
  BY DEF NeedsRecord
<1>6. /\ call' \in [Caller -> Call] /\ call'[c] = n
      /\ \A b \in Caller : b # c => call'[b] = call[b]
      /\ \A b \in Caller : call'[b].at \in NeedsRecord => call'[b].record # NoRecord
  BY <1>3, <1>4, <1>5, CallSet DEF StoreInvariant
<1>7. \A r \in Record : Seen[r] # Nothing => owner'[r] \in Key
  BY <1>2, <1>4 DEF StoreInvariant, MemoryHolds, node
<1>8. CallHolds(c)'
  BY <1>3, <1>4, <1>6, <1>7 DEF StoreInvariant, CallHolds, TenantIn, node
<1> QED
  BY <1>4, <1>6, <1>8, CallStepHolds

LEMMA QueryRefusedStep ==
    ASSUME StoreInvariant, NEW c \in Caller, QueryRefused(c)
    PROVE  StoreInvariant'
<1>1. /\ call[c].at = "query" /\ calm' \in BOOLEAN
      /\ UNCHANGED <<owner, data, installed, ready, index, cache>>
  BY DEF StoreInvariant, TypeOK, QueryRefused, node, memory
<1>2. MemoryHolds' /\ OwnersStay
  BY <1>1 DEF StoreInvariant, MemoryHolds, OwnersStay
<1>3. CASE Ends(c)
  BY <1>1, <1>2, <1>3, Finishes, IdleHolds, StepHolds DEF StoreInvariant, TypeOK
<1>4. CASE Goto(c, "blank")
  <2>1. "blank" \in Step \ NeedsRecord
    BY DEF Step, NeedsRecord
  <2>2. /\ call' \in [Caller -> Call]
        /\ \A b \in Caller : b # c => call'[b] = call[b]
        /\ \A b \in Caller : call'[b].at \in NeedsRecord => call'[b].record # NoRecord
        /\ call'[c].at = "blank"
        /\ call'[c].op = call[c].op /\ call'[c].key = call[c].key
        /\ call'[c].record = call[c].record /\ call'[c].read = call[c].read
    BY <1>4, <2>1, Moves DEF StoreInvariant
  <2>3. CallHolds(c)'
    BY <1>1, <2>2 DEF StoreInvariant, CallHolds, TenantIn
  <2> QED
    BY <1>1, <1>2, <2>2, <2>3, StepHolds DEF StoreInvariant, TypeOK
<1> QED
  BY <1>3, <1>4 DEF QueryRefused

\* The record filed last under an identifier is one that was read under it.
LEMMA RebuildStep ==
    ASSUME StoreInvariant, NEW c \in Caller, Rebuild(c)
    PROVE  StoreInvariant'
<1>1. call[c] \in Call /\ call[c].at = "rebuild" /\ call[c].read \in Snapshot
  BY DEF StoreInvariant, TypeOK, Rebuild, Call
<1>2. /\ index' = [k \in Key |-> IF ReadOf(c, k) = {} THEN index[k] ELSE Last(ReadOf(c, k))]
      /\ cache' = [r \in Record |-> IF call[c].read[r] # Nothing
                                    THEN call[c].read[r] ELSE cache[r]]
      /\ UNCHANGED <<owner, data, installed, ready, calm>>
  BY DEF Rebuild, node
<1>3. ASSUME NEW k \in Key, ReadOf(c, k) # {}
      PROVE  Last(ReadOf(c, k)) \in Record /\ owner[Last(ReadOf(c, k))] = k
  <2>1. ReadOf(c, k) \in SUBSET Record
    BY DEF ReadOf
  <2>2. Last(ReadOf(c, k)) \in ReadOf(c, k)
    BY <1>3, <2>1, LastIsOne
  <2> QED
    BY <2>2 DEF ReadOf
<1>4. index' \in [Key -> Record \cup {NoRecord}] /\ cache' \in Snapshot
  BY <1>1, <1>2, <1>3 DEF StoreInvariant, TypeOK, Snapshot
<1>5. OwnersStay /\ MemoryHolds'
  <2>1. \A k \in Key : index'[k] # NoRecord => index'[k] \in Record /\ owner[index'[k]] = k
    BY <1>2, <1>3 DEF StoreInvariant, MemoryHolds
  <2>2. \A r \in Record : cache'[r] # Nothing => owner[r] \in Key
    BY <1>2 DEF StoreInvariant, MemoryHolds, CallHolds
  <2> QED
    BY <1>2, <2>1, <2>2 DEF StoreInvariant, MemoryHolds, OwnersStay
<1>6. CASE call[c].op = "list"
  <2>1. Ends(c)
    BY <1>6 DEF Rebuild
  <2> QED
    BY <1>2, <1>4, <1>5, <2>1, Finishes, IdleHolds, StepHolds DEF StoreInvariant, TypeOK
<1>7. CASE call[c].op # "list"
  <2>1. GotoWith(c, "indexed", NoRecord) /\ "indexed" \in Step \ NeedsRecord
    BY <1>7 DEF Rebuild, Step, NeedsRecord
  <2>2. /\ call' \in [Caller -> Call]
        /\ \A b \in Caller : b # c => call'[b] = call[b]
        /\ \A b \in Caller : call'[b].at \in NeedsRecord => call'[b].record # NoRecord
        /\ call'[c].at = "indexed"
        /\ call'[c].op = call[c].op /\ call'[c].key = call[c].key
        /\ call'[c].record = NoRecord /\ call'[c].read = NoObjects
    BY <2>1, MovesWith DEF StoreInvariant
  <2>3. CallHolds(c)'
    BY <1>1, <1>2, <2>2 DEF StoreInvariant, CallHolds, TenantIn, NoObjects
  <2> QED
    BY <1>2, <1>4, <1>5, <2>2, <2>3, StepHolds DEF StoreInvariant, TypeOK
<1> QED
  BY <1>6, <1>7

LEMMA IndexedStep ==
    ASSUME StoreInvariant, NEW c \in Caller, Indexed(c)
    PROVE  StoreInvariant'
<1> DEFINE r == index[call[c].key]
<1>1. /\ call[c].key \in Key /\ r \in Record \cup {NoRecord}
      /\ call[c].at \in {"indexed", "blank"}
      /\ UNCHANGED <<node, memory, calm>>
  BY DEF StoreInvariant, TypeOK, CallHolds, Indexed
<1>2. CASE r # NoRecord
  <2>1. r \in Record /\ owner[r] = call[c].key
    BY <1>1, <1>2 DEF StoreInvariant, MemoryHolds
  <2>2. Found(c, r)
    BY <1>2 DEF Indexed
  <2> QED
    BY <1>1, <2>1, <2>2, FoundStep
<1>3. CASE r = NoRecord
  <2>1. NotFound(c)
    BY <1>3 DEF Indexed
  <2>2. CASE Ends(c)
    BY <1>1, <2>2, EndHolds
  <2>3. CASE call[c].op = "import" /\ Goto(c, "write")
    <3>1. "write" \in Step \ NeedsRecord /\ "import" \in Sets
      BY DEF Step, NeedsRecord, Sets
    <3>2. /\ call' \in [Caller -> Call]
          /\ \A b \in Caller : b # c => call'[b] = call[b]
          /\ \A b \in Caller : call'[b].at \in NeedsRecord => call'[b].record # NoRecord
          /\ call'[c].at = "write"
          /\ call'[c].op = call[c].op /\ call'[c].key = call[c].key
          /\ call'[c].record = call[c].record /\ call'[c].read = call[c].read
      BY <2>3, <3>1, Moves DEF StoreInvariant
    <3>3. CallHolds(c)'
      BY <1>1, <2>3, <3>1, <3>2 DEF StoreInvariant, CallHolds, TenantIn, node
    <3> QED
      BY <1>1, <3>2, <3>3, CallStepHolds
  <2> QED
    BY <2>1, <2>2, <2>3 DEF NotFound
<1> QED
  BY <1>2, <1>3

LEMMA ReadStep ==
    ASSUME StoreInvariant, NEW c \in Caller, Read(c)
    PROVE  StoreInvariant'
<1> DEFINE r == call[c].record
<1>1. /\ call[c] \in Call /\ call[c].at = "read" /\ r \in Record
      /\ UNCHANGED <<node, memory, calm>>
  BY DEF StoreInvariant, TypeOK, CallHolds, Read
<1>2. CASE Ends(c)
  BY <1>1, <1>2, EndHolds
<1>3. CASE call' = [call EXCEPT ![c].at = "fill", ![c].data = data[r]]
  <2> DEFINE n == [call[c] EXCEPT !.at = "fill", !.data = data[r]]
  <2>1. data[r] \in Data \cup {Nothing}
    BY <1>1 DEF StoreInvariant, TypeOK, Snapshot
  <2>2. /\ n \in Call /\ n.at = "fill" /\ n.op = call[c].op /\ n.key = call[c].key
        /\ n.record = call[c].record /\ n.read = call[c].read
    BY <1>1, <2>1 DEF Call, Step
  <2>3. call' = [call EXCEPT ![c] = n]
    BY <1>3
  <2> HIDE DEF n
  <2>4. n.record # NoRecord
    BY <1>1, <2>2, StoreAssumption DEF Record, NoRecord
  <2>5. /\ call' \in [Caller -> Call] /\ call'[c] = n
        /\ \A b \in Caller : b # c => call'[b] = call[b]
        /\ \A b \in Caller : call'[b].at \in NeedsRecord => call'[b].record # NoRecord
    BY <2>2, <2>3, <2>4, CallSet DEF StoreInvariant
  <2>6. CallHolds(c)'
    BY <1>1, <2>2, <2>5 DEF StoreInvariant, CallHolds, TenantIn, node
  <2> QED
    BY <1>1, <2>5, <2>6, CallStepHolds
<1> QED
  BY <1>2, <1>3 DEF Read

LEMMA FillStep ==
    ASSUME StoreInvariant, NEW c \in Caller, Fill(c)
    PROVE  StoreInvariant'
<1> DEFINE r == call[c].record
<1>1. /\ r \in Record /\ owner[r] \in Key /\ call[c].data \in Data \cup {Nothing}
      /\ Ends(c) /\ UNCHANGED <<owner, data, installed, ready, index, calm>>
      /\ cache' \in {cache, [cache EXCEPT ![r] = call[c].data]}
  BY DEF StoreInvariant, TypeOK, CallHolds, Call, Fill, node
<1>2. cache' \in Snapshot
  BY <1>1 DEF StoreInvariant, TypeOK, Snapshot
<1>3. MemoryHolds' /\ OwnersStay
  BY <1>1 DEF StoreInvariant, MemoryHolds, OwnersStay, TypeOK, Snapshot
<1> QED
  BY <1>1, <1>2, <1>3, Finishes, IdleHolds, StepHolds DEF StoreInvariant, TypeOK

LEMMA ReadEntryStep ==
    ASSUME StoreInvariant, NEW c \in Caller, ReadEntry(c)
    PROVE  StoreInvariant'
<1>1. call[c].at = "readEntry" /\ UNCHANGED <<node, memory, calm>>
  BY DEF ReadEntry
<1>2. CASE Ends(c)
  BY <1>1, <1>2, EndHolds
<1>3. CASE Goto(c, "write")
  <2>1. "write" \in Step \ NeedsRecord
    BY DEF Step, NeedsRecord
  <2>2. /\ call' \in [Caller -> Call]
        /\ \A b \in Caller : b # c => call'[b] = call[b]
        /\ \A b \in Caller : call'[b].at \in NeedsRecord => call'[b].record # NoRecord
        /\ call'[c].at = "write"
        /\ call'[c].op = call[c].op /\ call'[c].key = call[c].key
        /\ call'[c].record = call[c].record /\ call'[c].read = call[c].read
    BY <1>3, <2>1, Moves DEF StoreInvariant
  <2>3. CallHolds(c)'
    BY <1>1, <2>2 DEF StoreInvariant, CallHolds, TenantIn, node
  <2> QED
    BY <1>1, <2>2, <2>3, CallStepHolds
<1> QED
  BY <1>2, <1>3 DEF ReadEntry

\* A record is written under its own key, or is one that was never used.
LEMMA WriteStep ==
    ASSUME StoreInvariant, NEW c \in Caller, Write(c)
    PROVE  StoreInvariant'
<1> DEFINE new == {r \in Record : owner[r] = Nothing}
<1> DEFINE r == IF call[c].record # NoRecord THEN call[c].record
                ELSE CHOOSE n \in new : \A m \in new : n <= m
<1>1. /\ call[c].at = "write" /\ call[c].key \in Key /\ call[c].op \in Sets
      /\ call[c].data \in Data \cup {Nothing}
      /\ UNCHANGED <<installed, ready, index, cache, calm>>
      /\ UNCHANGED <<installed, memory, calm>>
      /\ call[c].record # NoRecord \/ new # {}
  BY DEF StoreInvariant, TypeOK, CallHolds, Call, Write, memory
<1>2. r \in Record /\ (owner[r] = call[c].key \/ owner[r] = Nothing)
  <2>1. CASE call[c].record # NoRecord
    BY <2>1 DEF StoreInvariant, CallHolds
  <2>2. CASE call[c].record = NoRecord
    <3>1. new \in SUBSET Record /\ new # {}
      BY <1>1, <2>2
    <3>2. (CHOOSE n \in new : \A m \in new : n <= m) \in new
      BY <3>1, NewIsOne
    <3> QED
      BY <2>2, <3>2
  <2> QED
    BY <2>1, <2>2
<1>3. CASE Ends(c) /\ UNCHANGED <<owner, data>>
  <2>1. UNCHANGED <<node, memory, calm>>
    BY <1>1, <1>3 DEF node
  <2> QED
    BY <1>3, <2>1, EndHolds
<1>4. CASE /\ owner' = [owner EXCEPT ![r] = call[c].key]
           /\ data' = [data EXCEPT ![r] = call[c].data]
           /\ GotoWith(c, "written", r)
  <2> HIDE DEF r
  <2>1. "written" \in Step /\ r \in Record \cup {NoRecord} /\ r # NoRecord
    BY <1>2, StoreAssumption DEF Step, Record, NoRecord
  <2>2. /\ call' \in [Caller -> Call]
        /\ \A b \in Caller : b # c => call'[b] = call[b]
        /\ \A b \in Caller : call'[b].at \in NeedsRecord => call'[b].record # NoRecord
        /\ call'[c].at = "written"
        /\ call'[c].op = call[c].op /\ call'[c].key = call[c].key
        /\ call'[c].record = r /\ call'[c].read = NoObjects
    BY <1>4, <2>1, MovesWith DEF StoreInvariant
  <2>3. /\ owner' \in [Record -> Key \cup {Nothing}] /\ data' \in Snapshot
        /\ owner'[r] = call[c].key
        /\ \A q \in Record : q # r => owner'[q] = owner[q] /\ data'[q] = data[q]
    BY <1>1, <1>2, <1>4 DEF StoreInvariant, TypeOK, Snapshot
  <2>4. OwnersStay
    BY <1>2, <2>3, StoreAssumption DEF OwnersStay
  <2>5. CallHolds(c)'
    BY <1>1, <1>2, <2>2, <2>3 DEF StoreInvariant, CallHolds, TenantIn, NoObjects
  <2>6. MemoryHolds'
    <3>1. \A k \in Key : index[k] # NoRecord => owner'[index[k]] = k
      BY <2>4 DEF StoreInvariant, MemoryHolds, OwnersStay
    <3>2. \A q \in Record : (data'[q] # Nothing \/ cache[q] # Nothing) => owner'[q] \in Key
      BY <1>1, <2>3 DEF StoreInvariant, MemoryHolds
    <3> QED
      BY <1>1, <3>1, <3>2 DEF StoreInvariant, MemoryHolds
  <2> QED
    BY <1>1, <2>2, <2>3, <2>4, <2>5, <2>6, StepHolds DEF StoreInvariant, TypeOK
<1> QED
  BY <1>3, <1>4 DEF Write

LEMMA WrittenStep ==
    ASSUME StoreInvariant, NEW c \in Caller, Written(c)
    PROVE  StoreInvariant'
<1> DEFINE r == call[c].record
<1>1. /\ call[c].at = "written" /\ call[c].key \in Key
      /\ r \in Record /\ owner[r] = call[c].key
      /\ call[c].data \in Data \cup {Nothing}
      /\ index' = [index EXCEPT ![call[c].key] = r]
      /\ cache' = [cache EXCEPT ![r] = call[c].data]
      /\ Ends(c) /\ UNCHANGED <<owner, data, installed, ready, calm>>
  BY DEF StoreInvariant, TypeOK, CallHolds, Call, Written, node
<1>2. index' \in [Key -> Record \cup {NoRecord}] /\ cache' \in Snapshot
  BY <1>1 DEF StoreInvariant, TypeOK, Snapshot
<1>3. MemoryHolds' /\ OwnersStay
  <2>1. \A k \in Key : index'[k] = IF k = call[c].key THEN r ELSE index[k]
    BY <1>1 DEF StoreInvariant, TypeOK
  <2>2. \A q \in Record : q # r => cache'[q] = cache[q]
    BY <1>1 DEF StoreInvariant, TypeOK, Snapshot
  <2> QED
    BY <1>1, <2>1, <2>2 DEF StoreInvariant, MemoryHolds, OwnersStay
<1> QED
  BY <1>1, <1>2, <1>3, Finishes, IdleHolds, StepHolds DEF StoreInvariant, TypeOK

LEMMA RemoveStep ==
    ASSUME StoreInvariant, NEW c \in Caller, Remove(c)
    PROVE  StoreInvariant'
<1> DEFINE r == call[c].record
<1>1. /\ call[c].at = "remove" /\ call[c].key \in Key /\ r \in Record /\ r # NoRecord
      /\ UNCHANGED <<owner, installed, ready, index, cache, calm>>
  BY DEF StoreInvariant, TypeOK, CallHolds, Remove, memory
<1>2. CASE Ends(c) /\ UNCHANGED data
  <2>1. UNCHANGED <<node, memory, calm>>
    BY <1>1, <1>2 DEF node, memory
  <2> QED
    BY <1>2, <2>1, EndHolds
<1>3. CASE data' = [data EXCEPT ![r] = Nothing] /\ Goto(c, "removed")
  <2>1. "removed" \in Step
    BY DEF Step
  <2>2. /\ call' \in [Caller -> Call]
        /\ \A b \in Caller : b # c => call'[b] = call[b]
        /\ \A b \in Caller : call'[b].at \in NeedsRecord => call'[b].record # NoRecord
        /\ call'[c].at = "removed"
        /\ call'[c].op = call[c].op /\ call'[c].key = call[c].key
        /\ call'[c].record = call[c].record /\ call'[c].read = call[c].read
    BY <1>1, <1>3, <2>1, Moves DEF StoreInvariant
  <2>3. data' \in Snapshot /\ \A q \in Record : data'[q] # Nothing => data[q] # Nothing
    BY <1>1, <1>3 DEF StoreInvariant, TypeOK, Snapshot
  <2>4. CallHolds(c)'
    BY <1>1, <2>2 DEF StoreInvariant, CallHolds, TenantIn
  <2>5. MemoryHolds' /\ OwnersStay
    BY <1>1, <2>3 DEF StoreInvariant, MemoryHolds, OwnersStay
  <2> QED
    BY <1>1, <2>2, <2>3, <2>4, <2>5, StepHolds DEF StoreInvariant, TypeOK
<1> QED
  BY <1>2, <1>3 DEF Remove

LEMMA RemovedStep ==
    ASSUME StoreInvariant, NEW c \in Caller, Removed(c)
    PROVE  StoreInvariant'
<1> DEFINE r == call[c].record
<1>1. /\ call[c].key \in Key /\ r \in Record
      /\ index' = [index EXCEPT ![call[c].key] = NoRecord]
      /\ cache' = [cache EXCEPT ![r] = Nothing]
      /\ Ends(c) /\ UNCHANGED <<owner, data, installed, ready, calm>>
  BY DEF StoreInvariant, TypeOK, CallHolds, Removed, node
<1>2. index' \in [Key -> Record \cup {NoRecord}] /\ cache' \in Snapshot
  BY <1>1 DEF StoreInvariant, TypeOK, Snapshot
<1>3. MemoryHolds' /\ OwnersStay
  <2>1. \A k \in Key : index'[k] \in {NoRecord, index[k]}
    BY <1>1 DEF StoreInvariant, TypeOK
  <2>2. \A q \in Record : cache'[q] \in {Nothing, cache[q]}
    BY <1>1 DEF StoreInvariant, TypeOK, Snapshot
  <2> QED
    BY <1>1, <2>1, <2>2 DEF StoreInvariant, MemoryHolds, OwnersStay
<1> QED
  BY <1>1, <1>2, <1>3, Finishes, IdleHolds, StepHolds DEF StoreInvariant, TypeOK

-----------------------------------------------------------------------------
(* What happens around the calls *)

LEMMA ExpireStep ==
    ASSUME StoreInvariant, Expire
    PROVE  StoreInvariant'
<1>1. UNCHANGED <<owner, data, installed, ready, call, calm>>
  BY DEF Expire, node
<1>2. /\ index' \in [Key -> Record \cup {NoRecord}] /\ cache' \in Snapshot
      /\ \A k \in Key : index'[k] \in {NoRecord, index[k]}
      /\ \A q \in Record : cache'[q] \in {Nothing, cache[q]}
  BY DEF Expire, StoreInvariant, TypeOK, Snapshot
<1>3. TypeOK'
  BY <1>1, <1>2 DEF StoreInvariant, TypeOK
<1>4. MemoryHolds'
  BY <1>1, <1>2 DEF StoreInvariant, MemoryHolds
<1>5. \A c \in Caller : CallHolds(c)'
  BY <1>1 DEF StoreInvariant, CallHolds, TenantIn
<1> QED
  BY <1>3, <1>4, <1>5 DEF StoreInvariant

LEMMA RestartStep ==
    ASSUME StoreInvariant, Restart
    PROVE  StoreInvariant'
<1>1. /\ UNCHANGED <<owner, data, installed>> /\ ready' = {} /\ calm' = TRUE
      /\ index' = [k \in Key |-> NoRecord] /\ cache' = NoObjects
      /\ call' = [c \in Caller |-> Idle]
  BY DEF Restart, node
<1>2. \A c \in Caller : call'[c] = Idle
  BY <1>1
<1>3. \A c \in Caller : CallHolds(c)'
  BY <1>2, IdleHolds
<1>4. Idle.at \notin NeedsRecord /\ NoObjects \in Snapshot
  BY DEF Idle, NeedsRecord, NoObjects, Snapshot
<1>5. TypeOK'
  <2>1. call' \in [Caller -> Call]
    BY <1>1, IdleCall
  <2>2. \A c \in Caller : call'[c].at \notin NeedsRecord
    BY <1>2, <1>4
  <2> QED
    BY <1>1, <1>4, <2>1, <2>2 DEF StoreInvariant, TypeOK, NeedsRecord
<1>6. MemoryHolds'
  BY <1>1 DEF StoreInvariant, MemoryHolds, NoObjects
<1> QED
  BY <1>3, <1>5, <1>6 DEF StoreInvariant

-----------------------------------------------------------------------------
(* The theorems *)

LEMMA StoreInit == Init => StoreInvariant
<1> SUFFICES ASSUME Init PROVE StoreInvariant
  OBVIOUS
<1>1. /\ Idle.at = "idle" /\ Idle.op = "get" /\ Idle.record = NoRecord
      /\ Idle.read = NoObjects /\ "get" \notin Sets
  BY DEF Idle, Sets
<1>2. \A c \in Caller : call[c] = Idle
  BY DEF Init
<1>3. TypeOK
  BY <1>1, <1>2, IdleCall DEF Init, TypeOK, NoObjects, Snapshot
<1>4. \A c \in Caller : CallHolds(c)
  BY <1>1, <1>2 DEF CallHolds, NoObjects
<1>5. MemoryHolds
  BY DEF Init, MemoryHolds, NoObjects
<1> QED
  BY <1>3, <1>4, <1>5 DEF StoreInvariant

LEMMA StoreNext == StoreInvariant /\ [Next]_vars => StoreInvariant'
<1> SUFFICES ASSUME StoreInvariant, [Next]_vars PROVE StoreInvariant'
  OBVIOUS
<1>1. ASSUME NEW c \in Caller, Begins(c) PROVE StoreInvariant'
  BY <1>1, BeginStep DEF Begins
<1>2. ASSUME NEW c \in Caller, InstallConflict(c) \/ NodeFails(c) PROVE StoreInvariant'
  BY <1>2, EndHolds DEF InstallConflict, NodeFails
<1>3. CASE UNCHANGED vars
  <2>1. UNCHANGED <<owner, data, installed, ready, index, cache, call, calm>>
    BY <1>3 DEF vars, node, memory
  <2> QED
    BY <2>1 DEF StoreInvariant, TypeOK, MemoryHolds, CallHolds, TenantIn
<1> QED
  BY <1>1, <1>2, <1>3, InitializeStep, LookupStep, QueryStep, QueryRefusedStep, RebuildStep,
     IndexedStep, ReadStep, FillStep, ReadEntryStep, WriteStep, WrittenStep, RemoveStep, RemovedStep,
     ExpireStep, RestartStep DEF Next

LEMMA StoreInvariantHolds == Spec => []StoreInvariant
  BY StoreInit, StoreNext, PTL DEF Spec

\* The index never leads to an object of another identifier or tenant.
THEOREM IndexNamesHolds == Spec => []IndexNames
<1>1. StoreInvariant => IndexNames
  BY DEF StoreInvariant, MemoryHolds, CallHolds, IndexNames
<1> QED
  BY <1>1, StoreInvariantHolds, PTL

\* The node has the protocol before an object is written.
THEOREM ProtocolFirstHolds == Spec => []ProtocolFirst
<1>1. StoreInvariant => ProtocolFirst
  BY DEF StoreInvariant, MemoryHolds, CallHolds, ProtocolFirst
<1> QED
  BY <1>1, StoreInvariantHolds, PTL

-----------------------------------------------------------------------------
(* Calls that do not overlap *)

\* While calls are alone one of them is in progress at most, and what it has
\* in hand is what the node has.
Alone == \A b, c \in Caller : call[b].at # "idle" /\ call[c].at # "idle" => b = c

InHand(c) ==
    /\ call[c].op \in Sets => call[c].data # Nothing
    /\ call[c].at \in {"read", "fill"} => call[c].op \notin Sets
    /\ call[c].at = "rebuild" =>
          \A r \in Record :
             call[c].read[r] = IF Live(r) /\ TenantOf[owner[r]] = TenantIn(c)
                               THEN data[r] ELSE Nothing
    /\ call[c].at \in {"fill", "written"} => call[c].data = data[call[c].record]
    /\ call[c].at = "removed" => ~Live(call[c].record)
    /\ call[c].at = "indexed" /\ index[call[c].key] = NoRecord => LiveOf(call[c].key) = {}
    /\ call[c].at = "blank" => call[c].op # "import"
    /\ call[c].at \in {"initialize", "install"} /\ call[c].op = "create"
          => LiveOf(call[c].key) = {}
    /\ call[c].at = "write" => call[c].record # NoRecord \/ LiveOf(call[c].key) = {}

\* Index and cache agree with the node, but for the record the call is about
\* to file or to forget.
IndexAgrees(c) ==
    \A k \in Key : \/ index[k] = NoRecord \/ Live(index[k])
                   \/ call[c].at = "removed" /\ call[c].record = index[k]
CacheAgrees(c) ==
    \A r \in Record : \/ cache[r] \in {Nothing, data[r]} \/ index[owner[r]] # r
                      \/ call[c].at \in {"written", "removed"} /\ call[c].record = r

CalmInvariant == calm => Alone /\ Agreement /\ \A c \in Caller : InHand(c)

\* What the one call that is in progress may rely on.
LEMMA CalmCall ==
    ASSUME CalmInvariant, calm, NEW c \in Caller, call[c].at # "idle"
    PROVE  /\ IndexAgrees(c) /\ CacheAgrees(c) /\ InHand(c)
           /\ \A b \in Caller : b # c => call[b].at = "idle"
<1>1. Alone /\ Agreement /\ InHand(c)
  BY DEF CalmInvariant
<1>2. \A b \in Caller : b # c => call[b].at = "idle"
  BY <1>1 DEF Alone
<1>3. \A b \in Caller : call[b].at \in {"written", "removed"} => b = c
  BY <1>2
<1> QED
  BY <1>1, <1>2, <1>3 DEF Agreement, IndexAgrees, CacheAgrees

\* A step of the call in progress.
LEMMA CalmStep ==
    ASSUME CalmInvariant, calm' = calm, NEW c \in Caller, call[c].at # "idle",
           \A b \in Caller : b # c => call'[b] = call[b],
           ASSUME calm, IndexAgrees(c), CacheAgrees(c), InHand(c)
           PROVE  InHand(c)' /\ IndexAgrees(c)' /\ CacheAgrees(c)'
    PROVE  CalmInvariant'
<1> SUFFICES ASSUME calm
             PROVE  Alone' /\ Agreement' /\ \A b \in Caller : InHand(b)'
  BY DEF CalmInvariant
<1>1. \A b \in Caller : b # c => call[b].at = "idle" /\ call'[b].at = "idle"
  BY CalmCall
<1>2. InHand(c)' /\ IndexAgrees(c)' /\ CacheAgrees(c)'
  BY CalmCall
<1>3. Alone'
  BY <1>1 DEF Alone
<1>4. Agreement'
  BY <1>2 DEF Agreement, IndexAgrees, CacheAgrees
<1>5. ASSUME NEW b \in Caller PROVE InHand(b)'
  <2>1. CASE b = c
    BY <1>2, <2>1
  <2>2. CASE b # c
    <3>1. InHand(b)
      BY DEF CalmInvariant
    <3> QED
      BY <1>1, <2>2, <3>1 DEF InHand
  <2> QED
    BY <2>1, <2>2
<1> QED
  BY <1>3, <1>4, <1>5

\* Index, cache and node stay as they are, and nothing was pending.
LEMMA CalmCallStep ==
    ASSUME CalmInvariant, UNCHANGED <<owner, data, index, cache, calm>>,
           NEW c \in Caller, call[c].at \notin {"idle", "written", "removed"},
           \A b \in Caller : b # c => call'[b] = call[b],
           calm => (InHand(c) => InHand(c)')
    PROVE  CalmInvariant'
<1>1. ASSUME calm, IndexAgrees(c), CacheAgrees(c), InHand(c)
      PROVE  InHand(c)' /\ IndexAgrees(c)' /\ CacheAgrees(c)'
  BY <1>1 DEF IndexAgrees, CacheAgrees, Live
<1> QED
  BY <1>1, CalmStep

LEMMA IdleInHand ==
    ASSUME NEW c \in Caller, call'[c] = Idle
    PROVE  InHand(c)' /\ call'[c].at = "idle"
BY DEF Idle, InHand, Sets

LEMMA CalmEnds ==
    ASSUME StoreInvariant, CalmInvariant, UNCHANGED <<owner, data, index, cache, calm>>,
           NEW c \in Caller, call[c].at \notin {"idle", "written", "removed"}, Ends(c)
    PROVE  CalmInvariant'
BY Finishes, IdleInHand, CalmCallStep DEF StoreInvariant

LEMMA BeginCalm ==
    ASSUME StoreInvariant, CalmInvariant, NEW c \in Caller, NEW op \in Op, NEW k \in Key,
           NEW d \in Data \cup {Nothing}, NEW useCache \in BOOLEAN,
           op \in Sets => d # Nothing,
           op = "create" => \A q \in Record : owner[q] # k, Begin(c, op, k, d, useCache)
    PROVE  CalmInvariant'
<1> DEFINE step == IF op \in Sets THEN "initialize"
                   ELSE IF op = "list" THEN "query" ELSE "lookup"
<1> DEFINE r == [Idle EXCEPT !.at = step, !.op = op, !.key = k, !.data = d,
                             !.useCache = useCache]
<1>1. r.at = step /\ r.op = op /\ r.data = d /\ r.key = k
  BY DEF Idle
<1>2. step \in {"initialize", "query", "lookup"}
  OBVIOUS
<1>3. /\ call' = [call EXCEPT ![c] = r]
      /\ UNCHANGED <<owner, data, cache>>
      /\ index' = IF op = "list" THEN [j \in Key |-> NoRecord] ELSE index
      /\ calm' = (calm /\ \A b \in Caller : call[b].at = "idle")
  BY DEF Begin, node
<1> HIDE DEF step, r
<1>4. call'[c] = r /\ \A b \in Caller : b # c => call'[b] = call[b]
  BY <1>3 DEF StoreInvariant, TypeOK
<1> SUFFICES ASSUME calm'
             PROVE  Alone' /\ Agreement' /\ \A b \in Caller : InHand(b)'
  BY DEF CalmInvariant
<1>5. calm /\ \A b \in Caller : call[b].at = "idle"
  BY <1>3 DEF StoreInvariant, TypeOK
<1>6. Alone'
  BY <1>4, <1>5 DEF Alone
<1>7. Agreement'
  <2>1. /\ \A j \in Key : index[j] = NoRecord \/ Live(index[j])
        /\ \A q \in Record : cache[q] \in {Nothing, data[q]} \/ index[owner[q]] # q
    BY <1>5 DEF CalmInvariant, Agreement
  <2>2. \A j \in Key : index'[j] \in {NoRecord, index[j]}
    BY <1>3
  <2>3. \A q \in Record : cache[q] # Nothing => owner[q] \in Key /\ q # NoRecord
    BY StoreAssumption DEF StoreInvariant, MemoryHolds, Record, NoRecord
  <2> QED
    BY <1>3, <2>1, <2>2, <2>3 DEF Agreement, Live
<1>8. ASSUME NEW b \in Caller PROVE InHand(b)'
  <2>1. CASE b = c
    BY <1>1, <1>2, <1>3, <1>4, <2>1 DEF InHand, LiveOf
  <2>2. CASE b # c
    BY <1>3, <1>4, <1>5, <2>2 DEF InHand, CalmInvariant
  <2> QED
    BY <2>1, <2>2
<1> QED
  BY <1>6, <1>7, <1>8

LEMMA InitializeCalm ==
    ASSUME StoreInvariant, CalmInvariant, NEW c \in Caller, Initialize(c) \/ Install(c)
    PROVE  CalmInvariant'
<1>1. /\ call[c].at \in {"initialize", "install"} /\ call[c].op \in Sets
      /\ UNCHANGED <<owner, data, index, cache, calm>>
  BY DEF StoreInvariant, CallHolds, Initialize, Install, node
<1>2. PICK s \in {"write", "lookup", "install"} :
         Goto(c, s) /\ (s = "write" => call[c].op = "create")
  BY DEF Initialize, Install, Initialized
<1>3. s \in Step \ NeedsRecord
  BY DEF Step, NeedsRecord
<1>4. /\ call'[c].at = s /\ call'[c].op = call[c].op /\ call'[c].data = call[c].data
      /\ call'[c].key = call[c].key
      /\ \A b \in Caller : b # c => call'[b] = call[b]
  BY <1>2, <1>3, Moves DEF StoreInvariant
<1>5. InHand(c) => InHand(c)'
  BY <1>1, <1>2, <1>4 DEF InHand, LiveOf, Live
<1> QED
  BY <1>1, <1>4, <1>5, CalmCallStep

LEMMA FoundCalm ==
    ASSUME StoreInvariant, CalmInvariant, NEW c \in Caller,
           call[c].at \in {"lookup", "indexed", "blank"}, NEW r \in Record, Found(c, r),
           UNCHANGED <<owner, data, index, cache, calm>>
    PROVE  CalmInvariant'
<1>1. ASSUME NEW s \in {"read", "remove", "readEntry"}, GotoWith(c, s, r),
             s = "read" => call[c].op \notin Sets
      PROVE  CalmInvariant'
  <2>1. s \in Step /\ r \in Record \cup {NoRecord} /\ r # NoRecord
    BY StoreAssumption DEF Step, Record, NoRecord
  <2>2. /\ call'[c].at = s /\ call'[c].op = call[c].op /\ call'[c].data = call[c].data
        /\ \A b \in Caller : b # c => call'[b] = call[b]
    BY <1>1, <2>1, MovesWith DEF StoreInvariant
  <2>3. InHand(c) => InHand(c)'
    BY <1>1, <2>2 DEF InHand
  <2> QED
    BY <2>2, <2>3, CalmCallStep
<1>2. CASE Ends(c)
  BY <1>2, CalmEnds
<1>3. "get" \notin Sets
  BY DEF Sets
<1> QED
  BY <1>1, <1>2, <1>3 DEF Found

LEMMA LookupCalm ==
    ASSUME StoreInvariant, CalmInvariant, NEW c \in Caller, Lookup(c)
    PROVE  CalmInvariant'
<1> DEFINE r == index[call[c].key]
<1>1. call[c].key \in Key /\ r \in Record \cup {NoRecord} /\ call[c].at = "lookup"
  BY DEF StoreInvariant, TypeOK, CallHolds, Lookup
<1>2. CASE r # NoRecord
  BY <1>1, <1>2, FoundCalm DEF Lookup, node
<1>3. CASE r = NoRecord
  <2>1. /\ Goto(c, "query") /\ index' = [k \in Key |-> NoRecord]
        /\ UNCHANGED <<owner, data, cache, calm>>
    BY <1>3 DEF Lookup, node
  <2>2. "query" \in Step \ NeedsRecord
    BY DEF Step, NeedsRecord
  <2>3. /\ call'[c].at = "query" /\ call'[c].op = call[c].op /\ call'[c].data = call[c].data
        /\ \A b \in Caller : b # c => call'[b] = call[b]
    BY <2>1, <2>2, Moves DEF StoreInvariant
  <2>4. ASSUME calm, IndexAgrees(c), CacheAgrees(c), InHand(c)
        PROVE  InHand(c)' /\ IndexAgrees(c)' /\ CacheAgrees(c)'
    <3>1. InHand(c)'
      BY <2>3, <2>4 DEF InHand
    <3>2. IndexAgrees(c)'
      BY <2>1 DEF IndexAgrees
    <3>3. ASSUME NEW q \in Record, cache[q] # Nothing PROVE index'[owner'[q]] # q
      <4>1. owner[q] \in Key /\ q # NoRecord
        BY <3>3, StoreAssumption DEF StoreInvariant, MemoryHolds, Record, NoRecord
      <4> QED
        BY <2>1, <4>1
    <3> QED
      BY <2>1, <3>1, <3>2, <3>3 DEF CacheAgrees
  <2> QED
    BY <1>1, <2>1, <2>3, <2>4, CalmStep
<1> QED
  BY <1>2, <1>3

LEMMA QueryCalm ==
    ASSUME StoreInvariant, CalmInvariant, NEW c \in Caller, Query(c)
    PROVE  CalmInvariant'
<1> DEFINE Answer == [r \in Record |->
              IF Live(r) /\ TenantOf[owner[r]] = TenantIn(c) THEN data[r] ELSE Nothing]
<1>1. call[c] \in Call /\ call[c].at = "query"
  BY DEF StoreInvariant, TypeOK, Query
<1>2. /\ call' = [call EXCEPT ![c] = [call[c] EXCEPT !.at = "rebuild", !.read = Answer]]
      /\ UNCHANGED <<owner, data, index, cache, calm>>
  BY DEF Query, node, memory
<1> HIDE DEF Answer
<1>3. /\ call'[c].at = "rebuild" /\ call'[c].op = call[c].op /\ call'[c].data = call[c].data
      /\ call'[c].key = call[c].key /\ call'[c].read = Answer
      /\ \A b \in Caller : b # c => call'[b] = call[b]
  BY <1>1, <1>2 DEF StoreInvariant, TypeOK, Call
<1>4. InHand(c) => InHand(c)'
  BY <1>2, <1>3 DEF InHand, Answer, Live, TenantIn
<1> QED
  BY <1>1, <1>2, <1>3, <1>4, CalmCallStep

LEMMA QueryRefusedCalm ==
    ASSUME StoreInvariant, CalmInvariant, NEW c \in Caller, QueryRefused(c)
    PROVE  CalmInvariant'
<1>1. call[c].at = "query" /\ UNCHANGED <<owner, data, index, cache>>
  BY DEF QueryRefused, node, memory
<1>2. CASE ~calm'
  BY <1>2 DEF CalmInvariant
<1>3. CASE calm'
  <2>1. calm' = calm /\ call[c].op # "import"
    BY <1>3 DEF QueryRefused, StoreInvariant, TypeOK
  <2>2. CASE Ends(c)
    BY <1>1, <2>1, <2>2, CalmEnds
  <2>3. CASE Goto(c, "blank")
    <3>1. "blank" \in Step \ NeedsRecord
      BY DEF Step, NeedsRecord
    <3>2. /\ call'[c].at = "blank" /\ call'[c].op = call[c].op /\ call'[c].data = call[c].data
          /\ \A b \in Caller : b # c => call'[b] = call[b]
      BY <2>3, <3>1, Moves DEF StoreInvariant
    <3>3. InHand(c) => InHand(c)'
      BY <2>1, <3>2 DEF InHand
    <3> QED
      BY <1>1, <2>1, <3>2, <3>3, CalmCallStep
  <2> QED
    BY <2>2, <2>3 DEF QueryRefused
<1> QED
  BY <1>2, <1>3

LEMMA RebuildCalm ==
    ASSUME StoreInvariant, CalmInvariant, NEW c \in Caller, Rebuild(c)
    PROVE  CalmInvariant'
<1>1. call[c] \in Call /\ call[c].at = "rebuild" /\ call[c].key \in Key
  BY DEF StoreInvariant, TypeOK, Rebuild, CallHolds
<1>2. /\ index' = [k \in Key |-> IF ReadOf(c, k) = {} THEN index[k] ELSE Last(ReadOf(c, k))]
      /\ cache' = [r \in Record |-> IF call[c].read[r] # Nothing
                                    THEN call[c].read[r] ELSE cache[r]]
      /\ UNCHANGED <<owner, data, calm>>
  BY DEF Rebuild, node
<1>3. /\ call'[c].at \in {"idle", "indexed"}
      /\ call'[c].at = "indexed" => call'[c].key = call[c].key
      /\ call'[c].op \in Sets => call[c].op \in Sets /\ call'[c].data = call[c].data
      /\ \A b \in Caller : b # c => call'[b] = call[b]
  <2>1. CASE call[c].op = "list"
    BY <2>1, Finishes DEF Rebuild, StoreInvariant, Idle, Sets
  <2>2. CASE call[c].op # "list"
    <3>1. "indexed" \in Step \ NeedsRecord
      BY DEF Step, NeedsRecord
    <3> QED
      BY <2>2, <3>1, MovesWith DEF Rebuild, StoreInvariant
  <2> QED
    BY <2>1, <2>2
<1>4. ASSUME calm, IndexAgrees(c), CacheAgrees(c), InHand(c)
      PROVE  InHand(c)' /\ IndexAgrees(c)' /\ CacheAgrees(c)'
  <2>1. /\ \A k \in Key : index[k] = NoRecord \/ Live(index[k])
        /\ \A r \in Record : cache[r] \in {Nothing, data[r]} \/ index[owner[r]] # r
        /\ \A r \in Record : call[c].read[r] \in {Nothing, data[r]}
        /\ \A r \in Record : Live(r) /\ owner[r] = call[c].key => call[c].read[r] # Nothing
    BY <1>1, <1>4 DEF IndexAgrees, CacheAgrees, InHand, Live, TenantIn
  <2>2. ASSUME NEW k \in Key, ReadOf(c, k) # {}
        PROVE  Last(ReadOf(c, k)) \in ReadOf(c, k)
    <3>1. ReadOf(c, k) \in SUBSET Record
      BY DEF ReadOf
    <3> QED
      BY <2>2, <3>1, LastIsOne
  <2>3. \A k \in Key : index'[k] = NoRecord \/ Live(index'[k])
    BY <1>2, <2>1, <2>2 DEF ReadOf, Live
  <2>4. ASSUME NEW r \in Record, cache'[r] \notin {Nothing, data[r]}
        PROVE  index'[owner[r]] # r
    <3>1. call[c].read[r] = Nothing /\ cache[r] \notin {Nothing, data[r]}
      BY <1>2, <2>1, <2>4
    <3>2. index[owner[r]] # r /\ owner[r] \in Key
      BY <2>1, <3>1 DEF StoreInvariant, MemoryHolds
    <3>3. r \notin ReadOf(c, owner[r])
      BY <3>1 DEF ReadOf
    <3> QED
      BY <1>2, <2>2, <3>2, <3>3
  <2>5. index'[call[c].key] = NoRecord => LiveOf(call[c].key) = {}
    <3>1. ASSUME index'[call[c].key] = NoRecord PROVE ReadOf(c, call[c].key) = {}
      <4>1. NoRecord \notin ReadOf(c, call[c].key)
        BY StoreAssumption DEF ReadOf, Record, NoRecord
      <4> QED
        BY <1>1, <1>2, <2>2, <3>1, <4>1
    <3> QED
      BY <2>1, <3>1 DEF ReadOf, LiveOf, Live
  <2>6. InHand(c)'
    BY <1>2, <1>3, <1>4, <2>5 DEF InHand, LiveOf, Live
  <2> QED
    BY <1>2, <2>3, <2>4, <2>6 DEF IndexAgrees, CacheAgrees, Live
<1> QED
  BY <1>1, <1>2, <1>3, <1>4, CalmStep

LEMMA IndexedCalm ==
    ASSUME StoreInvariant, CalmInvariant, NEW c \in Caller, Indexed(c)
    PROVE  CalmInvariant'
<1> DEFINE r == index[call[c].key]
<1>1. /\ call[c].key \in Key /\ r \in Record \cup {NoRecord}
      /\ call[c].at \in {"indexed", "blank"}
      /\ UNCHANGED <<owner, data, index, cache, calm>>
  BY DEF StoreInvariant, TypeOK, CallHolds, Indexed, node, memory
<1>2. CASE r # NoRecord
  BY <1>1, <1>2, FoundCalm DEF Indexed
<1>3. CASE Ends(c)
  BY <1>1, <1>3, CalmEnds
<1>4. CASE Goto(c, "write") /\ call[c].op = "import" /\ r = NoRecord
  <2>1. "write" \in Step \ NeedsRecord
    BY DEF Step, NeedsRecord
  <2>2. /\ call'[c].at = "write" /\ call'[c].op = call[c].op /\ call'[c].data = call[c].data
        /\ call'[c].key = call[c].key
        /\ \A b \in Caller : b # c => call'[b] = call[b]
    BY <1>4, <2>1, Moves DEF StoreInvariant
  <2>3. InHand(c) => LiveOf(call[c].key) = {}
    BY <1>1, <1>4 DEF InHand
  <2>4. InHand(c) => InHand(c)'
    BY <1>1, <2>2, <2>3 DEF InHand, LiveOf, Live
  <2> QED
    BY <1>1, <2>2, <2>4, CalmCallStep
<1> QED
  BY <1>1, <1>2, <1>3, <1>4 DEF Indexed, NotFound

LEMMA ReadCalm ==
    ASSUME StoreInvariant, CalmInvariant, NEW c \in Caller, Read(c)
    PROVE  CalmInvariant'
<1> DEFINE r == call[c].record
<1>1. /\ call[c] \in Call /\ call[c].at = "read" /\ r \in Record
      /\ UNCHANGED <<owner, data, index, cache, calm>>
  BY DEF StoreInvariant, TypeOK, CallHolds, Read, node, memory
<1>2. CASE Ends(c)
  BY <1>1, <1>2, CalmEnds
<1>3. CASE call' = [call EXCEPT ![c].at = "fill", ![c].data = data[r]]
  <2>1. /\ call'[c].at = "fill" /\ call'[c].op = call[c].op
        /\ call'[c].data = data[r] /\ call'[c].record = r
        /\ \A b \in Caller : b # c => call'[b] = call[b]
    BY <1>1, <1>3 DEF StoreInvariant, TypeOK, Call
  <2>2. InHand(c) => InHand(c)'
    BY <1>1, <2>1 DEF InHand
  <2> QED
    BY <1>1, <2>1, <2>2, CalmCallStep
<1> QED
  BY <1>2, <1>3 DEF Read

LEMMA FillCalm ==
    ASSUME StoreInvariant, CalmInvariant, NEW c \in Caller, Fill(c)
    PROVE  CalmInvariant'
<1> DEFINE r == call[c].record
<1>1. /\ call[c].at = "fill" /\ r \in Record /\ cache \in Snapshot /\ Ends(c)
      /\ UNCHANGED <<owner, data, index, calm>>
      /\ cache' \in {cache, [cache EXCEPT ![r] = call[c].data]}
  BY DEF StoreInvariant, TypeOK, CallHolds, Fill, node
<1>2. /\ InHand(c)' /\ call'[c].at = "idle"
      /\ \A b \in Caller : b # c => call'[b] = call[b]
  BY <1>1, Finishes, IdleInHand DEF StoreInvariant
<1>3. ASSUME calm, IndexAgrees(c), CacheAgrees(c), InHand(c)
      PROVE  InHand(c)' /\ IndexAgrees(c)' /\ CacheAgrees(c)'
  <2>1. call[c].data = data[r]
    BY <1>1, <1>3 DEF InHand
  <2>2. \A q \in Record : cache'[q] \in {cache[q], data[q]}
    BY <1>1, <2>1 DEF Snapshot
  <2>3. IndexAgrees(c)'
    BY <1>1, <1>3 DEF IndexAgrees, Live
  <2>4. CacheAgrees(c)'
    BY <1>1, <1>3, <2>2 DEF CacheAgrees
  <2> QED
    BY <1>2, <2>3, <2>4
<1> QED
  BY <1>1, <1>2, <1>3, CalmStep

LEMMA ReadEntryCalm ==
    ASSUME StoreInvariant, CalmInvariant, NEW c \in Caller, ReadEntry(c)
    PROVE  CalmInvariant'
<1>1. call[c].at = "readEntry" /\ UNCHANGED <<owner, data, index, cache, calm>>
  BY DEF ReadEntry, node, memory
<1>2. CASE Ends(c)
  BY <1>1, <1>2, CalmEnds
<1>3. CASE Goto(c, "write")
  <2>1. "write" \in Step \ NeedsRecord
    BY DEF Step, NeedsRecord
  <2>2. /\ call'[c].at = "write" /\ call'[c].op = call[c].op /\ call'[c].data = call[c].data
        /\ call'[c].record = call[c].record
        /\ \A b \in Caller : b # c => call'[b] = call[b]
    BY <1>3, <2>1, Moves DEF StoreInvariant
  <2>3. InHand(c) => InHand(c)'
    BY <1>1, <2>2 DEF InHand, StoreInvariant, TypeOK
  <2> QED
    BY <1>1, <2>2, <2>3, CalmCallStep
<1> QED
  BY <1>2, <1>3 DEF ReadEntry

\* The record that has been written is the one the call is about to file.
LEMMA WriteCalm ==
    ASSUME StoreInvariant, CalmInvariant, NEW c \in Caller, Write(c)
    PROVE  CalmInvariant'
<1> DEFINE new == {r \in Record : owner[r] = Nothing}
<1> DEFINE r == IF call[c].record # NoRecord THEN call[c].record
                ELSE CHOOSE n \in new : \A m \in new : n <= m
<1>1. /\ call[c].at = "write" /\ call[c].op \in Sets /\ r \in Record
      /\ UNCHANGED <<index, cache, calm>>
  <2>1. new # {} => (CHOOSE n \in new : \A m \in new : n <= m) \in new
    BY NewIsOne
  <2> QED
    BY <2>1 DEF StoreInvariant, CallHolds, Write, memory
<1>2. CASE Ends(c) /\ UNCHANGED <<owner, data>>
  BY <1>1, <1>2, CalmEnds
<1>3. CASE /\ owner' = [owner EXCEPT ![r] = call[c].key]
           /\ data' = [data EXCEPT ![r] = call[c].data]
           /\ GotoWith(c, "written", r)
  <2> HIDE DEF r
  <2>1. "written" \in Step /\ r \in Record \cup {NoRecord} /\ r # NoRecord
    BY <1>1, StoreAssumption DEF Step, Record, NoRecord
  <2>2. /\ call'[c].at = "written" /\ call'[c].op = call[c].op
        /\ call'[c].data = call[c].data /\ call'[c].record = r
        /\ \A b \in Caller : b # c => call'[b] = call[b]
    BY <1>3, <2>1, MovesWith DEF StoreInvariant
  <2>3. /\ data'[r] = call[c].data
        /\ \A q \in Record : q # r => data'[q] = data[q] /\ owner'[q] = owner[q]
    BY <1>1, <1>3 DEF StoreInvariant, TypeOK, Snapshot
  <2>4. ASSUME calm, IndexAgrees(c), CacheAgrees(c), InHand(c)
        PROVE  InHand(c)' /\ IndexAgrees(c)' /\ CacheAgrees(c)'
    <3>1. call[c].data # Nothing
      BY <1>1, <2>4 DEF InHand
    <3>2. InHand(c)'
      BY <2>2, <2>3, <3>1 DEF InHand
    <3>3. \A k \in Key : index[k] # NoRecord => index[k] \in Record
      BY DEF StoreInvariant, MemoryHolds
    <3>4. IndexAgrees(c)'
      BY <1>1, <2>3, <2>4, <3>1, <3>3 DEF IndexAgrees, Live
    <3>5. CacheAgrees(c)'
      BY <1>1, <2>2, <2>3, <2>4 DEF CacheAgrees
    <3> QED
      BY <3>2, <3>4, <3>5
  <2> QED
    BY <1>1, <2>2, <2>4, CalmStep
<1> QED
  BY <1>2, <1>3 DEF Write

LEMMA WrittenCalm ==
    ASSUME StoreInvariant, CalmInvariant, NEW c \in Caller, Written(c)
    PROVE  CalmInvariant'
<1> DEFINE r == call[c].record
<1> DEFINE k == call[c].key
<1>1. /\ call[c].at = "written" /\ call[c].op \in Sets /\ k \in Key /\ Ends(c)
      /\ r \in Record /\ owner[r] = k
      /\ UNCHANGED <<owner, data, calm>>
      /\ index' = [index EXCEPT ![k] = r]
      /\ cache' = [cache EXCEPT ![r] = call[c].data]
  BY DEF StoreInvariant, TypeOK, CallHolds, Written, node
<1>2. /\ InHand(c)' /\ call'[c].at = "idle"
      /\ \A b \in Caller : b # c => call'[b] = call[b]
  BY <1>1, Finishes, IdleInHand DEF StoreInvariant
<1>3. /\ index'[k] = r /\ \A j \in Key : j # k => index'[j] = index[j]
      /\ cache'[r] = call[c].data /\ \A q \in Record : q # r => cache'[q] = cache[q]
  BY <1>1 DEF StoreInvariant, TypeOK, Snapshot
<1>4. ASSUME calm, IndexAgrees(c), CacheAgrees(c), InHand(c)
      PROVE  InHand(c)' /\ IndexAgrees(c)' /\ CacheAgrees(c)'
  <2>1. call[c].data = data[r] /\ data[r] # Nothing
    BY <1>1, <1>4 DEF InHand
  <2>2. IndexAgrees(c)'
    BY <1>1, <1>3, <1>4, <2>1 DEF IndexAgrees, Live
  <2>3. ASSUME NEW q \in Record, cache'[q] \notin {Nothing, data[q]}
        PROVE  index'[owner[q]] # q
    <3>1. q # r /\ cache[q] \notin {Nothing, data[q]}
      BY <1>3, <2>1, <2>3
    <3>2. owner[q] \in Key /\ index[owner[q]] # q
      BY <1>1, <1>4, <3>1 DEF CacheAgrees, StoreInvariant, MemoryHolds
    <3> QED
      BY <1>3, <3>1, <3>2
  <2> QED
    BY <1>1, <1>2, <2>2, <2>3 DEF CacheAgrees
<1> QED
  BY <1>1, <1>2, <1>4, CalmStep

LEMMA RemoveCalm ==
    ASSUME StoreInvariant, CalmInvariant, NEW c \in Caller, Remove(c)
    PROVE  CalmInvariant'
<1> DEFINE r == call[c].record
<1>1. /\ call[c].at = "remove" /\ r \in Record
      /\ UNCHANGED <<owner, index, cache, calm>>
  BY DEF StoreInvariant, TypeOK, CallHolds, Remove, memory
<1>2. CASE Ends(c) /\ UNCHANGED data
  BY <1>1, <1>2, CalmEnds
<1>3. CASE data' = [data EXCEPT ![r] = Nothing] /\ Goto(c, "removed")
  <2>1. "removed" \in Step /\ call[c].record # NoRecord
    BY <1>1, StoreAssumption DEF Step, Record, NoRecord
  <2>2. /\ call'[c].at = "removed" /\ call'[c].op = call[c].op
        /\ call'[c].data = call[c].data /\ call'[c].record = r
        /\ \A b \in Caller : b # c => call'[b] = call[b]
    BY <1>3, <2>1, Moves DEF StoreInvariant
  <2>3. data'[r] = Nothing /\ \A q \in Record : q # r => data'[q] = data[q]
    BY <1>1, <1>3 DEF StoreInvariant, TypeOK, Snapshot
  <2>4. ASSUME calm, IndexAgrees(c), CacheAgrees(c), InHand(c)
        PROVE  InHand(c)' /\ IndexAgrees(c)' /\ CacheAgrees(c)'
    <3>1. InHand(c)'
      BY <2>2, <2>3, <2>4 DEF InHand, Live
    <3>2. \A k \in Key : index[k] # NoRecord => index[k] \in Record
      BY DEF StoreInvariant, MemoryHolds
    <3>3. IndexAgrees(c)'
      BY <1>1, <2>2, <2>3, <2>4, <3>2 DEF IndexAgrees, Live
    <3>4. CacheAgrees(c)'
      BY <1>1, <2>2, <2>3, <2>4 DEF CacheAgrees
    <3> QED
      BY <3>1, <3>3, <3>4
  <2> QED
    BY <1>1, <2>2, <2>4, CalmStep
<1> QED
  BY <1>2, <1>3 DEF Remove

LEMMA RemovedCalm ==
    ASSUME StoreInvariant, CalmInvariant, NEW c \in Caller, Removed(c)
    PROVE  CalmInvariant'
<1> DEFINE r == call[c].record
<1> DEFINE k == call[c].key
<1>1. /\ call[c].at = "removed" /\ k \in Key /\ Ends(c)
      /\ r \in Record /\ owner[r] = k
      /\ UNCHANGED <<owner, data, calm>>
      /\ index' = [index EXCEPT ![k] = NoRecord]
      /\ cache' = [cache EXCEPT ![r] = Nothing]
  BY DEF StoreInvariant, TypeOK, CallHolds, Removed, node
<1>2. /\ InHand(c)' /\ call'[c].at = "idle"
      /\ \A b \in Caller : b # c => call'[b] = call[b]
  BY <1>1, Finishes, IdleInHand DEF StoreInvariant
<1>3. /\ index'[k] = NoRecord /\ \A j \in Key : j # k => index'[j] = index[j]
      /\ cache'[r] = Nothing /\ \A q \in Record : q # r => cache'[q] = cache[q]
  BY <1>1 DEF StoreInvariant, TypeOK, Snapshot
<1>4. ASSUME calm, IndexAgrees(c), CacheAgrees(c), InHand(c)
      PROVE  InHand(c)' /\ IndexAgrees(c)' /\ CacheAgrees(c)'
  <2>1. ASSUME NEW j \in Key, index'[j] # NoRecord PROVE Live(index'[j])
    <3>1. j # k /\ index'[j] = index[j]
      BY <1>3, <2>1
    <3>2. owner[index[j]] = j
      BY <2>1, <3>1 DEF StoreInvariant, MemoryHolds
    <3> QED
      BY <1>1, <1>4, <2>1, <3>1, <3>2 DEF IndexAgrees
  <2>2. ASSUME NEW q \in Record, cache'[q] \notin {Nothing, data[q]}
        PROVE  index'[owner[q]] # q
    <3>1. q # r /\ cache[q] \notin {Nothing, data[q]}
      BY <1>3, <2>2
    <3>2. owner[q] \in Key /\ index[owner[q]] # q /\ q # NoRecord
      BY <1>1, <1>4, <3>1, StoreAssumption
         DEF CacheAgrees, StoreInvariant, MemoryHolds, Record, NoRecord
    <3> QED
      BY <1>3, <3>2
  <2> QED
    BY <1>1, <1>2, <2>1, <2>2 DEF IndexAgrees, CacheAgrees, Live
<1> QED
  BY <1>1, <1>2, <1>4, CalmStep

\* What expires is forgotten: that agrees with any node.
LEMMA ExpireCalm ==
    ASSUME StoreInvariant, CalmInvariant, Expire
    PROVE  CalmInvariant'
<1>1. /\ UNCHANGED <<owner, data, call, calm>>
      /\ \A r \in Record : cache'[r] \in {Nothing, cache[r]}
      /\ \A k \in Key : index'[k] \in {NoRecord, index[k]}
      /\ \A c \in Caller : call[c].at = "indexed" =>
                              index'[call[c].key] = index[call[c].key]
  BY DEF Expire, node, StoreInvariant, TypeOK, Snapshot, CallHolds
<1> SUFFICES ASSUME calm
             PROVE  Alone' /\ Agreement' /\ \A c \in Caller : InHand(c)'
  BY <1>1 DEF CalmInvariant
<1>2. Alone /\ Agreement /\ \A c \in Caller : InHand(c)
  BY DEF CalmInvariant
<1>3. Agreement'
  <2>1. \A k \in Key : \/ index'[k] = NoRecord \/ Live(index'[k])
                       \/ \E c \in Caller : /\ call[c].at = "removed"
                                            /\ call[c].record = index'[k]
    BY <1>1, <1>2 DEF Agreement
  <2>2. ASSUME NEW r \in Record, cache'[r] \notin {Nothing, data[r]}
        PROVE  \/ index'[owner[r]] # r
               \/ \E c \in Caller : /\ call[c].at \in {"written", "removed"}
                                    /\ call[c].record = r
    <3>1. owner[r] \in Key /\ r # NoRecord /\ cache[r] \notin {Nothing, data[r]}
      BY <1>1, <2>2, StoreAssumption DEF StoreInvariant, MemoryHolds, Record, NoRecord
    <3> QED
      BY <1>1, <1>2, <3>1 DEF Agreement
  <2> QED
    BY <1>1, <2>1, <2>2 DEF Agreement, Live
<1>4. \A c \in Caller : InHand(c)'
  BY <1>1, <1>2 DEF InHand, Live, LiveOf, TenantIn
<1> QED
  BY <1>1, <1>2, <1>3, <1>4 DEF Alone

LEMMA RestartCalm ==
    ASSUME StoreInvariant, Restart
    PROVE  CalmInvariant'
<1>1. /\ \A c \in Caller : call'[c] = Idle
      /\ \A k \in Key : index'[k] = NoRecord
      /\ \A r \in Record : cache'[r] = Nothing
  BY DEF Restart, NoObjects
<1>2. \A c \in Caller : InHand(c)' /\ call'[c].at = "idle"
  BY <1>1, IdleInHand
<1> QED
  BY <1>1, <1>2 DEF CalmInvariant, Alone, Agreement

LEMMA CalmInit == Init => CalmInvariant
<1> SUFFICES ASSUME Init PROVE CalmInvariant
  OBVIOUS
<1>1. \A c \in Caller : call[c].at = "idle" /\ call[c].op = "get"
  BY DEF Init, Idle
<1>2. \A k \in Key : index[k] = NoRecord
  BY DEF Init
<1>3. \A r \in Record : cache[r] = Nothing
  BY DEF Init, NoObjects
<1> QED
  BY <1>1, <1>2, <1>3 DEF CalmInvariant, Alone, Agreement, InHand, Sets

LEMMA CalmNext ==
    ASSUME StoreInvariant, CalmInvariant, [Next]_vars
    PROVE  CalmInvariant'
<1>1. ASSUME NEW c \in Caller, Begins(c) PROVE CalmInvariant'
  BY <1>1, BeginCalm DEF Begins
<1>2. ASSUME NEW c \in Caller, InstallConflict(c) \/ NodeFails(c) PROVE CalmInvariant'
  BY <1>2, CalmEnds DEF InstallConflict, NodeFails, node, memory
<1>3. CASE UNCHANGED vars
  <2>1. UNCHANGED <<owner, data, index, cache, call, calm>>
    BY <1>3 DEF vars, node, memory
  <2> QED
    BY <2>1 DEF CalmInvariant, Alone, Agreement, InHand, Live, LiveOf, TenantIn
<1> QED
  BY <1>1, <1>2, <1>3, InitializeCalm, LookupCalm, QueryCalm, QueryRefusedCalm, RebuildCalm,
     IndexedCalm, ReadCalm, FillCalm, ReadEntryCalm, WriteCalm, WrittenCalm, RemoveCalm, RemovedCalm,
     ExpireCalm, RestartCalm DEF Next

\* Calls that do not overlap find index and cache in agreement with the node,
\* and what a get() of them is about to answer is what the node has.
THEOREM StaysCurrentHolds == Spec => []StaysCurrent
<1>1. StoreInvariant /\ CalmInvariant => StaysCurrent
  <2> SUFFICES ASSUME StoreInvariant, CalmInvariant PROVE StaysCurrent
    OBVIOUS
  <2>1. Agreement
    BY DEF CalmInvariant, Agreement
  <2>2. ASSUME NEW c \in Caller, calm, call[c].at \in {"fill", "lookup", "indexed", "blank"}
        PROVE  LET k == call[c].key  r == index[k] IN
               /\ call[c].at = "fill" => call[c].data = data[call[c].record]
               /\ r # NoRecord => cache[r] \in {Nothing, data[r]}
               /\ call[c].at = "indexed" /\ r = NoRecord => LiveOf(k) = {}
    <3>1. CacheAgrees(c) /\ InHand(c)
      BY <2>2, CalmCall
    <3>2. index[call[c].key] # NoRecord =>
              /\ index[call[c].key] \in Record
              /\ owner[index[call[c].key]] = call[c].key
      BY <2>2 DEF StoreInvariant, MemoryHolds, CallHolds
    <3> QED
      BY <2>2, <3>1, <3>2 DEF CacheAgrees, InHand
  <2> QED
    BY <2>1, <2>2 DEF StaysCurrent, ReadsCurrent
<1>2. Init => CalmInvariant
  BY CalmInit
<1>3. StoreInvariant /\ CalmInvariant /\ [Next]_vars => CalmInvariant'
  BY CalmNext
<1> QED
  BY <1>1, <1>2, <1>3, StoreInvariantHolds, PTL DEF Spec

\* Calls that do not overlap never give an identifier a second record.
THEOREM OneRecordHolds == Spec => OneRecord
<1> DEFINE Kept == calm => \A k \in Key :
                              LiveOf(k) # {} => LiveOf(k)' \subseteq LiveOf(k)
<1>1. StoreInvariant /\ CalmInvariant /\ [Next]_vars => [Kept]_vars
  <2> SUFFICES ASSUME StoreInvariant, CalmInvariant, Next, calm, NEW k \in Key,
                      LiveOf(k) # {}
               PROVE  LiveOf(k)' \subseteq LiveOf(k)
    OBVIOUS
  <2>1. CASE UNCHANGED <<owner, data>>
    BY <2>1 DEF LiveOf, Live
  <2>2. ASSUME NEW c \in Caller, Write(c), ~UNCHANGED <<owner, data>>
        PROVE  LiveOf(k)' \subseteq LiveOf(k)
    <3> DEFINE new == {r \in Record : owner[r] = Nothing}
    <3> DEFINE r == IF call[c].record # NoRecord THEN call[c].record
                    ELSE CHOOSE n \in new : \A m \in new : n <= m
    <3>1. /\ call[c].at = "write" /\ r \in Record
          /\ owner' = [owner EXCEPT ![r] = call[c].key]
          /\ data' = [data EXCEPT ![r] = call[c].data]
          /\ call[c].record # NoRecord => r = call[c].record /\ Live(r)
      <4>1. new # {} => (CHOOSE n \in new : \A m \in new : n <= m) \in new
        BY NewIsOne
      <4> QED
        BY <2>2, <4>1 DEF StoreInvariant, CallHolds, Write
    <3> HIDE DEF r
    <3>2. \A q \in Record : q # r => owner'[q] = owner[q] /\ data'[q] = data[q]
      BY <3>1 DEF StoreInvariant, TypeOK, Snapshot
    <3>3. CASE call[c].record # NoRecord
      <4>1. owner[r] = call[c].key /\ owner'[r] = owner[r]
        BY <3>1, <3>3 DEF StoreInvariant, TypeOK, CallHolds
      <4> QED
        BY <3>1, <3>2, <3>3, <4>1 DEF LiveOf, Live
    <3>4. CASE call[c].record = NoRecord
      <4>1. InHand(c)
        BY DEF CalmInvariant
      <4>2. call[c].key # k
        BY <3>1, <3>4, <4>1 DEF InHand
      <4>3. owner'[r] # k
        BY <3>1, <4>2 DEF StoreInvariant, TypeOK
      <4> QED
        BY <3>2, <4>3 DEF LiveOf, Live
    <3> QED
      BY <3>3, <3>4
  <2>3. ASSUME NEW c \in Caller, Remove(c)
        PROVE  LiveOf(k)' \subseteq LiveOf(k)
    <3>1. owner' = owner /\ \A q \in Record : data'[q] # Nothing => data[q] # Nothing
      BY <2>3 DEF Remove, StoreInvariant, TypeOK, Snapshot
    <3> QED
      BY <3>1 DEF LiveOf, Live
  <2>4. UNCHANGED <<owner, data>> \/ \E c \in Caller : Write(c) \/ Remove(c)
    <3>1. ASSUME NEW c \in Caller
          PROVE  \/ Begins(c) \/ Initialize(c) \/ Install(c) \/ InstallConflict(c)
                 \/ Lookup(c) \/ Query(c) \/ QueryRefused(c) \/ Rebuild(c) \/ Indexed(c)
                 \/ Read(c) \/ Fill(c) \/ ReadEntry(c) \/ Written(c)
                 \/ Removed(c) \/ NodeFails(c)
                 => UNCHANGED <<owner, data>>
      BY DEF Begins, Begin, Initialize, Install, InstallConflict, Lookup, Query,
             QueryRefused, Rebuild, Indexed, Read, Fill, ReadEntry, Written, Removed,
             NodeFails, node
    <3>2. Expire \/ Restart => UNCHANGED <<owner, data>>
      BY DEF Expire, Restart, node
    <3> QED
      BY <3>1, <3>2 DEF Next
  <2> QED
    BY <2>1, <2>2, <2>3, <2>4
<1>2. Init => CalmInvariant
  BY CalmInit
<1>3. StoreInvariant /\ CalmInvariant /\ [Next]_vars => CalmInvariant'
  BY CalmNext
<1> QED
  BY <1>1, <1>2, <1>3, StoreInvariantHolds, PTL DEF Spec, OneRecord
=============================================================================
