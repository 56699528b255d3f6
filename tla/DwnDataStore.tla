---------------------------- MODULE DwnDataStore ----------------------------
(***************************************************************************)
(* DwnDataStore with the DID, identity and key stores that extend it       *)
(* (store-data.ts, store-did.ts, store-identity.ts, store-key.ts): objects *)
(* kept as records on the agent's DWN, an index from their identifiers to  *)
(* record ids and a cache of the objects, both in memory.                  *)
(*                                                                         *)
(* A key is a tenant with an identifier, as in the index.  The calls of    *)
(* several callers interleave wherever the code awaits the node.           *)
(***************************************************************************)
EXTENDS Integers

CONSTANTS
    Key,
    Tenant,
    TenantOf,   \* the tenant of every key
    Data,       \* what an object may hold
    Caller,
    MaxRecord,  \* bound: records ever written
    Happens     \* which of the outside events below may occur

Nothing == "nothing"

ASSUME StoreAssumption ==
    /\ TenantOf \in [Key -> Tenant]
    /\ MaxRecord \in Nat
    /\ Nothing \notin Key \cup Data
    /\ Happens \subseteq {"nodeFails", "refuses", "expiry", "restart"}

\* Record ids, in the order in which the records are created.
Record   == 1..MaxRecord
NoRecord == 0
Snapshot == [Record -> Data \cup {Nothing}]

\* create: neither duplicates nor existing records are looked for; import:
\* preventDuplicates; update: updateExisting.
Sets == {"create", "import", "update"}
Op   == Sets \cup {"get", "list", "delete"}

\* Where a call may be.
Step == {"idle", "initialize", "install", "lookup", "query", "rebuild",
         "indexed", "blank", "read", "fill", "readEntry", "write", "written",
         "remove", "removed"}

\* data: to be written, or read; read: what the query has returned.
Call == [at : Step, op : Op, key : Key \cup {Nothing}, data : Data \cup {Nothing},
         record : Record \cup {NoRecord}, read : Snapshot, useCache : BOOLEAN]

VARIABLES
    owner,      \* the key in every record, also of a deleted one
    data,       \* what the node has of every record
    installed,  \* tenants whose node has the protocol
    ready,      \* _protocolInitializedCache
    index,      \* _index
    cache,      \* _cache
    call,       \* what every caller is in the middle of
    calm        \* history: since a restart calls have been alone, and no
                \* import() has been refused the query for duplicates

node == <<owner, data, installed>>
memory == <<ready, index, cache>>
vars == <<node, memory, call, calm>>

TypeOK ==
    /\ owner \in [Record -> Key \cup {Nothing}]
    /\ data \in Snapshot
    /\ installed \subseteq Tenant
    /\ ready \subseteq Tenant
    /\ index \in [Key -> Record \cup {NoRecord}]
    /\ cache \in Snapshot
    /\ call \in [Caller -> Call]
    /\ \A c \in Caller :
          call[c].at \in {"read", "fill", "readEntry", "written", "remove", "removed"}
              => call[c].record # NoRecord
    /\ calm \in BOOLEAN

NoObjects == [r \in Record |-> Nothing]
Idle == [at |-> "idle", op |-> "get", key |-> Nothing,
         data |-> Nothing, record |-> NoRecord, read |-> NoObjects,
         useCache |-> FALSE]

Init ==
    /\ owner = NoObjects
    /\ data = NoObjects
    /\ installed = {}
    /\ ready = {}
    /\ index = [k \in Key |-> NoRecord]
    /\ cache = NoObjects
    /\ call = [c \in Caller |-> Idle]
    /\ calm = TRUE

-----------------------------------------------------------------------------
TenantIn(c) == TenantOf[call[c].key]
Live(r) == data[r] # Nothing
LiveOf(k) == {r \in Record : owner[r] = k /\ Live(r)}

Goto(c, step) == call' = [call EXCEPT ![c].at = step]
GotoWith(c, step, r) ==
    call' = [call EXCEPT ![c].at = step, ![c].record = r, ![c].read = NoObjects]

\* The call returns or throws.
Ends(c) == call' = [call EXCEPT ![c] = Idle]

\* Mutant: a set() trusts the protocol to be there.
BeginUninitialized(c, op, k, d, useCache) ==
    /\ call[c].at = "idle"
    /\ LET step == IF op = "create" THEN "write"
                   ELSE IF op = "list" THEN "query" ELSE "lookup"
       IN  call' = [call EXCEPT ![c] =
                       [Idle EXCEPT !.at = step, !.op = op, !.key = k,
                                    !.data = d,
                                    !.useCache = useCache]]
    /\ index' = IF op = "list" THEN [j \in Key |-> NoRecord] ELSE index
    /\ calm' = (calm /\ \A b \in Caller : call[b].at = "idle")
    /\ UNCHANGED <<node, ready, cache>>

\* A call begins.  list() clears the index at once.
Begin(c, op, k, d, useCache) ==
    /\ call[c].at = "idle"
    /\ LET step == IF op \in Sets THEN "initialize"
                   ELSE IF op = "list" THEN "query" ELSE "lookup"
       IN  call' = [call EXCEPT ![c] =
                       [Idle EXCEPT !.at = step, !.op = op, !.key = k,
                                    !.data = d,
                                    !.useCache = useCache]]
    /\ index' = IF op = "list" THEN [j \in Key |-> NoRecord] ELSE index
    /\ calm' = (calm /\ \A b \in Caller : call[b].at = "idle")
    /\ UNCHANGED <<node, ready, cache>>

-----------------------------------------------------------------------------
(* initialize() *)

\* Mutant: a set() writes without looking for the record.
InitializedUnchecked(c) == Goto(c, "write")

Initialized(c) == Goto(c, IF call[c].op = "create" THEN "write" ELSE "lookup")

Initialize(c) ==
    /\ call[c].at = "initialize"
    /\ \/ /\ TenantIn(c) \in ready \cup installed
          /\ ready' = ready \cup {TenantIn(c)}
          /\ Initialized(c)
       \/ /\ TenantIn(c) \notin ready \cup installed
          /\ Goto(c, "install")
          /\ UNCHANGED ready
    /\ UNCHANGED <<node, index, cache, calm>>

Install(c) ==
    /\ call[c].at = "install"
    /\ installed' = installed \cup {TenantIn(c)}
    /\ ready' = ready \cup {TenantIn(c)}
    /\ Initialized(c)
    /\ UNCHANGED <<owner, data, index, cache, calm>>

\* Another call has installed a newer configuration: 409, and it throws.
InstallConflict(c) ==
    /\ call[c].at = "install"
    /\ TenantIn(c) \in installed
    /\ Ends(c)
    /\ UNCHANGED <<node, memory, calm>>

-----------------------------------------------------------------------------
(* lookupRecordId() and getAllRecords() *)

\* What the call does with the record it has found.
Found(c, r) ==
    CASE call[c].op = "get" /\ call[c].useCache /\ cache[r] # Nothing ->
            Ends(c)
      [] call[c].op = "get" /\ ~(call[c].useCache /\ cache[r] # Nothing) ->
            GotoWith(c, "read", r)
      [] call[c].op = "delete" -> GotoWith(c, "remove", r)
      [] call[c].op = "update" ->
            GotoWith(c, "readEntry", r)
      [] OTHER -> Ends(c)

NotFound(c) ==
    CASE call[c].op = "get" -> Ends(c)
      [] call[c].op = "import" -> Goto(c, "write")
      [] OTHER -> Ends(c)

Lookup(c) ==
    LET r == index[call[c].key] IN
    /\ call[c].at = "lookup"
    /\ IF r # NoRecord THEN Found(c, r) /\ UNCHANGED index
       ELSE /\ index' = [k \in Key |-> NoRecord]
            /\ Goto(c, "query")
    /\ UNCHANGED <<node, ready, cache, calm>>

\* The node answers with the records of the tenant.
Query(c) ==
    /\ call[c].at = "query"
    /\ call' = [call EXCEPT
          ![c].at = "rebuild",
          ![c].read = [r \in Record |->
              IF Live(r) /\ TenantOf[owner[r]] = TenantIn(c) THEN data[r]
              ELSE Nothing]]
    /\ UNCHANGED <<node, memory, calm>>

\* The node does not carry out the query, which nobody looks at: the reply is
\* without entries, and the call goes on as if the tenant had no objects.
QueryRefused(c) ==
    /\ "refuses" \in Happens
    /\ call[c].at = "query"
    /\ IF call[c].op = "list" THEN Ends(c) ELSE Goto(c, "blank")
    /\ calm' = (calm /\ call[c].op # "import")
    /\ UNCHANGED <<node, memory>>

\* Of several records of one key the last one stays in the index.
Last(S) == CHOOSE r \in S : \A q \in S : q <= r

ReadOf(c, k) == {r \in Record : owner[r] = k /\ call[c].read[r] # Nothing}

\* Mutant: the object is filed under the key that was looked for.
RebuildMisfiled(c) ==
    /\ call[c].at = "rebuild"
    /\ LET all == {r \in Record : call[c].read[r] # Nothing} IN
       index' = [index EXCEPT ![call[c].key] = IF all = {} THEN @ ELSE Last(all)]
    /\ cache' = [r \in Record |-> IF call[c].read[r] # Nothing
                                  THEN call[c].read[r] ELSE cache[r]]
    /\ IF call[c].op = "list" THEN Ends(c) ELSE GotoWith(c, "indexed", NoRecord)
    /\ UNCHANGED <<node, ready, calm>>

Rebuild(c) ==
    /\ call[c].at = "rebuild"
    /\ index' = [k \in Key |-> IF ReadOf(c, k) = {} THEN index[k]
                               ELSE Last(ReadOf(c, k))]
    /\ cache' = [r \in Record |-> IF call[c].read[r] # Nothing
                                  THEN call[c].read[r] ELSE cache[r]]
    /\ IF call[c].op = "list" THEN Ends(c) ELSE GotoWith(c, "indexed", NoRecord)
    /\ UNCHANGED <<node, ready, calm>>

\* The index is read again, which others may have cleared since.
Indexed(c) ==
    LET r == index[call[c].key] IN
    /\ call[c].at \in {"indexed", "blank"}
    /\ IF r # NoRecord THEN Found(c, r) ELSE NotFound(c)
    /\ UNCHANGED <<node, memory, calm>>

-----------------------------------------------------------------------------
(* get() *)

\* It throws if the node does not have the record.
Read(c) ==
    LET r == call[c].record IN
    /\ call[c].at = "read"
    /\ IF Live(r)
       THEN call' = [call EXCEPT ![c].at = "fill", ![c].data = data[r]]
       ELSE Ends(c)
    /\ UNCHANGED <<node, memory, calm>>

Fill(c) ==
    /\ call[c].at = "fill"
    /\ cache' = IF call[c].useCache
                THEN [cache EXCEPT ![call[c].record] = call[c].data] ELSE cache
    /\ Ends(c)
    /\ UNCHANGED <<node, ready, index, calm>>

-----------------------------------------------------------------------------
(* set() *)

\* getExistingRecordEntry() reads the record; without it the update throws.
ReadEntry(c) ==
    /\ call[c].at = "readEntry"
    /\ IF Live(call[c].record) THEN Goto(c, "write") ELSE Ends(c)
    /\ UNCHANGED <<node, memory, calm>>

\* A deleted record refuses the update, and the call throws.
Write(c) ==
    LET new == {r \in Record : owner[r] = Nothing}
        r   == IF call[c].record # NoRecord THEN call[c].record
               ELSE CHOOSE n \in new : \A m \in new : n <= m
    IN
    /\ call[c].at = "write"
    /\ call[c].record # NoRecord \/ new # {}
    /\ IF call[c].record # NoRecord /\ ~Live(r)
       THEN Ends(c) /\ UNCHANGED <<owner, data>>
       ELSE /\ owner' = [owner EXCEPT ![r] = call[c].key]
            /\ data' = [data EXCEPT ![r] = call[c].data]
            /\ GotoWith(c, "written", r)
    /\ UNCHANGED <<installed, memory, calm>>

\* All callers of set() ask for the cache.
Written(c) ==
    /\ call[c].at = "written"
    /\ index' = [index EXCEPT ![call[c].key] = call[c].record]
    /\ cache' = [cache EXCEPT ![call[c].record] = call[c].data]
    /\ Ends(c)
    /\ UNCHANGED <<node, ready, calm>>

-----------------------------------------------------------------------------
(* delete() *)

\* A record that is gone already is a 404, and the call throws.
Remove(c) ==
    LET r == call[c].record IN
    /\ call[c].at = "remove"
    /\ IF Live(r) THEN data' = [data EXCEPT ![r] = Nothing] /\ Goto(c, "removed")
       ELSE Ends(c) /\ UNCHANGED data
    /\ UNCHANGED <<owner, installed, memory, calm>>

\* Mutant: the index keeps the record.
RemovedIndexed(c) ==
    /\ call[c].at = "removed"
    /\ cache' = [cache EXCEPT ![call[c].record] = Nothing]
    /\ Ends(c)
    /\ UNCHANGED <<node, ready, index, calm>>

Removed(c) ==
    /\ call[c].at = "removed"
    /\ index' = [index EXCEPT ![call[c].key] = NoRecord]
    /\ cache' = [cache EXCEPT ![call[c].record] = Nothing]
    /\ Ends(c)
    /\ UNCHANGED <<node, ready, calm>>

-----------------------------------------------------------------------------
\* The node fails any call to it, or its answer is one that set(), get() and
\* delete() throw at.
NodeFails(c) ==
    /\ "nodeFails" \in Happens
    /\ call[c].at \in {"initialize", "install", "query", "read", "readEntry",
                       "write", "remove"}
    /\ call[c].at = "initialize" => TenantIn(c) \notin ready
    /\ Ends(c)
    /\ UNCHANGED <<node, memory, calm>>

\* Entries are dropped when their time is over or the cache is full.  An index
\* entry that has just been set outlives the next two turns of the event loop.
\* A restart also stands for the end of the 21 days of the entries of ready.
Expire ==
    /\ "expiry" \in Happens
    /\ \/ \E r \in Record : /\ cache[r] # Nothing
                            /\ cache' = [cache EXCEPT ![r] = Nothing]
                            /\ UNCHANGED index
       \/ \E k \in Key : /\ index[k] # NoRecord
                         /\ \A c \in Caller :
                               call[c].at = "indexed" => call[c].key # k
                         /\ index' = [index EXCEPT ![k] = NoRecord]
                         /\ UNCHANGED cache
    /\ UNCHANGED <<node, ready, call, calm>>

Restart ==
    /\ "restart" \in Happens
    /\ ready' = {}
    /\ index' = [k \in Key |-> NoRecord]
    /\ cache' = NoObjects
    /\ call' = [c \in Caller |-> Idle]
    /\ calm' = TRUE
    /\ UNCHANGED node

Begins(c) ==
    \E op \in Op, k \in Key, d \in Data \cup {Nothing}, useCache \in BOOLEAN :
        /\ op = "get" \/ useCache
        /\ op \in Sets <=> d # Nothing
        /\ op = "create" => \A r \in Record : owner[r] # k
        /\ Begin(c, op, k, d, useCache)

Next ==
    \/ \E c \in Caller :
          \/ Begins(c) \/ Initialize(c) \/ Install(c) \/ InstallConflict(c)
          \/ Lookup(c) \/ Query(c) \/ QueryRefused(c) \/ Rebuild(c) \/ Indexed(c)
          \/ Read(c) \/ Fill(c) \/ ReadEntry(c) \/ Write(c) \/ Written(c)
          \/ Remove(c) \/ Removed(c) \/ NodeFails(c)
    \/ Expire \/ Restart

Spec == Init /\ [][Next]_vars

-----------------------------------------------------------------------------
\* Safety: the index never leads to an object of another identifier or tenant,
\* whatever calls, expiries and rebuilds cross (store-data.ts lines 57-63).
IndexNames ==
    /\ TypeOK
    /\ \A k \in Key : index[k] # NoRecord => owner[index[k]] = k
    /\ \A c \in Caller :
          call[c].record # NoRecord => owner[call[c].record] = call[c].key

\* Safety: the node has the protocol before an object is written, although the
\* first calls of a tenant all find it missing (lines 202-229).
ProtocolFirst ==
    /\ ready \subseteq installed
    /\ \A c \in Caller :
          call[c].at \in {"write", "written"} => TenantIn(c) \in installed

\* Safety: calls that do not overlap find index and cache in agreement with
\* the node, but for the one that is about to bring them up to date.
Agreement ==
    calm =>
        /\ \A k \in Key :
              \/ index[k] = NoRecord \/ Live(index[k])
              \/ \E c \in Caller : /\ call[c].at = "removed"
                                   /\ call[c].record = index[k]
        /\ \A r \in Record :
              \/ cache[r] \in {Nothing, data[r]} \/ index[owner[r]] # r
              \/ \E c \in Caller : /\ call[c].at \in {"written", "removed"}
                                   /\ call[c].record = r

\* Safety: what a get() that has not been overlapped is about to answer, from
\* the cache or not, is what the node has under the identifier, and after a
\* query it finds nothing only if the node has nothing: excepted is a query
\* that the node refused, which is taken for an empty store (store-did.ts
\* lines 53-62).
ReadsCurrent ==
    \A c \in Caller :
        LET k == call[c].key  r == index[k] IN
        calm /\ call[c].op = "get" =>
            /\ call[c].at = "fill" => call[c].data = data[call[c].record]
            /\ call[c].at \in {"lookup", "indexed", "blank"} /\ r # NoRecord
                  /\ call[c].useCache => cache[r] \in {Nothing, data[r]}
            /\ call[c].at = "indexed" /\ r = NoRecord => LiveOf(k) = {}

\* Safety: both, of calls that do not overlap.
StaysCurrent == Agreement /\ ReadsCurrent

\* Action: calls that do not overlap, and imports that the node lets look for
\* duplicates, never give an identifier a second record, whatever expires or
\* fails between their steps; get() would see one of the two, and delete()
\* remove one (store-data.ts lines 152-170).
OneRecord ==
    [][calm => \A k \in Key :
                  LiveOf(k) # {} => LiveOf(k)' \subseteq LiveOf(k)]_vars
=============================================================================
