-------------------------- MODULE DidResolverCache --------------------------
(***************************************************************************)
(* Resolution of DIDs by the agent: AgentDidApi with its store, the        *)
(* UniversalResolver it extends and the AgentDidResolverCache below it     *)
(* (did-api.ts, universal-resolver.ts, agent-did-resolver-cache.ts).       *)
(*                                                                         *)
(* A DID's documents are numbered in the order they were made; 0 is none.  *)
(* A DID has copies in the cache, on the network and, when the agent       *)
(* manages it, in a record of the agent's store: set() and delete() look   *)
(* the record up and write it a step later, so two imports may both make   *)
(* one, and a record that is deleted in between can no longer be written.  *)
(* (The store's own index and cache are in DwnDataStore; here a lookup     *)
(* finds what the node has.)  A caller's operation is a sequence of steps, *)
(* one per await, and the steps of several callers interleave.  An answer  *)
(* served from the cache changes no state and is not a step.               *)
(***************************************************************************)
EXTENDS Integers

CONSTANTS
    Did,
    Caller,    \* calls in progress at once
    MaxDoc,    \* bound: documents made of one DID
    MaxRecord, \* bound: records of one DID that there are, or calls know of
    Happens    \* which of the outside events below may occur

ASSUME CacheAssumption ==
    /\ MaxDoc \in Nat \ {0} /\ MaxRecord \in Nat \ {0}
    /\ Happens \subseteq
          {"unreachable", "lookupFails", "updateFails", "storeFails", "crash",
           "elsewhere", "import", "update", "delete"}

Doc     == 1..MaxDoc
NoDoc   == 0
Entry   == [doc : Doc, fresh : BOOLEAN]
NoEntry == [doc |-> NoDoc, fresh |-> FALSE]
Record   == 1..MaxRecord
NoRecord == 0

\* All steps; those that hold a document, and a record they have looked up.
Step == {"idle", "ask", "cacheResult", "lookup", "unmanaged", "resolveAgain",
         "compare", "updateCache", "updateStore", "updateWrite", "publish",
         "createCache", "createStore", "importCache", "importStore",
         "importWrite", "deleteCache", "deleteStore", "deleteWrite"}
WithDoc == Step \ {"idle", "ask", "lookup", "unmanaged", "resolveAgain",
                    "deleteCache", "deleteStore", "deleteWrite"}
WithRecord == {"updateWrite", "deleteWrite"}

\* refreshing: the call is the background refresh of get(), which has put its
\* DID into _resolving.  doc: the document the call works with.
Call == {r \in [at : Step, did : Did, doc : Doc \cup {NoDoc},
                refreshing : BOOLEAN, record : Record \cup {NoRecord}] :
            /\ r.at \in WithDoc => r.doc # NoDoc
            /\ r.at \in WithRecord => r.record # NoRecord}

VARIABLES
    entry,      \* AgentDidResolverCache.cache; fresh: ttlMillis is ahead
    stored,     \* the records of AgentDidApi._store with the agent's tenant
    published,  \* what the DID method's resolver finds
    latest,     \* the last document made of each DID, by whomever
    resolving,  \* AgentDidResolverCache._resolving
    evicting,   \* deletions scheduled with nextTick
    call,       \* what every caller is in the middle of
    threw,      \* history: the DIDs that LookupFails has left marked
    givenUp     \* history: the DIDs whose entry a delete() has removed, or a
                \* refresh that found no record is about to

copies == <<entry, stored, published>>
vars == <<entry, stored, published, latest, resolving, evicting, call, threw,
          givenUp>>

TypeOK ==
    /\ entry \in [Did -> Entry \cup {NoEntry}]
    /\ stored \in [Did -> [Record -> Doc \cup {NoDoc}]]
    /\ published \in [Did -> Doc \cup {NoDoc}]
    /\ latest \in [Did -> Doc \cup {NoDoc}]
    /\ resolving \subseteq Did
    /\ evicting \subseteq Did
    /\ call \in [Caller -> Call]
    /\ threw \subseteq Did
    /\ givenUp \subseteq Did

At(step, d, doc, r) == [at |-> step, did |-> d, doc |-> doc, refreshing |-> r,
                        record |-> NoRecord]
Idle(d) == At("idle", d, NoDoc, FALSE)

Init ==
    /\ entry = [d \in Did |-> NoEntry]
    /\ stored = [d \in Did |-> [r \in Record |-> NoDoc]]
    /\ published = [d \in Did |-> NoDoc]
    /\ latest = [d \in Did |-> NoDoc]
    /\ resolving = {}
    /\ evicting = {}
    /\ call \in {[c \in Caller |-> Idle(d)] : d \in Did}
    /\ threw = {}
    /\ givenUp = {}

-----------------------------------------------------------------------------
\* The documents the store has of a DID, which is managed if there are any.
Documents(d) == {stored[d][r] : r \in Record} \ {NoDoc}
Managed(d) == Documents(d) # {}

\* An entry that is put back may still have an eviction ahead.
ToBeEvicted(d) ==
    d \in evicting \/ \E c \in Caller : call[c].at = "unmanaged" /\ call[c].did = d
Put(d, doc) ==
    /\ entry' = [entry EXCEPT ![d] = [doc |-> doc, fresh |-> TRUE]]
    /\ givenUp' = IF ToBeEvicted(d) THEN givenUp ELSE givenUp \ {d}

Goto(c, step) == call' = [call EXCEPT ![c].at = step]

\* The call returns or throws; a refresh runs its finally block.
Ends(c) ==
    /\ call' = [call EXCEPT ![c] = Idle(call[c].did)]
    /\ resolving' = IF call[c].refreshing THEN resolving \ {call[c].did}
                    ELSE resolving

\* The time to live of an entry is over.
Expire(d) ==
    /\ entry[d].fresh
    /\ entry' = [entry EXCEPT ![d].fresh = FALSE]
    /\ UNCHANGED <<stored, published, latest, resolving, evicting, call,
                   threw, givenUp>>

\* The deletion a get() has scheduled.
Evict(d) ==
    /\ d \in evicting
    /\ entry' = [entry EXCEPT ![d] = NoEntry]
    /\ evicting' = evicting \ {d}
    /\ UNCHANGED <<stored, published, latest, resolving, call, threw, givenUp>>

-----------------------------------------------------------------------------
(* resolve() and get() *)

\* Mutant: the DID is marked only once the store has answered.
ResolveUnmarked(c, d) ==
    /\ call[c].at = "idle"
    /\ \/ /\ entry[d] = NoEntry
          /\ call' = [call EXCEPT ![c] = At("ask", d, NoDoc, FALSE)]
       \/ /\ entry[d] # NoEntry /\ ~entry[d].fresh /\ d \notin resolving
          /\ call' = [call EXCEPT ![c] = At("lookup", d, NoDoc, TRUE)]
    /\ UNCHANGED <<copies, latest, resolving, evicting, threw, givenUp>>

\* A miss goes on to the DID method; an expired entry that nobody refreshes
\* is refreshed first, and then the old value is the answer.
Resolve(c, d) ==
    /\ call[c].at = "idle"
    /\ \/ /\ entry[d] = NoEntry
          /\ call' = [call EXCEPT ![c] = At("ask", d, NoDoc, FALSE)]
          /\ UNCHANGED resolving
       \/ /\ entry[d] # NoEntry /\ ~entry[d].fresh /\ d \notin resolving
          /\ resolving' = resolving \cup {d}
          /\ call' = [call EXCEPT ![c] = At("lookup", d, NoDoc, TRUE)]
    /\ UNCHANGED <<copies, latest, evicting, threw, givenUp>>

\* The DID method resolves the DID on the network.
Answered(c) ==
    LET d == call[c].did IN
    /\ call[c].at = "ask"
    /\ published[d] # NoDoc
    /\ call' = [call EXCEPT ![c] =
                   At("cacheResult", d, published[d], call[c].refreshing)]
    /\ UNCHANGED <<copies, latest, resolving, evicting, threw, givenUp>>

\* The result is an error, which is not cached; a refresh does not update.
Unanswered(c) ==
    /\ call[c].at = "ask"
    /\ "unreachable" \in Happens \/ published[call[c].did] = NoDoc
    /\ Ends(c)
    /\ UNCHANGED <<copies, latest, evicting, threw, givenUp>>

CacheResult(c) ==
    /\ call[c].at = "cacheResult"
    /\ Put(call[c].did, call[c].doc)
    /\ IF call[c].refreshing THEN Goto(c, "compare") /\ UNCHANGED resolving
       ELSE Ends(c)
    /\ UNCHANGED <<stored, published, latest, evicting, threw>>

\* Mutant: an expired entry is evicted whoever manages the DID, as in
\* DidResolverCacheLevel.
LookupEvicts(c) ==
    LET d == call[c].did IN
    /\ call[c].at = "lookup"
    /\ evicting' = evicting \cup {d}
    /\ Ends(c)
    /\ UNCHANGED <<copies, latest, threw, givenUp>>

\* agent.did.get: does the agent manage the DID?
Lookup(c) ==
    LET d == call[c].did IN
    /\ call[c].at = "lookup"
    /\ IF Managed(d) THEN Goto(c, "resolveAgain") /\ UNCHANGED givenUp
       ELSE Goto(c, "unmanaged") /\ givenUp' = givenUp \cup {d}
    /\ UNCHANGED <<copies, latest, resolving, evicting, threw>>

\* Mutant: an unmanaged DID stays marked.
UnmanagedKeepsMark(c) ==
    /\ call[c].at = "unmanaged"
    /\ evicting' = evicting \cup {call[c].did}
    /\ call' = [call EXCEPT ![c] = Idle(call[c].did)]
    /\ UNCHANGED <<copies, latest, resolving, threw, givenUp>>

\* It does not, or did not when it was asked: the DID is evicted, even if an
\* import() has brought it since.
Unmanaged(c) ==
    /\ call[c].at = "unmanaged"
    /\ evicting' = evicting \cup {call[c].did}
    /\ Ends(c)
    /\ UNCHANGED <<copies, latest, threw, givenUp>>

\* agent.did.get throws outside the try block: the DID stays in _resolving.
LookupFails(c) ==
    /\ "lookupFails" \in Happens
    /\ call[c].at = "lookup"
    /\ call' = [call EXCEPT ![c] = Idle(call[c].did)]
    /\ threw' = threw \cup {call[c].did}
    /\ UNCHANGED <<copies, latest, resolving, evicting, givenUp>>

\* agent.did.resolve, called by the refresh, begins with a get() from the same
\* cache, which finds the DID in _resolving and answers with the entry.
ResolveAgain(c) ==
    LET d == call[c].did IN
    /\ call[c].at = "resolveAgain"
    /\ IF entry[d] = NoEntry THEN Goto(c, "ask")
       ELSE call' = [call EXCEPT ![c] = At("compare", d, entry[d].doc, TRUE)]
    /\ UNCHANGED <<copies, latest, resolving, evicting, threw, givenUp>>

-----------------------------------------------------------------------------
(* update(), called by the application or by a refresh *)

Update(c, d) ==
    /\ "update" \in Happens
    /\ call[c].at = "idle"
    /\ latest[d] \in 1..(MaxDoc - 1)
    /\ latest' = [latest EXCEPT ![d] = @ + 1]
    /\ call' = [call EXCEPT ![c] = At("compare", d, latest[d] + 1, FALSE)]
    /\ UNCHANGED <<copies, resolving, evicting, threw, givenUp>>

\* Not found, no changes detected, or keys that cannot be imported: it throws.
UpdateAborts(c) ==
    LET d == call[c].did IN
    /\ call[c].at = "compare"
    /\ \/ ~Managed(d) \/ call[c].doc \in Documents(d)
       \/ "updateFails" \in Happens
    /\ Ends(c)
    /\ UNCHANGED <<copies, latest, evicting, threw, givenUp>>

UpdateProceeds(c) ==
    /\ call[c].at = "compare"
    /\ \E doc \in Documents(call[c].did) : doc # call[c].doc
    /\ Goto(c, "updateCache")
    /\ UNCHANGED <<copies, latest, resolving, evicting, threw, givenUp>>

UpdateCache(c) ==
    /\ call[c].at = "updateCache"
    /\ Put(call[c].did, call[c].doc)
    /\ Goto(c, "updateStore")
    /\ UNCHANGED <<stored, published, latest, resolving, evicting, threw>>

\* After the store, update() publishes, unless the refresh has called it.
AfterUpdate(c) ==
    IF call[c].refreshing THEN Ends(c)
    ELSE Goto(c, "publish") /\ UNCHANGED resolving

\* The store looks for a record of the DID (set() and delete()).
Find(c, step) ==
    \E r \in Record :
        /\ stored[call[c].did][r] # NoDoc
        /\ call' = [call EXCEPT ![c].at = step, ![c].record = r]

UpdateStore(c) ==
    /\ call[c].at = "updateStore"
    /\ Find(c, "updateWrite")
    /\ UNCHANGED <<copies, latest, resolving, evicting, threw, givenUp>>

\* The node takes the update of a record that has not been deleted.
UpdateWrite(c) ==
    LET d == call[c].did IN
    /\ call[c].at = "updateWrite"
    /\ stored[d][call[c].record] # NoDoc
    /\ stored' = [stored EXCEPT ![d][call[c].record] = call[c].doc]
    /\ AfterUpdate(c)
    /\ UNCHANGED <<entry, published, latest, evicting, threw, givenUp>>

Publish(c) ==
    /\ call[c].at = "publish"
    /\ \/ published' = [published EXCEPT ![call[c].did] = call[c].doc]
       \/ "unreachable" \in Happens /\ UNCHANGED published
    /\ Ends(c)
    /\ UNCHANGED <<entry, stored, latest, evicting, threw, givenUp>>

-----------------------------------------------------------------------------
(* create(), import(), delete() *)

\* The DID method makes and publishes the first document.  With store: false
\* the document is only cached.
Create(c, d, store) ==
    /\ call[c].at = "idle"
    /\ latest[d] = NoDoc
    /\ latest' = [latest EXCEPT ![d] = 1]
    /\ published' = [published EXCEPT ![d] = 1]
    /\ LET next == IF store THEN "createCache" ELSE "cacheResult"
       IN  call' = [call EXCEPT ![c] = At(next, d, 1, FALSE)]
    /\ UNCHANGED <<entry, stored, resolving, evicting, threw, givenUp>>

\* A portable DID holds some document that was once the DID's.
Import(c, d, doc) ==
    /\ "import" \in Happens
    /\ call[c].at = "idle"
    /\ doc \in 1..latest[d]
    /\ call' = [call EXCEPT ![c] = At("importCache", d, doc, FALSE)]
    /\ UNCHANGED <<copies, latest, resolving, evicting, threw, givenUp>>

\* The cache comes first, before the store can refuse.
CacheNew(c) ==
    /\ call[c].at \in {"createCache", "importCache"}
    /\ Put(call[c].did, call[c].doc)
    /\ Goto(c, IF call[c].at = "createCache" THEN "createStore"
               ELSE "importStore")
    /\ UNCHANGED <<stored, published, latest, resolving, evicting, threw>>

\* import() looks for a duplicate first; create() does not.
ImportStore(c) ==
    /\ call[c].at = "importStore"
    /\ ~Managed(call[c].did)
    /\ Goto(c, "importWrite")
    /\ UNCHANGED <<copies, latest, resolving, evicting, threw, givenUp>>

\* The record is a new one.
StoreNew(c) ==
    LET d == call[c].did IN
    /\ call[c].at \in {"createStore", "importWrite"}
    /\ \E r \in Record :
          /\ stored[d][r] = NoDoc
          /\ \A b \in Caller : call[b].did = d => call[b].record # r
          /\ stored' = [stored EXCEPT ![d][r] = call[c].doc]
    /\ Ends(c)
    /\ UNCHANGED <<entry, published, latest, evicting, threw, givenUp>>

Delete(c, d) ==
    /\ "delete" \in Happens
    /\ call[c].at = "idle"
    /\ Managed(d)
    /\ call' = [call EXCEPT ![c] = At("deleteCache", d, NoDoc, FALSE)]
    /\ UNCHANGED <<copies, latest, resolving, evicting, threw, givenUp>>

DeleteCache(c) ==
    LET d == call[c].did IN
    /\ call[c].at = "deleteCache"
    /\ entry' = [entry EXCEPT ![d] = NoEntry]
    /\ givenUp' = givenUp \cup {d}
    /\ Goto(c, "deleteStore")
    /\ UNCHANGED <<stored, published, latest, resolving, evicting, threw>>

\* What is no longer there is not deleted, and that is no error.
DeleteStore(c) ==
    /\ call[c].at = "deleteStore"
    /\ \/ Find(c, "deleteWrite") /\ UNCHANGED resolving
       \/ ~Managed(call[c].did) /\ Ends(c)
    /\ UNCHANGED <<copies, latest, evicting, threw, givenUp>>

DeleteWrite(c) ==
    /\ call[c].at = "deleteWrite"
    /\ stored' = [stored EXCEPT ![call[c].did][call[c].record] = NoDoc]
    /\ Ends(c)
    /\ UNCHANGED <<entry, published, latest, evicting, threw, givenUp>>

\* The store refuses an update of what is not there and an import of what is,
\* and its node what was deleted in the meantime; the node may fail, too.
\* What has been done to the cache stays done.
StoreFails(c) ==
    LET d == call[c].did IN
    /\ \/ call[c].at = "updateStore" /\ ~Managed(d)
       \/ call[c].at = "importStore" /\ Managed(d)
       \/ call[c].at = "updateWrite" /\ stored[d][call[c].record] = NoDoc
       \/ /\ "storeFails" \in Happens
          /\ call[c].at \in {"updateStore", "createStore", "importStore",
                             "deleteStore", "importWrite"} \cup WithRecord
    /\ Ends(c)
    /\ UNCHANGED <<copies, latest, evicting, threw, givenUp>>

-----------------------------------------------------------------------------
\* Another device of the owner publishes a new document.
PublishElsewhere(d) ==
    /\ "elsewhere" \in Happens
    /\ latest[d] < MaxDoc
    /\ latest' = [latest EXCEPT ![d] = @ + 1]
    /\ published' = [published EXCEPT ![d] = latest[d] + 1]
    /\ UNCHANGED <<entry, stored, resolving, evicting, call, threw, givenUp>>

\* The process restarts: what is on disk stays.
Crash ==
    /\ "crash" \in Happens
    /\ resolving' = {}
    /\ evicting' = {}
    /\ call' = [c \in Caller |-> Idle(call[c].did)]
    /\ threw' = {}
    /\ UNCHANGED <<copies, latest, givenUp>>

Begins(c) ==
    \E d \in Did :
        \/ Resolve(c, d) \/ Update(c, d) \/ Delete(c, d)
        \/ \E store \in BOOLEAN : Create(c, d, store)
        \/ \E doc \in Doc : Import(c, d, doc)

Continues(c) ==
    \/ Answered(c) \/ Unanswered(c) \/ CacheResult(c)
    \/ Lookup(c) \/ LookupFails(c) \/ Unmanaged(c) \/ ResolveAgain(c)
    \/ UpdateAborts(c) \/ UpdateProceeds(c) \/ UpdateCache(c)
    \/ UpdateStore(c) \/ UpdateWrite(c) \/ Publish(c)
    \/ CacheNew(c) \/ ImportStore(c) \/ StoreNew(c)
    \/ DeleteCache(c) \/ DeleteStore(c) \/ DeleteWrite(c) \/ StoreFails(c)

Next ==
    \/ \E c \in Caller : Begins(c) \/ Continues(c)
    \/ \E d \in Did : Expire(d) \/ Evict(d) \/ PublishElsewhere(d)
    \/ Crash

Spec == Init /\ [][Next]_vars

\* Calls go on and time passes; every DID is resolved again and again (each
\* message to a DID or signed by it does so), a network that is asked again
\* and again answers, and the process is not restarted for ever.
Fairness ==
    /\ \A c \in Caller : WF_vars(Continues(c))
    /\ \A d \in Did : /\ WF_vars(Expire(d)) /\ WF_vars(Evict(d))
                      /\ SF_vars(\E c \in Caller : Resolve(c, d))
                      /\ SF_vars(\E c \in Caller :
                                    call[c].did = d /\ Answered(c))
    /\ <>[][~Crash]_vars

FairSpec == Spec /\ Fairness

-----------------------------------------------------------------------------
(* What resolution promises *)

Refreshing(c, d) == call[c].refreshing /\ call[c].did = d

\* Safety: a DID is refreshed by at most one call at a time, and it is in
\* _resolving while it is (test at agent-did-resolver-cach.spec.ts lines
\* 36-51), and afterwards only if the lookup threw.
OneRefresh ==
    \A d \in Did :
        /\ \A b, c \in Caller : Refreshing(b, d) /\ Refreshing(c, d) => b = c
        /\ \A c \in Caller : Refreshing(c, d) => d \in resolving
        /\ d \in resolving => d \in threw \/ \E c \in Caller : Refreshing(c, d)

\* Safety: why OneRefresh is inductive.  The steps before the nested resolve
\* are a refresh's only, and a caller that is idle refreshes nothing.
RefreshSteps ==
    \A c \in Caller :
        /\ call[c].at \in {"lookup", "resolveAgain"} => call[c].refreshing
        /\ call[c].at = "idle" => ~call[c].refreshing

\* Safety: a DID that the agent manages can be resolved from the cache, fresh
\* or stale (comment at lines 7-8): create() and import() cache it before they
\* store it, and no refresh evicts it.  Excepted are the DIDs that a delete()
\* has taken from the cache, whether or not it then failed in the store, and
\* those that an import() brought while an eviction was decided.
ManagedCached ==
    \A d \in Did : Managed(d) => entry[d] # NoEntry \/ d \in givenUp

\* Safety: why ManagedCached is inductive.  What is to be evicted is given up,
\* and what is about to be stored has been cached.
EvictionExcused ==
    /\ \A d \in Did : ToBeEvicted(d) => d \in givenUp
    /\ \A c \in Caller :
          call[c].at \in {"createStore", "importStore", "importWrite"} =>
              \/ entry[call[c].did] # NoEntry
              \/ call[c].did \in givenUp

\* Liveness: an expired entry of a DID that the agent does not manage is in
\* the end replaced or evicted, unless a lookup of it has thrown.
UnmanagedForgotten ==
    \A d \in Did :
        entry[d] # NoEntry /\ ~entry[d].fresh /\ ~Managed(d)
            ~> \/ entry[d] = NoEntry \/ entry[d].fresh
               \/ Managed(d) \/ d \in threw
=============================================================================
