------------------------------ MODULE DidKeys --------------------------------
(***************************************************************************)
(* DIDs and the private keys behind them: AgentDidApi (did-api.ts) keeps a *)
(* record of every DID in one store, without its private keys, and the key *)
(* manager keeps the keys in another.  Create, import, update and delete   *)
(* touch both stores in many steps; here several calls take theirs in any  *)
(* order, and any of them may be refused by a store or by the gateway.     *)
(*                                                                         *)
(* A document is the set of the keys its verification methods name; the    *)
(* arrays of the code may list them in any order, so a loop over one takes *)
(* its keys in any order.  One set() or delete() of a store is one step    *)
(* (DwnDataStore.tla has its inner steps), and so is one look for a key.   *)
(***************************************************************************)

CONSTANTS
    Did,
    Key,
    KeysOf,      \* the keys documents of a DID may name
    Caller,
    Portable,    \* bound: the keys a portable DID may bring, as a set of sets
    MayFail      \* a store or the network may refuse a call

ASSUME DidKeysAssumption ==
    /\ Did # {}
    /\ KeysOf \in [Did -> SUBSET Key]
    /\ Portable \subseteq SUBSET Key
    /\ MayFail \in BOOLEAN

VARIABLES
    keystore,    \* the private keys LocalKeyManager has
    stored,      \* the DID store: the document of a DID, {} when it has none
    call,        \* the calls of AgentDidApi
    known,       \* keys that exist somewhere: a generated key is none of them
    exposed      \* history: keys some delete() was to delete while another
                 \* call, or another DID, used them

vars == <<keystore, stored, call, known, exposed>>

Steps == {"idle", "generate", "current", "look", "add", "verify", "store",
          "remove", "strike"}
Idle == [at |-> "idle", op |-> "get", did |-> CHOOSE d \in Did : TRUE,
         doc |-> {}, given |-> {}, todo |-> {}]

Call == [at : Steps, op : {"get", "create", "import", "update", "delete", "forget"},
         did : Did, doc : SUBSET Key, given : SUBSET Key, todo : SUBSET Key]

TypeOK ==
    /\ keystore \subseteq known /\ known \subseteq Key /\ exposed \subseteq known
    /\ stored \in [Did -> SUBSET known]
    /\ call \in [Caller -> Call]
    /\ \A c \in Caller :
           /\ call[c].doc \subseteq known
           /\ call[c].given \subseteq call[c].doc
           /\ call[c].todo \subseteq (IF call[c].at = "current" THEN known ELSE call[c].doc)
           /\ call[c].at = "add" => call[c].todo # {}
           /\ call[c].at = "generate" => call[c].todo \cap keystore = {}
           /\ call[c].at = "idle" => call[c] = Idle

Init ==
    /\ keystore = {}
    /\ stored = [d \in Did |-> {}]
    /\ call = [c \in Caller |-> Idle]
    /\ known = {}
    /\ exposed = {}

---------------------------------------------------------------------------
(* Calls *)

Busy(c) == call[c].at # "idle"
Deleting(c) == call[c].at \in {"remove", "strike"} /\ call[c].op = "delete"
KeysInUse(c) == call[c].doc \cup call[c].given

Goto(c, at, todo) == call' = [call EXCEPT ![c].at = at, ![c].todo = todo]
End(c) == call' = [call EXCEPT ![c] = Idle]

Begin(c, op, d, doc, given, at, todo) ==
    /\ ~Busy(c)
    /\ call' = [call EXCEPT ![c] = [at |-> at, op |-> op, did |-> d, doc |-> doc,
                                    given |-> given, todo |-> todo]]

\* Keys a call starts to use while a delete() is on its way to delete them.
ExposedBy(keys) ==
    exposed' = exposed \cup (keys \cap UNION {call[c].doc : c \in {b \in Caller : Deleting(b)}})

\* Nobody has the keys of a DID still being generated.
Revealed(keys) ==
    \A c \in Caller : call[c].at = "generate" => keys \cap call[c].doc = {}

\* create(): the DID method generates new keys, all of the document's.
BeginCreate(c, d) ==
    \E doc \in (SUBSET KeysOf[d]) \ {{}} :
        /\ doc \cap known = {}
        /\ stored[d] = {} /\ \A b \in Caller : Busy(b) => call[b].did # d
        /\ Begin(c, "create", d, doc, {}, "generate", doc)
        /\ known' = known \cup doc
        /\ UNCHANGED <<keystore, stored, exposed>>

\* import() of a portable DID, which brings some private keys.
BeginImport(c, d) ==
    \E doc \in (SUBSET KeysOf[d]) \ {{}}, given \in Portable :
        /\ given \subseteq doc /\ Revealed(doc)
        /\ Begin(c, "import", d, doc, given, "look", given)
        /\ known' = known \cup doc
        /\ ExposedBy(doc)
        /\ UNCHANGED <<keystore, stored>>

\* update(): reads the DID it replaces, get(), before it imports the new one.
BeginUpdate(c, d) ==
    \E doc \in (SUBSET KeysOf[d]) \ {{}}, given \in Portable :
        /\ stored[d] # {}
        /\ given \subseteq doc /\ Revealed(doc)
        /\ Begin(c, "update", d, doc, given, "current", stored[d])
        /\ known' = known \cup doc
        /\ ExposedBy(doc \cup stored[d])
        /\ UNCHANGED <<keystore, stored>>

\* delete(): the record is read past the cache; deleteKey may be false.
BeginDelete(c, d) ==
    \E withKeys \in BOOLEAN :
        /\ stored[d] # {}
        /\ Begin(c, IF withKeys THEN "delete" ELSE "forget", d, stored[d], {}, "remove", {})
        /\ exposed' =
               IF withKeys
               THEN exposed \cup
                    (stored[d] \cap ((UNION {stored[e] : e \in Did \ {d}}) \cup
                                     (UNION {KeysInUse(b) : b \in Caller \ {c}})))
               ELSE exposed
        /\ UNCHANGED <<keystore, stored, known>>

---------------------------------------------------------------------------
(* LocalKeyManager and the DID methods *)

\* generateKey(): a new key is written without a look for a duplicate.
Generate(c) ==
    /\ call[c].at = "generate"
    /\ \E k \in call[c].todo :
           /\ keystore' = keystore \cup {k}
           /\ IF call[c].todo = {k} THEN Goto(c, "store", {})
                                    ELSE Goto(c, "generate", call[c].todo \ {k})
    /\ UNCHANGED <<stored, known, exposed>>

\* Mutant: the keys of the document are not verified.
LookUnverified(c) ==
    /\ call[c].at = "look"
    /\ IF call[c].todo = {}
       THEN Goto(c, "store", {})
       ELSE \E k \in call[c].todo :
                IF k \in keystore THEN Goto(c, "look", call[c].todo \ {k})
                                  ELSE Goto(c, "add", call[c].todo)
    /\ UNCHANGED <<keystore, stored, known, exposed>>

\* BearerDid.import(): every key that came along is looked up first.
Look(c) ==
    /\ call[c].at = "look"
    /\ IF call[c].todo = {}
       THEN Goto(c, "verify", call[c].doc)
       ELSE \E k \in call[c].todo :
                IF k \in keystore THEN Goto(c, "look", call[c].todo \ {k})
                                  ELSE Goto(c, "add", call[c].todo)
    /\ UNCHANGED <<keystore, stored, known, exposed>>

\* importKey(): refuses a key that has arrived since; the import then throws.
Add(c) ==
    /\ call[c].at = "add"
    /\ \E k \in call[c].todo :
           IF k \in keystore
           THEN End(c) /\ UNCHANGED keystore
           ELSE /\ keystore' = keystore \cup {k}
                /\ Goto(c, "look", call[c].todo \ {k})
    /\ UNCHANGED <<stored, known, exposed>>

\* Every key a document names must be there, or the call throws; update() does
\* this for the document it replaces, then for the one it brings.
Verify(c) ==
    /\ call[c].at \in {"current", "verify"}
    /\ \/ \E k \in call[c].todo :
              IF k \in keystore THEN Goto(c, call[c].at, call[c].todo \ {k}) ELSE End(c)
       \/ /\ call[c].todo = {}
          /\ IF call[c].at = "current" THEN Goto(c, "look", call[c].given)
                                       ELSE Goto(c, "store", {})
    /\ UNCHANGED <<keystore, stored, known, exposed>>

---------------------------------------------------------------------------
(* The DID store *)

\* What set() does with a record there is, or with none (store-data.ts).
Accepts(op, doc) ==
    \/ op = "create"
    \/ op = "import" /\ doc = {}
    \/ op = "update" /\ doc # {}

Store(c) ==
    /\ call[c].at = "store"
    /\ LET d == call[c].did IN
       stored' = IF Accepts(call[c].op, stored[d])
                 THEN [stored EXCEPT ![d] = call[c].doc] ELSE stored
    /\ End(c)
    /\ UNCHANGED <<keystore, known, exposed>>

\* A record that is gone by now does not stop delete().
RemoveRecord(c) ==
    /\ call[c].at = "remove"
    /\ stored' = [stored EXCEPT ![call[c].did] = {}]
    /\ IF call[c].op = "delete" THEN Goto(c, "strike", call[c].doc) ELSE End(c)
    /\ UNCHANGED <<keystore, known, exposed>>

\* Mutant: deleteKeys() returns from its loop after the first key.
StrikeFirst(c) ==
    /\ call[c].at = "strike"
    /\ \E k \in call[c].todo : keystore' = keystore \ {k}
    /\ End(c)
    /\ UNCHANGED <<stored, known, exposed>>

\* deleteKeys(): a key that is not there ends the loop with an error.
Strike(c) ==
    /\ call[c].at = "strike"
    /\ \E k \in call[c].todo :
           /\ keystore' = keystore \ {k}
           /\ IF k \notin keystore \/ call[c].todo = {k}
              THEN End(c) ELSE Goto(c, "strike", call[c].todo \ {k})
    /\ UNCHANGED <<stored, known, exposed>>

\* The store refuses, or the DID cannot be published: the call throws.
Throws(c) ==
    /\ MayFail
    /\ call[c].at \in {"generate", "add", "store", "remove", "strike"}
    /\ End(c)
    /\ UNCHANGED <<keystore, stored, known, exposed>>

Next ==
    \E c \in Caller :
        \/ \E d \in Did : BeginCreate(c, d) \/ BeginImport(c, d)
                          \/ BeginUpdate(c, d) \/ BeginDelete(c, d)
        \/ Generate(c) \/ Look(c) \/ Add(c) \/ Verify(c)
        \/ Store(c) \/ RemoveRecord(c) \/ Strike(c) \/ Throws(c)

Spec == Init /\ [][Next]_vars

---------------------------------------------------------------------------
(* Properties *)

\* A DID the store has can sign: each of its private keys is in the key store,
\* at every moment of every call, whatever throws in between.  The exception is
\* a key that a delete() with deleteKey was to delete while another DID named
\* it or another call used it (did-api.ts 343-377, bearer-did.ts 239-286).
Signable == \A d \in Did : stored[d] \subseteq keystore \cup exposed

\* When delete() has worked through the keys, none of them is left, but for
\* keys another call used meanwhile.
DeletedForGood ==
    [][\A c \in Caller :
           call[c].at = "strike" /\ call'[c].at = "idle" /\ keystore' # keystore
               => call[c].doc \cap keystore' \subseteq exposed']_vars

=============================================================================
