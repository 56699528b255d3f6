--------------------------- MODULE DidKeysProofs -----------------------------
(***************************************************************************)
(* What DidKeys.tla promises of two stores that several calls write, for   *)
(* any DIDs, keys and callers.  Signable is not inductive: it takes what   *)
(* each call has in hand between its steps.  A call that will store a      *)
(* document has found its keys (Present); a key some delete() will take    *)
(* away is in nobody's document unless it was exposed (Guarded); nobody    *)
(* has the keys of a DID being generated (Fresh).                          *)
(*                                                                         *)
(* Then what MCDids.tla samples: that a key keeps its algorithm in any     *)
(* life (KeyAlgorithms.tla); that a credential, its claims, a status list  *)
(* and a presentation are verified as they were made (Credentials.tla),    *)
(* for any of them and at any time; and that a JWE and the messages of     *)
(* WalletConnect open for whom they were made for only (Jwe.tla,           *)
(* Oidc.tla), in symbolic cryptography.                                    *)
(***************************************************************************)
EXTENDS MCDids, TLAPS

Storing(c) == call[c].at \in {"generate", "current", "look", "add", "verify", "store"}

Ops == \A c \in Caller :
    /\ call[c].at = "remove" => call[c].op \in {"delete", "forget"}
    /\ call[c].at = "strike" => call[c].op = "delete"

Fresh == \A c \in Caller : call[c].at = "generate" =>
    /\ \A b \in Caller \ {c} : call[b].doc \cap call[c].doc = {}
    /\ \A d \in Did : stored[d] \cap call[c].doc = {}

Guarded == \A c \in Caller : Deleting(c) =>
    /\ \A d \in Did : d # call[c].did \/ call[c].at = "strike"
                          => stored[d] \cap call[c].doc \subseteq exposed
    /\ \A b \in Caller : Storing(b) => call[b].doc \cap call[c].doc \subseteq exposed

Present == \A c \in Caller :
    /\ call[c].at = "store" => call[c].doc \subseteq keystore \cup exposed
    /\ call[c].at \in {"generate", "verify"} =>
           call[c].doc \ call[c].todo \subseteq keystore \cup exposed

Struck == \A c \in Caller : call[c].at = "strike" =>
    (call[c].doc \ call[c].todo) \cap keystore \subseteq exposed

IInv == TypeOK /\ Signable /\ Ops /\ Fresh /\ Guarded /\ Present /\ Struck

-----------------------------------------------------------------------------
(* What the steps do to the record of a call *)

LEMMA IdleCall == Idle \in Call
<1>1. \E x \in Did : TRUE
  BY DidKeysAssumption
<1>2. (CHOOSE d \in Did : TRUE) \in Did
  BY <1>1
<1> QED
  BY <1>2 DEF Idle, Call, Steps

\* Goto changes where a call is and what is left to do, nothing else.
LEMMA Moves ==
    ASSUME TypeOK, NEW c \in Caller, NEW at \in Steps, NEW todo \in SUBSET Key,
           Goto(c, at, todo)
    PROVE  /\ call' \in [Caller -> Call]
           /\ \A b \in Caller \ {c} : call'[b] = call[b]
           /\ call'[c].at = at /\ call'[c].todo = todo
           /\ call'[c].op = call[c].op /\ call'[c].did = call[c].did
           /\ call'[c].doc = call[c].doc /\ call'[c].given = call[c].given
<1>1. call[c] \in Call /\ call \in [Caller -> Call]
  BY DEF TypeOK
<1>2. [call[c] EXCEPT !.at = at, !.todo = todo] \in Call
  BY <1>1 DEF Call
<1>3. call' = [call EXCEPT ![c] = [call[c] EXCEPT !.at = at, !.todo = todo]]
  BY <1>1 DEF Goto
<1> QED
  BY <1>1, <1>2, <1>3 DEF Call

\* End leaves a call idle.
LEMMA Finishes ==
    ASSUME TypeOK, NEW c \in Caller, End(c)
    PROVE  /\ call' \in [Caller -> Call]
           /\ \A b \in Caller \ {c} : call'[b] = call[b]
           /\ call'[c] = Idle
           /\ call'[c].at = "idle" /\ call'[c].op = "get"
           /\ call'[c].doc = {} /\ call'[c].given = {} /\ call'[c].todo = {}
<1>1. call \in [Caller -> Call]
  BY DEF TypeOK
<1> QED
  BY <1>1, IdleCall DEF End, Idle

\* Begin fills the record of an idle call.
LEMMA Begins ==
    ASSUME TypeOK, NEW c \in Caller, NEW d \in Did, NEW at \in Steps,
           NEW op \in {"get", "create", "import", "update", "delete", "forget"},
           NEW doc \in SUBSET Key, NEW given \in SUBSET Key, NEW todo \in SUBSET Key,
           Begin(c, op, d, doc, given, at, todo)
    PROVE  /\ call' \in [Caller -> Call]
           /\ \A b \in Caller \ {c} : call'[b] = call[b]
           /\ call[c].at = "idle"
           /\ call'[c].at = at /\ call'[c].todo = todo
           /\ call'[c].op = op /\ call'[c].did = d
           /\ call'[c].doc = doc /\ call'[c].given = given
<1>1. call \in [Caller -> Call]
  BY DEF TypeOK
<1>2. [at |-> at, op |-> op, did |-> d, doc |-> doc, given |-> given, todo |-> todo] \in Call
  BY DEF Call
<1> QED
  BY <1>1, <1>2 DEF Begin, Busy

-----------------------------------------------------------------------------
(* Each action preserves the invariant *)

LEMMA CreateStep ==
    ASSUME IInv, NEW c \in Caller, NEW d \in Did, BeginCreate(c, d)
    PROVE  IInv'
<1>1. PICK doc \in (SUBSET KeysOf[d]) \ {{}} :
        /\ doc \cap known = {}
        /\ Begin(c, "create", d, doc, {}, "generate", doc)
        /\ known' = known \cup doc
        /\ UNCHANGED <<keystore, stored, exposed>>
  BY DEF BeginCreate
<1>2. doc \in SUBSET Key /\ {} \in SUBSET Key
  BY DidKeysAssumption
<1>3. TypeOK /\ "generate" \in Steps
  BY DEF IInv, Steps
<1>4. /\ call' \in [Caller -> Call]
      /\ \A b \in Caller \ {c} : call'[b] = call[b]
      /\ call'[c].at = "generate" /\ call'[c].todo = doc
      /\ call'[c].op = "create" /\ call'[c].did = d
      /\ call'[c].doc = doc /\ call'[c].given = {}
  BY <1>1, <1>2, <1>3, Begins
<1>5. TypeOK'
  BY <1>1, <1>2, <1>3, <1>4 DEF TypeOK
<1>6. Signable' /\ Ops' /\ Struck'
  BY <1>1, <1>4 DEF IInv, Signable, Ops, Struck
<1>7. Fresh'
  BY <1>1, <1>3, <1>4 DEF IInv, Fresh, TypeOK
<1>8. Guarded'
  BY <1>1, <1>3, <1>4 DEF IInv, Guarded, Deleting, Storing, TypeOK
<1>9. Present'
  BY <1>1, <1>4 DEF IInv, Present
<1> QED
  BY <1>5, <1>6, <1>7, <1>8, <1>9 DEF IInv

LEMMA ImportStep ==
    ASSUME IInv, NEW c \in Caller, NEW d \in Did, BeginImport(c, d)
    PROVE  IInv'
<1>1. PICK doc \in (SUBSET KeysOf[d]) \ {{}}, given \in Portable :
        /\ given \subseteq doc /\ Revealed(doc)
        /\ Begin(c, "import", d, doc, given, "look", given)
        /\ known' = known \cup doc
        /\ ExposedBy(doc)
        /\ UNCHANGED <<keystore, stored>>
  BY DEF BeginImport
<1>2. doc \in SUBSET Key /\ given \in SUBSET Key
  BY DidKeysAssumption
<1>3. TypeOK /\ "look" \in Steps
  BY DEF IInv, Steps
<1>4. /\ call' \in [Caller -> Call]
      /\ \A b \in Caller \ {c} : call'[b] = call[b]
      /\ call[c].at = "idle"
      /\ call'[c].at = "look" /\ call'[c].todo = given
      /\ call'[c].op = "import" /\ call'[c].did = d
      /\ call'[c].doc = doc /\ call'[c].given = given
  BY <1>1, <1>2, <1>3, Begins
<1>5. /\ exposed \subseteq exposed' /\ exposed' \subseteq known'
      /\ \A b \in Caller : Deleting(b) => doc \cap call[b].doc \subseteq exposed'
  BY <1>1, <1>3 DEF ExposedBy, TypeOK
<1>6. TypeOK'
  BY <1>1, <1>2, <1>3, <1>4, <1>5 DEF TypeOK
<1>7. Signable' /\ Ops' /\ Struck'
  BY <1>1, <1>4, <1>5 DEF IInv, Signable, Ops, Struck
<1>8. Fresh'
  BY <1>1, <1>4 DEF IInv, Fresh, Revealed
<1>9. Guarded'
  BY <1>1, <1>4, <1>5 DEF IInv, Guarded, Deleting, Storing
<1>10. Present'
  BY <1>1, <1>4, <1>5 DEF IInv, Present
<1> QED
  BY <1>6, <1>7, <1>8, <1>9, <1>10 DEF IInv

LEMMA UpdateStep ==
    ASSUME IInv, NEW c \in Caller, NEW d \in Did, BeginUpdate(c, d)
    PROVE  IInv'
<1>1. PICK doc \in (SUBSET KeysOf[d]) \ {{}}, given \in Portable :
        /\ given \subseteq doc /\ Revealed(doc)
        /\ Begin(c, "update", d, doc, given, "current", stored[d])
        /\ known' = known \cup doc
        /\ ExposedBy(doc \cup stored[d])
        /\ UNCHANGED <<keystore, stored>>
  BY DEF BeginUpdate
<1>2. doc \in SUBSET Key /\ given \in SUBSET Key
  BY DidKeysAssumption
<1>3. TypeOK /\ "current" \in Steps
  BY DEF IInv, Steps
<1>4. stored[d] \subseteq known /\ stored[d] \in SUBSET Key
  BY <1>3 DEF TypeOK
<1>5. /\ call' \in [Caller -> Call]
      /\ \A b \in Caller \ {c} : call'[b] = call[b]
      /\ call[c].at = "idle"
      /\ call'[c].at = "current" /\ call'[c].todo = stored[d]
      /\ call'[c].op = "update" /\ call'[c].did = d
      /\ call'[c].doc = doc /\ call'[c].given = given
  BY <1>1, <1>2, <1>3, <1>4, Begins
<1>6. /\ exposed \subseteq exposed' /\ exposed' \subseteq known'
      /\ \A b \in Caller : Deleting(b) => doc \cap call[b].doc \subseteq exposed'
  BY <1>1, <1>3, <1>4 DEF ExposedBy, TypeOK
<1>7. TypeOK'
  BY <1>1, <1>2, <1>3, <1>4, <1>5, <1>6 DEF TypeOK
<1>8. Signable' /\ Ops' /\ Struck'
  BY <1>1, <1>5, <1>6 DEF IInv, Signable, Ops, Struck
<1>9. Fresh'
  BY <1>1, <1>5 DEF IInv, Fresh, Revealed
<1>10. Guarded'
  BY <1>1, <1>5, <1>6 DEF IInv, Guarded, Deleting, Storing
<1>11. Present'
  BY <1>1, <1>5, <1>6 DEF IInv, Present
<1> QED
  BY <1>7, <1>8, <1>9, <1>10, <1>11 DEF IInv

LEMMA DeleteStep ==
    ASSUME IInv, NEW c \in Caller, NEW d \in Did, BeginDelete(c, d)
    PROVE  IInv'
<1> DEFINE Shared == stored[d] \cap ((UNION {stored[e] : e \in Did \ {d}}) \cup
                                     (UNION {KeysInUse(b) : b \in Caller \ {c}}))
<1>1. PICK withKeys \in BOOLEAN :
        /\ Begin(c, IF withKeys THEN "delete" ELSE "forget", d, stored[d], {}, "remove", {})
        /\ exposed' = IF withKeys THEN exposed \cup Shared ELSE exposed
        /\ UNCHANGED <<keystore, stored, known>>
  BY DEF BeginDelete
<1>2. TypeOK /\ "remove" \in Steps
  BY DEF IInv, Steps
<1>3. stored[d] \subseteq known /\ stored[d] \in SUBSET Key /\ {} \in SUBSET Key
  BY <1>2 DEF TypeOK
<1>4. /\ call' \in [Caller -> Call]
      /\ \A b \in Caller \ {c} : call'[b] = call[b]
      /\ call'[c].at = "remove" /\ call'[c].todo = {}
      /\ call'[c].op = (IF withKeys THEN "delete" ELSE "forget") /\ call'[c].did = d
      /\ call'[c].doc = stored[d] /\ call'[c].given = {}
  <2>1. CASE withKeys
    <3>1. Begin(c, "delete", d, stored[d], {}, "remove", {})
      BY <1>1, <2>1
    <3> QED
      BY <1>2, <1>3, <2>1, <3>1, Begins
  <2>2. CASE ~withKeys
    <3>1. Begin(c, "forget", d, stored[d], {}, "remove", {})
      BY <1>1, <2>2
    <3> QED
      BY <1>2, <1>3, <2>2, <3>1, Begins
  <2> QED
    BY <2>1, <2>2
<1>5. exposed \subseteq exposed' /\ exposed' \subseteq known
  <2>1. Shared \subseteq known /\ exposed \subseteq known
    BY <1>2, <1>3 DEF TypeOK
  <2> HIDE DEF Shared
  <2> QED
    BY <1>1, <2>1
<1>6. withKeys => /\ \A e \in Did \ {d} : stored[e] \cap stored[d] \subseteq exposed'
                  /\ \A b \in Caller \ {c} : call[b].doc \cap stored[d] \subseteq exposed'
  BY <1>1 DEF KeysInUse
<1>7. TypeOK'
  BY <1>1, <1>2, <1>3, <1>4, <1>5 DEF TypeOK
<1>8. Signable' /\ Ops' /\ Struck'
  BY <1>1, <1>4, <1>5 DEF IInv, Signable, Ops, Struck
<1>9. Fresh'
  BY <1>1, <1>4 DEF IInv, Fresh
<1>10. Guarded'
  BY <1>1, <1>4, <1>5, <1>6 DEF IInv, Guarded, Deleting, Storing
<1>11. Present'
  BY <1>1, <1>4, <1>5 DEF IInv, Present
<1> QED
  BY <1>7, <1>8, <1>9, <1>10, <1>11 DEF IInv

LEMMA GenerateStep ==
    ASSUME IInv, NEW c \in Caller, Generate(c)
    PROVE  IInv'
<1>1. PICK k \in call[c].todo :
        /\ keystore' = keystore \cup {k}
        /\ IF call[c].todo = {k} THEN Goto(c, "store", {})
                                 ELSE Goto(c, "generate", call[c].todo \ {k})
  BY DEF Generate
<1>2. call[c].at = "generate" /\ UNCHANGED <<stored, known, exposed>>
  BY DEF Generate
<1>3. TypeOK /\ "store" \in Steps /\ "generate" \in Steps
  BY DEF IInv, Steps
<1>4. k \in call[c].doc /\ k \in known
  BY <1>2, <1>3 DEF TypeOK
<1>5. call[c].todo \ {k} \in SUBSET Key /\ {} \in SUBSET Key
  BY <1>2, <1>3 DEF TypeOK
<1>6. /\ call' \in [Caller -> Call]
      /\ \A b \in Caller \ {c} : call'[b] = call[b]
      /\ call'[c].at \in {"store", "generate"} /\ call'[c].todo = call[c].todo \ {k}
      /\ call'[c].at = "store" => call'[c].todo = {}
      /\ call'[c].op = call[c].op /\ call'[c].did = call[c].did
      /\ call'[c].doc = call[c].doc /\ call'[c].given = call[c].given
  <2>1. CASE call[c].todo = {k}
    <3>1. Goto(c, "store", {})
      BY <1>1, <2>1
    <3>2. /\ call' \in [Caller -> Call]
          /\ \A b \in Caller \ {c} : call'[b] = call[b]
          /\ call'[c].at = "store" /\ call'[c].todo = {}
          /\ call'[c].op = call[c].op /\ call'[c].did = call[c].did
          /\ call'[c].doc = call[c].doc /\ call'[c].given = call[c].given
      BY <1>3, <1>5, <3>1, Moves
    <3> QED
      BY <3>2, <2>1
  <2>2. CASE call[c].todo # {k}
    <3>1. Goto(c, "generate", call[c].todo \ {k})
      BY <1>1, <2>2
    <3>2. /\ call' \in [Caller -> Call]
          /\ \A b \in Caller \ {c} : call'[b] = call[b]
          /\ call'[c].at = "generate" /\ call'[c].todo = call[c].todo \ {k}
          /\ call'[c].op = call[c].op /\ call'[c].did = call[c].did
          /\ call'[c].doc = call[c].doc /\ call'[c].given = call[c].given
      BY <1>3, <1>5, <3>1, Moves
    <3> QED
      BY <3>2, <2>2
  <2> QED
    BY <2>1, <2>2
<1>7. \A b \in Caller \ {c} : k \notin call[b].doc
  BY <1>2, <1>4 DEF IInv, Fresh
<1>8. TypeOK'
  BY <1>1, <1>2, <1>3, <1>4, <1>6, <1>7 DEF TypeOK
<1>9. Signable' /\ Ops'
  BY <1>1, <1>2, <1>6 DEF IInv, Signable, Ops
<1>10. Fresh'
  BY <1>1, <1>2, <1>6 DEF IInv, Fresh
<1>11. Guarded'
  BY <1>1, <1>2, <1>6 DEF IInv, Guarded, Deleting, Storing
<1>12. Present'
  BY <1>1, <1>2, <1>6 DEF IInv, Present
<1>13. Struck'
  BY <1>1, <1>2, <1>6, <1>7 DEF IInv, Struck
<1> QED
  BY <1>8, <1>9, <1>10, <1>11, <1>12, <1>13 DEF IInv

\* A call that ends, or throws, leaves the stores as they are.
LEMMA EndStep ==
    ASSUME IInv, NEW c \in Caller, End(c), UNCHANGED <<keystore, stored, known, exposed>>
    PROVE  IInv'
<1>1. TypeOK
  BY DEF IInv
<1>2. /\ call' \in [Caller -> Call]
      /\ \A b \in Caller \ {c} : call'[b] = call[b]
      /\ call'[c] = Idle
      /\ call'[c].at = "idle" /\ call'[c].op = "get"
      /\ call'[c].doc = {} /\ call'[c].given = {} /\ call'[c].todo = {}
  BY <1>1, Finishes
<1>3. TypeOK'
  BY <1>1, <1>2 DEF TypeOK
<1>4. Signable' /\ Ops' /\ Struck'
  BY <1>2 DEF IInv, Signable, Ops, Struck
<1>5. Fresh'
  BY <1>2 DEF IInv, Fresh
<1>6. Guarded'
  BY <1>2 DEF IInv, Guarded, Deleting, Storing
<1>7. Present'
  BY <1>2 DEF IInv, Present
<1> QED
  BY <1>3, <1>4, <1>5, <1>6, <1>7 DEF IInv

\* A call that goes on looking at keys has what it says it has found.
LEMMA LookedStep ==
    ASSUME IInv, NEW c \in Caller, UNCHANGED <<keystore, stored, known, exposed>>,
           call[c].at \in {"current", "look", "verify"},
           NEW at \in {"current", "look", "add", "verify", "store"}, NEW todo \in SUBSET Key,
           Goto(c, at, todo),
           todo \subseteq (IF at = "current" THEN known ELSE call[c].doc),
           at = "add" => todo # {},
           at \in {"verify", "store"} => call[c].doc \ todo \subseteq keystore \cup exposed,
           at = "store" => todo = {}
    PROVE  IInv'
<1>1. TypeOK /\ at \in Steps
  BY DEF IInv, Steps
<1>2. /\ call' \in [Caller -> Call]
      /\ \A b \in Caller \ {c} : call'[b] = call[b]
      /\ call'[c].at = at /\ call'[c].todo = todo
      /\ call'[c].op = call[c].op /\ call'[c].did = call[c].did
      /\ call'[c].doc = call[c].doc /\ call'[c].given = call[c].given
  BY <1>1, Moves
<1>3. TypeOK'
  BY <1>1, <1>2 DEF TypeOK
<1>4. Signable' /\ Ops' /\ Struck'
  BY <1>2 DEF IInv, Signable, Ops, Struck
<1>5. Fresh'
  BY <1>2 DEF IInv, Fresh
<1>6. Guarded'
  BY <1>2 DEF IInv, Guarded, Deleting, Storing
<1>7. Present'
  BY <1>2 DEF IInv, Present
<1> QED
  BY <1>3, <1>4, <1>5, <1>6, <1>7 DEF IInv

LEMMA LookStep ==
    ASSUME IInv, NEW c \in Caller, Look(c)
    PROVE  IInv'
<1>1. call[c].at = "look" /\ UNCHANGED <<keystore, stored, known, exposed>>
  BY DEF Look
<1>2. /\ call[c].doc \in SUBSET Key /\ call[c].todo \in SUBSET Key
      /\ call[c].todo \subseteq call[c].doc
  BY <1>1 DEF IInv, TypeOK
<1>3. CASE call[c].todo = {}
  <2>1. Goto(c, "verify", call[c].doc)
    BY <1>3 DEF Look
  <2> QED
    BY <1>1, <1>2, <2>1, LookedStep
<1>4. CASE call[c].todo # {}
  <2>1. PICK k \in call[c].todo :
            IF k \in keystore THEN Goto(c, "look", call[c].todo \ {k})
                              ELSE Goto(c, "add", call[c].todo)
    BY <1>4 DEF Look
  <2>2. CASE k \in keystore
    <3>1. Goto(c, "look", call[c].todo \ {k}) /\ call[c].todo \ {k} \in SUBSET Key
      BY <1>2, <2>1, <2>2
    <3> QED
      BY <1>1, <1>2, <3>1, LookedStep
  <2>3. CASE k \notin keystore
    <3>1. Goto(c, "add", call[c].todo)
      BY <2>1, <2>3
    <3> QED
      BY <1>1, <1>2, <1>4, <3>1, LookedStep
  <2> QED
    BY <2>2, <2>3
<1> QED
  BY <1>3, <1>4

LEMMA VerifyStep ==
    ASSUME IInv, NEW c \in Caller, Verify(c)
    PROVE  IInv'
<1>1. call[c].at \in {"current", "verify"} /\ UNCHANGED <<keystore, stored, known, exposed>>
  BY DEF Verify
<1>2. /\ call[c].doc \in SUBSET Key /\ call[c].todo \in SUBSET Key
      /\ call[c].given \in SUBSET Key /\ call[c].given \subseteq call[c].doc
      /\ call[c].todo \subseteq (IF call[c].at = "current" THEN known ELSE call[c].doc)
  BY <1>1 DEF IInv, TypeOK, Call
<1>3. call[c].at = "verify" => call[c].doc \ call[c].todo \subseteq keystore \cup exposed
  BY DEF IInv, Present
<1>4. ASSUME NEW k \in call[c].todo,
             IF k \in keystore THEN Goto(c, call[c].at, call[c].todo \ {k}) ELSE End(c)
      PROVE  IInv'
  <2>1. CASE k \in keystore
    <3>1. Goto(c, call[c].at, call[c].todo \ {k}) /\ call[c].todo \ {k} \in SUBSET Key
      BY <1>2, <1>4, <2>1
    <3>2. call[c].at = "verify" =>
              call[c].doc \ (call[c].todo \ {k}) \subseteq keystore \cup exposed
      BY <1>3, <2>1
    <3> QED
      BY <1>1, <1>2, <3>1, <3>2, LookedStep
  <2>2. CASE k \notin keystore
    BY <1>1, <1>4, <2>2, EndStep
  <2> QED
    BY <2>1, <2>2
<1>5. CASE call[c].todo = {} /\ call[c].at = "current" /\ Goto(c, "look", call[c].given)
  BY <1>1, <1>2, <1>5, LookedStep
<1>6. CASE call[c].todo = {} /\ call[c].at = "verify" /\ Goto(c, "store", {})
  <2>1. call[c].doc \ {} \subseteq keystore \cup exposed /\ {} \in SUBSET Key
    BY <1>3, <1>6
  <2> QED
    BY <1>1, <1>6, <2>1, LookedStep
<1> QED
  BY <1>1, <1>4, <1>5, <1>6 DEF Verify

LEMMA AddStep ==
    ASSUME IInv, NEW c \in Caller, Add(c)
    PROVE  IInv'
<1>1. PICK k \in call[c].todo :
           IF k \in keystore
           THEN End(c) /\ UNCHANGED keystore
           ELSE /\ keystore' = keystore \cup {k}
                /\ Goto(c, "look", call[c].todo \ {k})
  BY DEF Add
<1>2. call[c].at = "add" /\ UNCHANGED <<stored, known, exposed>>
  BY DEF Add
<1>3. CASE k \in keystore
  BY <1>1, <1>2, <1>3, EndStep
<1>4. CASE k \notin keystore
  <2>1. keystore' = keystore \cup {k} /\ Goto(c, "look", call[c].todo \ {k})
    BY <1>1, <1>4
  <2>2. TypeOK /\ "look" \in Steps
    BY DEF IInv, Steps
  <2>3. k \in call[c].doc /\ k \in known /\ call[c].todo \ {k} \in SUBSET Key
    BY <1>2, <2>2 DEF TypeOK
  <2>4. /\ call' \in [Caller -> Call]
        /\ \A b \in Caller \ {c} : call'[b] = call[b]
        /\ call'[c].at = "look" /\ call'[c].todo = call[c].todo \ {k}
        /\ call'[c].op = call[c].op /\ call'[c].did = call[c].did
        /\ call'[c].doc = call[c].doc /\ call'[c].given = call[c].given
    BY <2>1, <2>2, <2>3, Moves
  <2>5. \A b \in Caller : call[b].at = "generate" => k \notin call[b].doc
    BY <1>2, <2>3 DEF IInv, Fresh
  <2>6. \A b \in Caller : call[b].at = "strike" /\ k \in call[b].doc => k \in exposed
    BY <1>2, <2>3 DEF IInv, Guarded, Deleting, Storing, Ops
  <2>7. TypeOK'
    BY <1>2, <2>1, <2>2, <2>3, <2>4, <2>5 DEF TypeOK
  <2>8. Signable' /\ Ops'
    BY <1>2, <2>1, <2>4 DEF IInv, Signable, Ops
  <2>9. Fresh'
    BY <1>2, <2>4 DEF IInv, Fresh
  <2>10. Guarded'
    BY <1>2, <2>4 DEF IInv, Guarded, Deleting, Storing
  <2>11. Present'
    BY <1>2, <2>1, <2>4 DEF IInv, Present
  <2>12. Struck'
    BY <1>2, <2>1, <2>4, <2>6 DEF IInv, Struck
  <2> QED
    BY <2>7, <2>8, <2>9, <2>10, <2>11, <2>12 DEF IInv
<1> QED
  BY <1>3, <1>4

LEMMA StoreStep ==
    ASSUME IInv, NEW c \in Caller, Store(c)
    PROVE  IInv'
<1>1. /\ call[c].at = "store" /\ End(c)
      /\ stored' = IF Accepts(call[c].op, stored[call[c].did])
                   THEN [stored EXCEPT ![call[c].did] = call[c].doc] ELSE stored
      /\ UNCHANGED <<keystore, known, exposed>>
  BY DEF Store
<1>2. TypeOK
  BY DEF IInv
<1>3. /\ call' \in [Caller -> Call]
      /\ \A b \in Caller \ {c} : call'[b] = call[b]
      /\ call'[c] = Idle
      /\ call'[c].at = "idle" /\ call'[c].op = "get"
      /\ call'[c].doc = {} /\ call'[c].given = {} /\ call'[c].todo = {}
  BY <1>1, <1>2, Finishes
<1>4. call[c].doc \subseteq known /\ call[c].did \in Did
  BY <1>2 DEF TypeOK, Call
<1>5. /\ stored' \in [Did -> SUBSET known]
      /\ \A d \in Did : stored'[d] = stored[d] \/ stored'[d] = call[c].doc
  BY <1>1, <1>2, <1>4 DEF TypeOK
<1>6. TypeOK'
  BY <1>1, <1>2, <1>3, <1>5 DEF TypeOK
<1>7. Signable'
  BY <1>1, <1>5 DEF IInv, Signable, Present
<1>8. Fresh'
  BY <1>1, <1>3, <1>5 DEF IInv, Fresh
<1>9. Guarded'
  <2>1. \A b \in Caller \ {c} : Deleting(b) => call[c].doc \cap call[b].doc \subseteq exposed
    BY <1>1 DEF IInv, Guarded, Storing
  <2> QED
    BY <1>1, <1>3, <1>5, <2>1 DEF IInv, Guarded, Deleting, Storing
<1>10. Present'
  BY <1>1, <1>3 DEF IInv, Present
<1>11. Ops' /\ Struck'
  BY <1>1, <1>3 DEF IInv, Ops, Struck
<1> QED
  BY <1>6, <1>7, <1>8, <1>9, <1>10, <1>11 DEF IInv

LEMMA RemoveRecordStep ==
    ASSUME IInv, NEW c \in Caller, RemoveRecord(c)
    PROVE  IInv'
<1>1. /\ call[c].at = "remove" /\ UNCHANGED <<keystore, known, exposed>>
      /\ stored' = [stored EXCEPT ![call[c].did] = {}]
      /\ IF call[c].op = "delete" THEN Goto(c, "strike", call[c].doc) ELSE End(c)
  BY DEF RemoveRecord
<1>2. TypeOK /\ "strike" \in Steps
  BY DEF IInv, Steps
<1>3. call[c].doc \subseteq known /\ call[c].doc \in SUBSET Key /\ call[c].did \in Did
  BY <1>2 DEF TypeOK, Call
<1>4. /\ call' \in [Caller -> Call]
      /\ \A b \in Caller \ {c} : call'[b] = call[b]
      /\ \/ /\ call[c].op = "delete" /\ call'[c].op = "delete"
            /\ call'[c].at = "strike" /\ call'[c].todo = call[c].doc
            /\ call'[c].did = call[c].did /\ call'[c].doc = call[c].doc
            /\ call'[c].given = call[c].given
         \/ /\ call'[c] = Idle
            /\ call'[c].at = "idle" /\ call'[c].op = "get"
            /\ call'[c].doc = {} /\ call'[c].given = {} /\ call'[c].todo = {}
  <2>1. CASE call[c].op = "delete"
    <3>1. Goto(c, "strike", call[c].doc)
      BY <1>1, <2>1
    <3> QED
      BY <1>2, <1>3, <2>1, <3>1, Moves
  <2>2. CASE call[c].op # "delete"
    BY <1>1, <1>2, <2>2, Finishes
  <2> QED
    BY <2>1, <2>2
<1>5. /\ stored' \in [Did -> SUBSET known]
      /\ stored'[call[c].did] = {}
      /\ \A d \in Did : d # call[c].did => stored'[d] = stored[d]
      /\ \A d \in Did : stored'[d] \subseteq stored[d]
  BY <1>1, <1>2, <1>3 DEF TypeOK
<1>6. TypeOK'
  BY <1>1, <1>2, <1>4, <1>5 DEF TypeOK
<1>7. Signable'
  BY <1>1, <1>5 DEF IInv, Signable
<1>8. Fresh'
  BY <1>1, <1>4, <1>5 DEF IInv, Fresh
<1>9. Guarded'
  <2>1. ASSUME NEW b \in Caller \ {c}, Deleting(b)'
        PROVE  /\ \A d \in Did : d # call[b].did \/ call[b].at = "strike"
                                     => stored'[d] \cap call[b].doc \subseteq exposed
               /\ \A a \in Caller : Storing(a)' => call'[a].doc \cap call[b].doc \subseteq exposed
    BY <1>1, <1>4, <1>5, <2>1 DEF IInv, Guarded, Deleting, Storing
  <2>2. ASSUME Deleting(c)'
        PROVE  /\ \A d \in Did : stored'[d] \cap call[c].doc \subseteq exposed
               /\ \A a \in Caller : Storing(a)' => call'[a].doc \cap call[c].doc \subseteq exposed
    BY <1>1, <1>4, <1>5, <2>2 DEF IInv, Guarded, Deleting, Storing
  <2> QED
    BY <1>1, <1>4, <2>1, <2>2 DEF Guarded, Deleting
<1>10. Present'
  BY <1>1, <1>4 DEF IInv, Present
<1>11. Ops' /\ Struck'
  BY <1>1, <1>4 DEF IInv, Ops, Struck
<1> QED
  BY <1>6, <1>7, <1>8, <1>9, <1>10, <1>11 DEF IInv

LEMMA StrikeStep ==
    ASSUME IInv, NEW c \in Caller, Strike(c)
    PROVE  IInv'
<1>1. PICK k \in call[c].todo :
           /\ keystore' = keystore \ {k}
           /\ IF k \notin keystore \/ call[c].todo = {k}
              THEN End(c) ELSE Goto(c, "strike", call[c].todo \ {k})
  BY DEF Strike
<1>2. call[c].at = "strike" /\ UNCHANGED <<stored, known, exposed>>
  BY DEF Strike
<1>3. TypeOK /\ "strike" \in Steps
  BY DEF IInv, Steps
<1>4. k \in call[c].doc /\ call[c].todo \ {k} \in SUBSET Key
  BY <1>2, <1>3 DEF TypeOK
<1>5. /\ \A d \in Did : k \in stored[d] => k \in exposed
      /\ \A b \in Caller : Storing(b) /\ k \in call[b].doc => k \in exposed
  BY <1>2, <1>4 DEF IInv, Guarded, Deleting, Ops
<1>6. /\ call' \in [Caller -> Call]
      /\ \A b \in Caller \ {c} : call'[b] = call[b]
      /\ \/ /\ call'[c].at = "strike" /\ call'[c].todo = call[c].todo \ {k}
            /\ call'[c].op = call[c].op /\ call'[c].did = call[c].did
            /\ call'[c].doc = call[c].doc /\ call'[c].given = call[c].given
         \/ /\ call'[c] = Idle
            /\ call'[c].at = "idle" /\ call'[c].op = "get"
            /\ call'[c].doc = {} /\ call'[c].given = {} /\ call'[c].todo = {}
  <2>1. CASE End(c)
    BY <1>3, <2>1, Finishes
  <2>2. CASE Goto(c, "strike", call[c].todo \ {k})
    BY <1>3, <1>4, <2>2, Moves
  <2> QED
    BY <1>1, <2>1, <2>2
<1>7. TypeOK'
  BY <1>1, <1>2, <1>3, <1>6 DEF TypeOK
<1>8. Signable'
  BY <1>1, <1>2, <1>5 DEF IInv, Signable
<1>9. Ops' /\ Fresh'
  BY <1>2, <1>6 DEF IInv, Ops, Fresh
<1>10. Guarded'
  BY <1>2, <1>6 DEF IInv, Guarded, Deleting, Storing
<1>11. Present'
  BY <1>1, <1>2, <1>5, <1>6 DEF IInv, Present, Storing
<1>12. Struck'
  BY <1>1, <1>2, <1>6 DEF IInv, Struck
<1> QED
  BY <1>7, <1>8, <1>9, <1>10, <1>11, <1>12 DEF IInv

-----------------------------------------------------------------------------
(* The theorems *)

LEMMA InitIInv == Init => IInv
<1> SUFFICES ASSUME Init PROVE IInv
  OBVIOUS
<1>1. call \in [Caller -> Call] /\ \A c \in Caller : call[c] = Idle
  BY IdleCall DEF Init
<1>2. \A c \in Caller : /\ call[c].at = "idle" /\ call[c].doc = {}
                        /\ call[c].given = {} /\ call[c].todo = {}
  BY <1>1 DEF Idle
<1>3. TypeOK
  BY <1>1, <1>2 DEF Init, TypeOK
<1> QED
  BY <1>2, <1>3 DEF Init, IInv, Signable, Ops, Fresh, Guarded, Deleting, Present, Struck

LEMMA NextIInv == IInv /\ [Next]_vars => IInv'
<1> SUFFICES ASSUME IInv, [Next]_vars PROVE IInv'
  OBVIOUS
<1>1. ASSUME NEW c \in Caller, NEW d \in Did,
             BeginCreate(c, d) \/ BeginImport(c, d) \/ BeginUpdate(c, d) \/ BeginDelete(c, d)
      PROVE  IInv'
  BY <1>1, CreateStep, ImportStep, UpdateStep, DeleteStep
<1>2. ASSUME NEW c \in Caller, Generate(c) \/ Look(c) \/ Add(c) \/ Verify(c)
      PROVE  IInv'
  BY <1>2, GenerateStep, LookStep, AddStep, VerifyStep
<1>3. ASSUME NEW c \in Caller, Store(c) \/ RemoveRecord(c) \/ Strike(c)
      PROVE  IInv'
  BY <1>3, StoreStep, RemoveRecordStep, StrikeStep
<1>4. ASSUME NEW c \in Caller, Throws(c)
      PROVE  IInv'
  BY <1>4, EndStep DEF Throws
<1>5. CASE UNCHANGED vars
  BY <1>5 DEF vars, IInv, TypeOK, Signable, Ops, Fresh, Guarded, Deleting, Storing,
              Present, Struck
<1> QED
  BY <1>1, <1>2, <1>3, <1>4, <1>5 DEF Next

LEMMA Invariant == Spec => []IInv
BY InitIInv, NextIInv, PTL DEF Spec

\* The stores and the calls of did-api.ts and local-key-manager.ts have their
\* types: keys that were made somewhere, documents of them, and calls that have
\* left to do only keys of the document they deal with.
THEOREM TypesHold == Spec => []TypeOK
<1>1. IInv => TypeOK
  BY DEF IInv
<1> QED
  BY <1>1, Invariant, PTL

\* Every DID in the store can sign, whatever calls of create, import, update and
\* delete run at once and wherever they throw, save with keys that some delete()
\* was to take while they were in use (did-api.ts 343-377).
THEOREM StoredDidsSign == Spec => []Signable
<1>1. IInv => Signable
  BY DEF IInv
<1> QED
  BY <1>1, Invariant, PTL

\* A delete() that takes its last key leaves none of the document's keys, save
\* those another call or another DID used (did-api.ts 366-377).
THEOREM DeletionIsComplete == Spec => DeletedForGood
<1> DEFINE Gone(c) == call[c].at = "strike" /\ call'[c].at = "idle" /\ keystore' # keystore
                          => call[c].doc \cap keystore' \subseteq exposed'
<1>1. ASSUME IInv, Next PROVE \A c \in Caller : Gone(c)
  <2> SUFFICES ASSUME NEW c \in Caller, call[c].at = "strike", call'[c].at = "idle",
                      keystore' # keystore
               PROVE  call[c].doc \cap keystore' \subseteq exposed'
    OBVIOUS
  <2>1. TypeOK
    BY <1>1 DEF IInv
  <2>2. PICK b \in Caller : Generate(b) \/ Add(b) \/ Strike(b)
    BY <1>1 DEF Next, BeginCreate, BeginImport, BeginUpdate, BeginDelete, Look, Verify,
                Store, RemoveRecord, Throws
  <2>3. b = c
    <3>1. ASSUME b # c PROVE call'[c] = call[c]
      BY <2>1, <2>2, <3>1 DEF Generate, Add, Strike, Goto, End, TypeOK
    <3> QED
      BY <3>1
  <2>4. Strike(c)
    BY <2>2, <2>3 DEF Generate, Add
  <2>5. PICK k \in call[c].todo :
             /\ keystore' = keystore \ {k}
             /\ IF k \notin keystore \/ call[c].todo = {k}
                THEN End(c) ELSE Goto(c, "strike", call[c].todo \ {k})
    BY <2>4 DEF Strike
  <2>6. call[c].todo = {k}
    <3>1. ASSUME Goto(c, "strike", call[c].todo \ {k}) PROVE call'[c].at = "strike"
      BY <2>1, <3>1 DEF Goto, TypeOK, Call
    <3> QED
      BY <2>5, <3>1
  <2> QED
    BY <1>1, <2>4, <2>5, <2>6 DEF IInv, Struck, Strike
<1>2. ASSUME IInv, [Next]_vars PROVE [\A c \in Caller : Gone(c)]_vars
  BY <1>1, <1>2
<1> QED
  BY <1>2, Invariant, PTL DEF Spec, DeletedForGood

-----------------------------------------------------------------------------
(* KeyAlgorithms: a key is used with the algorithm it was made for *)

HasName(i, x) == x \in SupportedAlgorithms[i].names
OnlyIn(i, x) == \A j \in DOMAIN SupportedAlgorithms : HasName(j, x) <=> j = i
Nowhere(x) == \A j \in DOMAIN SupportedAlgorithms : ~HasName(j, x)

LEMMA Table ==
    /\ DOMAIN SupportedAlgorithms = {1, 2, 3, 4, 5, 6, 7, 8}
    /\ \A x : HasName(1, x) <=> x \in Gcm
    /\ \A x : HasName(2, x) <=> x \in Kw
    /\ \A x : HasName(3, x) <=> x = "Ed25519"
    /\ \A x : HasName(4, x) <=> x \in Hkdf
    /\ \A x : HasName(5, x) <=> x \in Pbes2
    /\ \A x : HasName(6, x) <=> x \in {"ES256K", "secp256k1"}
    /\ \A x : HasName(7, x) <=> x \in {"ES256", "secp256r1"}
    /\ \A x : HasName(8, x) <=> x = "SHA-256"
BY DEF SupportedAlgorithms, HasName

LEMMA EntryNames ==
    /\ SupportedAlgorithms[1].name = "AES-GCM" /\ SupportedAlgorithms[2].name = "AES-KW"
    /\ SupportedAlgorithms[3].name = "Ed25519" /\ SupportedAlgorithms[4].name = "HKDF"
    /\ SupportedAlgorithms[5].name = "PBKDF2" /\ SupportedAlgorithms[6].name = "secp256k1"
    /\ SupportedAlgorithms[7].name = "secp256r1" /\ SupportedAlgorithms[8].name = "SHA-256"
BY DEF SupportedAlgorithms

\* Which entry of the table has which name: at most one.
LEMMA NamesAreOnce ==
    /\ \A x \in Gcm : OnlyIn(1, x)
    /\ \A x \in Kw : OnlyIn(2, x)
    /\ OnlyIn(3, "Ed25519")
    /\ \A x \in Hkdf : OnlyIn(4, x)
    /\ \A x \in Pbes2 : OnlyIn(5, x)
    /\ \A x \in {"ES256K", "secp256k1"} : OnlyIn(6, x)
    /\ \A x \in {"ES256", "secp256r1"} : OnlyIn(7, x)
    /\ OnlyIn(8, "SHA-256")
    /\ \A x \in {"", "EdDSA", "P-256"} : Nowhere(x)
<1> USE Table DEF OnlyIn, Nowhere, Gcm, Kw, Hkdf, Pbes2
<1>1. \A x \in Gcm : OnlyIn(1, x)
  OBVIOUS
<1>2. \A x \in Kw : OnlyIn(2, x)
  OBVIOUS
<1>3. OnlyIn(3, "Ed25519")
  OBVIOUS
<1>4. \A x \in Hkdf : OnlyIn(4, x)
  OBVIOUS
<1>5. \A x \in Pbes2 : OnlyIn(5, x)
  OBVIOUS
<1>6. \A x \in {"ES256K", "secp256k1"} : OnlyIn(6, x)
  OBVIOUS
<1>7. \A x \in {"ES256", "secp256r1"} : OnlyIn(7, x)
  OBVIOUS
<1>8. OnlyIn(8, "SHA-256")
  OBVIOUS
<1>9. \A x \in {"", "EdDSA", "P-256"} : Nowhere(x)
  OBVIOUS
<1> HIDE DEF OnlyIn, Nowhere, Gcm, Kw, Hkdf, Pbes2
<1> QED
  BY <1>1, <1>2, <1>3, <1>4, <1>5, <1>6, <1>7, <1>8, <1>9

\* An algorithm and a curve, of which one entry has one or both.
LEMMA NameOfEntry ==
    ASSUME NEW manager, NEW i \in DOMAIN SupportedAlgorithms, NEW alg, NEW crv,
           OnlyIn(i, alg) \/ OnlyIn(i, crv),
           OnlyIn(i, alg) \/ Nowhere(alg), OnlyIn(i, crv) \/ Nowhere(crv)
    PROVE  AlgorithmName(manager, alg, crv) =
              IF SupportedAlgorithms[i].name \in Supports[manager]
              THEN SupportedAlgorithms[i].name ELSE "none"
<1> DEFINE named == Named(manager, alg, crv)
           first == CHOOSE k \in named : \A j \in named : k <= j
<1>1. i \in Int
  BY Table
<1>2. named = IF SupportedAlgorithms[i].name \in Supports[manager] THEN {i} ELSE {}
  BY DEF Named, OnlyIn, Nowhere, HasName
<1>3. AlgorithmName(manager, alg, crv) =
         IF named = {} THEN "none" ELSE SupportedAlgorithms[first].name
  BY DEF AlgorithmName
<1>4. named = {i} => first = i
  <2>1. named = {i} => \E k \in named : \A j \in named : k <= j
    BY <1>1
  <2> QED
    BY <2>1
<1> HIDE DEF named, first
<1> QED
  BY <1>2, <1>3, <1>4

LEMMA NoEntry ==
    ASSUME NEW manager, NEW alg, NEW crv, Nowhere(alg), Nowhere(crv)
    PROVE  AlgorithmName(manager, alg, crv) = "none"
<1>1. Named(manager, alg, crv) = {}
  BY DEF Named, Nowhere, HasName
<1> QED
  BY <1>1 DEF AlgorithmName

\* If the manager has the algorithm, that is it; else there is none.
Only(manager, name) == IF name \in Supports[manager] THEN name ELSE "none"

\* What a manager makes of what a key is asked for as.
LEMMA AskedNames ==
    ASSUME NEW manager
    PROVE  /\ \A a \in Gcm : AlgorithmName(manager, a, "") = Only(manager, "AES-GCM")
           /\ \A a \in Kw : AlgorithmName(manager, a, "") = Only(manager, "AES-KW")
           /\ AlgorithmName(manager, "Ed25519", "") = Only(manager, "Ed25519")
           /\ \A a \in Hkdf : AlgorithmName(manager, a, "") = Only(manager, "HKDF")
           /\ \A a \in Pbes2 : AlgorithmName(manager, a, "") = Only(manager, "PBKDF2")
           /\ \A a \in {"ES256K", "secp256k1"} :
                 AlgorithmName(manager, a, "") = Only(manager, "secp256k1")
           /\ \A a \in {"ES256", "secp256r1"} :
                 AlgorithmName(manager, a, "") = Only(manager, "secp256r1")
           /\ AlgorithmName(manager, "SHA-256", "") = Only(manager, "SHA-256")
<1>1. ASSUME NEW i \in DOMAIN SupportedAlgorithms, NEW a, OnlyIn(i, a)
      PROVE  AlgorithmName(manager, a, "") = Only(manager, SupportedAlgorithms[i].name)
  BY <1>1, NameOfEntry, NamesAreOnce DEF Only
<1>2. DOMAIN SupportedAlgorithms = {1, 2, 3, 4, 5, 6, 7, 8}
  BY Table
<1>3. \A a \in Gcm : AlgorithmName(manager, a, "") = Only(manager, "AES-GCM")
  <2>1. 1 \in DOMAIN SupportedAlgorithms
    BY <1>2
  <2> QED
    BY <1>1, <2>1, NamesAreOnce, EntryNames
<1>4. \A a \in Kw : AlgorithmName(manager, a, "") = Only(manager, "AES-KW")
  <2>1. 2 \in DOMAIN SupportedAlgorithms
    BY <1>2
  <2> QED
    BY <1>1, <2>1, NamesAreOnce, EntryNames
<1>5. AlgorithmName(manager, "Ed25519", "") = Only(manager, "Ed25519")
  <2>1. 3 \in DOMAIN SupportedAlgorithms
    BY <1>2
  <2> QED
    BY <1>1, <2>1, NamesAreOnce, EntryNames
<1>6. \A a \in Hkdf : AlgorithmName(manager, a, "") = Only(manager, "HKDF")
  <2>1. 4 \in DOMAIN SupportedAlgorithms
    BY <1>2
  <2> QED
    BY <1>1, <2>1, NamesAreOnce, EntryNames
<1>7. \A a \in Pbes2 : AlgorithmName(manager, a, "") = Only(manager, "PBKDF2")
  <2>1. 5 \in DOMAIN SupportedAlgorithms
    BY <1>2
  <2> QED
    BY <1>1, <2>1, NamesAreOnce, EntryNames
<1>8. \A a \in {"ES256K", "secp256k1"} :
         AlgorithmName(manager, a, "") = Only(manager, "secp256k1")
  <2>1. 6 \in DOMAIN SupportedAlgorithms
    BY <1>2
  <2> QED
    BY <1>1, <2>1, NamesAreOnce, EntryNames
<1>9. \A a \in {"ES256", "secp256r1"} :
         AlgorithmName(manager, a, "") = Only(manager, "secp256r1")
  <2>1. 7 \in DOMAIN SupportedAlgorithms
    BY <1>2
  <2> QED
    BY <1>1, <2>1, NamesAreOnce, EntryNames
<1>10. AlgorithmName(manager, "SHA-256", "") = Only(manager, "SHA-256")
  <2>1. 8 \in DOMAIN SupportedAlgorithms
    BY <1>2
  <2> QED
    BY <1>1, <2>1, NamesAreOnce, EntryNames
<1> QED
  BY <1>3, <1>4, <1>5, <1>6, <1>7, <1>8, <1>9, <1>10

\* What a manager makes of a key of a curve.
LEMMA KeyNames ==
    ASSUME NEW manager
    PROVE  /\ \A alg \in {"EdDSA", ""} :
                 AlgorithmName(manager, alg, "Ed25519") = Only(manager, "Ed25519")
           /\ \A alg \in {"ES256K", "EdDSA", ""} :
                 AlgorithmName(manager, alg, "secp256k1") = Only(manager, "secp256k1")
           /\ AlgorithmName(manager, "ES256", "P-256") = Only(manager, "secp256r1")
           /\ \A alg \in {"EdDSA", ""} : AlgorithmName(manager, alg, "P-256") = "none"
<1>1. 3 \in DOMAIN SupportedAlgorithms /\ 6 \in DOMAIN SupportedAlgorithms
      /\ 7 \in DOMAIN SupportedAlgorithms
  BY Table
<1>2. /\ OnlyIn(3, "Ed25519") /\ OnlyIn(6, "ES256K") /\ OnlyIn(6, "secp256k1")
      /\ OnlyIn(7, "ES256") /\ Nowhere("") /\ Nowhere("EdDSA") /\ Nowhere("P-256")
  BY NamesAreOnce
<1>3. ASSUME NEW i \in DOMAIN SupportedAlgorithms, NEW alg, NEW crv,
             OnlyIn(i, crv), OnlyIn(i, alg) \/ Nowhere(alg)
      PROVE  AlgorithmName(manager, alg, crv) = Only(manager, SupportedAlgorithms[i].name)
  BY <1>3, NameOfEntry DEF Only
<1>4. \A alg \in {"EdDSA", ""} : AlgorithmName(manager, alg, "Ed25519") = Only(manager, "Ed25519")
  BY <1>1, <1>2, <1>3, EntryNames
<1>5. \A alg \in {"ES256K", "EdDSA", ""} :
         AlgorithmName(manager, alg, "secp256k1") = Only(manager, "secp256k1")
  BY <1>1, <1>2, <1>3, EntryNames
<1>6. AlgorithmName(manager, "ES256", "P-256") = Only(manager, "secp256r1")
  <2>1. AlgorithmName(manager, "ES256", "P-256") = Only(manager, SupportedAlgorithms[7].name)
    BY <1>1, <1>2, NameOfEntry DEF Only
  <2> QED
    BY <2>1, EntryNames
<1>7. \A alg \in {"EdDSA", ""} : AlgorithmName(manager, alg, "P-256") = "none"
  BY <1>2, NoEntry
<1> QED
  BY <1>4, <1>5, <1>6, <1>7

-----------------------------------------------------------------------------
(* What a key may have become *)

Kinds == DOMAIN Generates \cup Gcm \cup Kw

KeysFor(algorithm) ==
    IF algorithm \in DOMAIN Generates
    THEN [crv : {Generates[algorithm].crv}, alg : {Generates[algorithm].alg, "EdDSA", ""},
          bits : {0}, private : BOOLEAN]
    ELSE [crv : {""}, alg : {algorithm}, bits : {Bits(algorithm)}, private : {TRUE}]

LifeHolds == sample.of = "life" =>
    \E m \in DOMAIN Supports, a \in Kinds : \E key \in KeysFor(a) :
        sample = Sample("life", Life(m, a, key))
DerivesHold == sample.of = "derive" =>
    \E k \in Hkdf \cup Pbes2, d \in Gcm \cup Kw : sample = Sample("derive", <<k, d>>)

LEMMA Algorithms ==
    /\ DOMAIN Generates = {"Ed25519", "ES256K", "secp256k1", "ES256", "secp256r1"}
    /\ DOMAIN Supports = {"LocalKeyManager", "AgentKeyManager", "AgentCryptoApi", "AwsKeyManager"}
    /\ DOMAIN JoseNames = {"Ed25519", "P-256", "secp256k1"}
    /\ Gcm \cap Kw = {} /\ Gcm \cap DOMAIN Generates = {} /\ Kw \cap DOMAIN Generates = {}
BY DEF Generates, Supports, JoseNames, Gcm, Kw

LEMMA KeysGenerated ==
    /\ Generates["Ed25519"] = Jwk("Ed25519", "EdDSA", TRUE)
    /\ Generates["ES256K"] = Jwk("secp256k1", "ES256K", TRUE)
    /\ Generates["secp256k1"] = Jwk("secp256k1", "ES256K", TRUE)
    /\ Generates["ES256"] = Jwk("P-256", "ES256", TRUE)
    /\ Generates["secp256r1"] = Jwk("P-256", "ES256", TRUE)
BY DEF Generates

\* An AES key has the name its length asks for.
LEMMA AesNames ==
    /\ \A a \in Gcm : AesKey(Gcm, Bits(a)) = [crv |-> "", alg |-> a, bits |-> Bits(a), private |-> TRUE]
    /\ \A a \in Kw : AesKey(Kw, Bits(a)) = [crv |-> "", alg |-> a, bits |-> Bits(a), private |-> TRUE]
<1>1. /\ Bits("A128GCM") = 128 /\ Bits("A192GCM") = 192 /\ Bits("A256GCM") = 256
      /\ Bits("A128KW") = 128 /\ Bits("A192KW") = 192 /\ Bits("A256KW") = 256
  BY DEF Bits
<1>2. ASSUME NEW a \in Gcm
      PROVE  (CHOOSE n \in Gcm : Bits(n) = Bits(a)) = a
  <2>1. \A n \in Gcm : Bits(n) = Bits(a) => n = a
    BY <1>1 DEF Gcm
  <2> QED
    BY <2>1
<1>3. ASSUME NEW a \in Kw
      PROVE  (CHOOSE n \in Kw : Bits(n) = Bits(a)) = a
  <2>1. \A n \in Kw : Bits(n) = Bits(a) => n = a
    BY <1>1 DEF Kw
  <2> QED
    BY <2>1
<1> QED
  BY <1>2, <1>3 DEF AesKey

LEMMA EllipticKeys ==
    ASSUME NEW a \in DOMAIN Generates, NEW key \in KeysFor(a)
    PROVE  /\ key = [crv |-> key.crv, alg |-> key.alg, bits |-> 0, private |-> key.private]
           /\ key.private \in BOOLEAN
           /\ key.alg \in {Generates[a].alg, "EdDSA", ""}
           /\ a = "Ed25519" => key.crv = "Ed25519" /\ key.alg \in {"EdDSA", ""}
           /\ a \in {"ES256K", "secp256k1"} =>
                 key.crv = "secp256k1" /\ key.alg \in {"ES256K", "EdDSA", ""}
           /\ a \in {"ES256", "secp256r1"} =>
                 key.crv = "P-256" /\ key.alg \in {"ES256", "EdDSA", ""}
<1>1. key \in [crv : {Generates[a].crv}, alg : {Generates[a].alg, "EdDSA", ""},
               bits : {0}, private : BOOLEAN]
  BY DEF KeysFor
<1>2. /\ key.crv = Generates[a].crv /\ key.alg \in {Generates[a].alg, "EdDSA", ""}
      /\ key.private \in BOOLEAN
  BY <1>1
<1>3. key = [crv |-> key.crv, alg |-> key.alg, bits |-> 0, private |-> key.private]
  BY <1>1
<1>4. a = "Ed25519" => Generates[a].crv = "Ed25519" /\ Generates[a].alg = "EdDSA"
  BY KeysGenerated DEF Jwk
<1>5. a \in {"ES256K", "secp256k1"} =>
         Generates[a].crv = "secp256k1" /\ Generates[a].alg = "ES256K"
  BY KeysGenerated DEF Jwk
<1>6. a \in {"ES256", "secp256r1"} => Generates[a].crv = "P-256" /\ Generates[a].alg = "ES256"
  BY KeysGenerated DEF Jwk
<1> QED
  BY <1>2, <1>3, <1>4, <1>5, <1>6

LEMMA SymmetricKeys ==
    ASSUME NEW a \in Gcm \cup Kw, NEW key \in KeysFor(a)
    PROVE  key = [crv |-> "", alg |-> a, bits |-> Bits(a), private |-> TRUE]
BY Algorithms DEF KeysFor

LEMMA Offers ==
    /\ Supports["LocalKeyManager"] = Signing \cup {"SHA-256"}
    /\ Supports["AgentKeyManager"] = Signing \cup {"AES-GCM", "AES-KW", "SHA-256"}
    /\ Supports["AgentCryptoApi"] =
          Signing \cup {"AES-GCM", "AES-KW", "HKDF", "PBKDF2", "SHA-256"}
    /\ Supports["AwsKeyManager"] = {"secp256k1", "SHA-256"}
BY DEF Supports

\* AgentCryptoApi has all of them.
LEMMA ApiHasAll ==
    \A name \in Signing \cup {"AES-GCM", "AES-KW", "HKDF", "PBKDF2", "SHA-256"} :
        Only("AgentCryptoApi", name) = name
BY Offers DEF Only

LEMMA EntryOf ==
    /\ AlgorithmName("AgentCryptoApi", "Ed25519", "") = "Ed25519"
    /\ \A a \in {"ES256K", "secp256k1"} : AlgorithmName("AgentCryptoApi", a, "") = "secp256k1"
    /\ \A a \in {"ES256", "secp256r1"} : AlgorithmName("AgentCryptoApi", a, "") = "secp256r1"
    /\ \A a \in Gcm : AlgorithmName("AgentCryptoApi", a, "") = "AES-GCM"
    /\ \A a \in Kw : AlgorithmName("AgentCryptoApi", a, "") = "AES-KW"
    /\ \A a \in Hkdf : AlgorithmName("AgentCryptoApi", a, "") = "HKDF"
    /\ \A a \in Pbes2 : AlgorithmName("AgentCryptoApi", a, "") = "PBKDF2"
BY AskedNames, ApiHasAll DEF Signing

\* A key that some manager generates is one it was asked for.
LEMMA GeneratedKeys ==
    ASSUME NEW m \in DOMAIN Supports, NEW a \in Asked, NEW key \in GenerateKey(m, a)
    PROVE  a \in Kinds /\ key \in KeysFor(a)
<1> DEFINE name == CASE m = "LocalKeyManager" ->
                            IF a \in Supports[m] THEN a ELSE "none"
                     [] m = "AwsKeyManager" ->
                            IF a = "ES256K" THEN "secp256k1" ELSE "none"
                     [] OTHER -> AlgorithmName(m, a, "")
<1>1. key \in CASE name \in Signing -> {Generates[a]}
                [] name = "AES-GCM" -> {AesKey(Gcm, Bits(a))}
                [] name = "AES-KW" -> {AesKey(Kw, Bits(a))}
                [] OTHER -> {}
  BY DEF GenerateKey
<1>2. /\ a \in Gcm => name \notin Signing \cup {"AES-KW"}
      /\ a \in Kw => name \notin Signing \cup {"AES-GCM"}
      /\ a \in DOMAIN Generates => name \notin {"AES-GCM", "AES-KW"}
      /\ a = "SHA-256" => name \notin Signing \cup {"AES-GCM", "AES-KW"}
  <2>1. CASE m = "LocalKeyManager"
    BY <2>1, Offers, Algorithms DEF Signing, Gcm, Kw
  <2>2. CASE m = "AwsKeyManager"
    BY <2>2, Offers, Algorithms DEF Signing, Gcm, Kw
  <2>3. CASE m \notin {"LocalKeyManager", "AwsKeyManager"}
    <3>1. name = AlgorithmName(m, a, "")
      BY <2>3
    <3>2. /\ a \in Gcm => name \in {"AES-GCM", "none"}
          /\ a \in Kw => name \in {"AES-KW", "none"}
          /\ a \in DOMAIN Generates => name \in {"Ed25519", "secp256k1", "secp256r1", "none"}
          /\ a = "SHA-256" => name \in {"SHA-256", "none"}
      <4>1. a \in Gcm => name \in {"AES-GCM", "none"}
        BY <3>1, AskedNames DEF Only
      <4>2. a \in Kw => name \in {"AES-KW", "none"}
        BY <3>1, AskedNames DEF Only
      <4>3. a \in DOMAIN Generates => name \in {"Ed25519", "secp256k1", "secp256r1", "none"}
        <5>1. a = "Ed25519" => name \in {"Ed25519", "none"}
          BY <3>1, AskedNames DEF Only
        <5>2. a \in {"ES256K", "secp256k1"} => name \in {"secp256k1", "none"}
          BY <3>1, AskedNames DEF Only
        <5>3. a \in {"ES256", "secp256r1"} => name \in {"secp256r1", "none"}
          BY <3>1, AskedNames DEF Only
        <5> HIDE DEF name
        <5> QED
          BY <5>1, <5>2, <5>3, Algorithms
      <4>4. a = "SHA-256" => name \in {"SHA-256", "none"}
        BY <3>1, AskedNames DEF Only
      <4> HIDE DEF name
      <4> QED
        BY <4>1, <4>2, <4>3, <4>4
    <3> QED
      BY <3>2 DEF Signing
  <2> QED
    BY <2>1, <2>2, <2>3
<1> HIDE DEF name
<1>3. CASE a \in Gcm
  <2>1. key = AesKey(Gcm, Bits(a))
    BY <1>1, <1>2, <1>3
  <2>2. key = [crv |-> "", alg |-> a, bits |-> Bits(a), private |-> TRUE]
    BY <1>3, <2>1, AesNames
  <2>3. KeysFor(a) = [crv : {""}, alg : {a}, bits : {Bits(a)}, private : {TRUE}]
    BY <1>3, Algorithms DEF KeysFor
  <2> QED
    BY <1>3, <2>2, <2>3 DEF Kinds
<1>4. CASE a \in Kw
  <2>1. key = AesKey(Kw, Bits(a))
    BY <1>1, <1>2, <1>4
  <2>2. key = [crv |-> "", alg |-> a, bits |-> Bits(a), private |-> TRUE]
    BY <1>4, <2>1, AesNames
  <2>3. KeysFor(a) = [crv : {""}, alg : {a}, bits : {Bits(a)}, private : {TRUE}]
    BY <1>4, Algorithms DEF KeysFor
  <2> QED
    BY <1>4, <2>2, <2>3 DEF Kinds
<1>5. CASE a \in DOMAIN Generates
  <2>1. key = Generates[a]
    BY <1>1, <1>2, <1>5
  <2>2. Generates[a] = Jwk(Generates[a].crv, Generates[a].alg, TRUE)
    <3>1. ASSUME NEW k, NEW crv, NEW alg, k = Jwk(crv, alg, TRUE)
          PROVE  k = Jwk(k.crv, k.alg, TRUE)
      BY <3>1 DEF Jwk
    <3>2. \E crv, alg : Generates[a] = Jwk(crv, alg, TRUE)
      BY <1>5, KeysGenerated, Algorithms
    <3> QED
      BY <3>1, <3>2
  <2>3. KeysFor(a) = [crv : {Generates[a].crv}, alg : {Generates[a].alg, "EdDSA", ""},
                      bits : {0}, private : BOOLEAN]
    BY <1>5 DEF KeysFor
  <2> QED
    BY <1>5, <2>1, <2>2, <2>3 DEF Jwk, Kinds
<1>6. CASE a = "SHA-256"
  BY <1>1, <1>2, <1>6
<1> QED
  BY <1>3, <1>4, <1>5, <1>6 DEF Asked

LEMMA EllipticForm ==
    ASSUME NEW a \in DOMAIN Generates, NEW alg \in {Generates[a].alg, "EdDSA", ""},
           NEW private \in BOOLEAN
    PROVE  [crv |-> Generates[a].crv, alg |-> alg, bits |-> 0, private |-> private] \in KeysFor(a)
BY DEF KeysFor

\* Whatever becomes of a key, it is a key of its algorithm.
LEMMA ChangesKeepKind ==
    ASSUME NEW a \in Kinds, NEW key \in KeysFor(a), NEW next \in Changed(a, key)
    PROVE  next \in KeysFor(a)
<1>1. CASE a \in Gcm \cup Kw
  <2>1. key = [crv |-> "", alg |-> a, bits |-> Bits(a), private |-> TRUE]
    BY <1>1, SymmetricKeys
  <2>2. key.crv = "" /\ key.bits = Bits(a) /\ key.alg = a
    BY <2>1
  <2>3. \A x \in FromBytes(a, key) : x = key
    <3>1. CASE a \in Gcm
      <4>1. FromBytes(a, key) = {AesKey(Gcm, key.bits)}
        BY <3>1, Algorithms DEF FromBytes
      <4> QED
        BY <2>1, <2>2, <3>1, <4>1, AesNames
    <3>2. CASE a \in Kw
      <4>1. FromBytes(a, key) = {AesKey(Kw, key.bits)}
        BY <3>2, Algorithms DEF FromBytes
      <4> QED
        BY <2>1, <2>2, <3>2, <4>1, AesNames
    <3> QED
      BY <1>1, <3>1, <3>2
  <2>4. \A x \in Convert(a, key) : x = key
    BY <2>3 DEF Convert
  <2>5. \A by : \A x \in Wrap(by, key, a) : x = key
    <3>1. CASE a \in Gcm
      BY <2>1, <2>2, <3>1, AesNames, Algorithms DEF Wrap
    <3>2. CASE a \in Kw
      BY <2>1, <2>2, <3>2, AesNames, Algorithms DEF Wrap
    <3> QED
      BY <1>1, <3>1, <3>2
  <2>6. GetPublicKey("AgentCryptoApi", key) = {}
    <3>1. AlgorithmName("AgentCryptoApi", a, "") \notin Signing
      BY <1>1, EntryOf DEF Signing
    <3> QED
      BY <2>2, <3>1 DEF GetPublicKey
  <2>7. next \in Convert(a, key) \/ \E by : next \in Wrap(by, key, a)
    BY <2>2, <2>6 DEF Changed
  <2> QED
    BY <2>4, <2>5, <2>7
<1>2. CASE a \in DOMAIN Generates
  <2>1. /\ key = [crv |-> key.crv, alg |-> key.alg, bits |-> 0, private |-> key.private]
        /\ key.private \in BOOLEAN /\ key.crv = Generates[a].crv
        /\ key.alg \in {Generates[a].alg, "EdDSA", ""}
        /\ Generates[a].alg \notin Gcm \cup Kw
    <3>1. key.crv = Generates[a].crv
      BY <1>2 DEF KeysFor
    <3>2. Generates[a].alg \in {"EdDSA", "ES256K", "ES256"}
      BY <1>2, KeysGenerated, Algorithms DEF Jwk
    <3> QED
      BY <1>2, <3>1, <3>2, EllipticKeys DEF Gcm, Kw
  <2>2. ASSUME NEW x, NEW alg \in {Generates[a].alg, "EdDSA", ""}, NEW private \in BOOLEAN,
               x = Jwk(Generates[a].crv, alg, private)
        PROVE  x \in KeysFor(a)
    BY <1>2, <2>2, EllipticForm DEF Jwk
  <2>3. ASSUME NEW x \in Convert(a, key)
        PROVE  x = Jwk(Generates[a].crv, "EdDSA", key.private)
    <3>1. x \in FromBytes(a, key)
      BY DEF Convert
    <3>2. a = "Ed25519" => x = Jwk("Ed25519", "EdDSA", key.private)
      BY <3>1 DEF FromBytes, Gcm, Kw
    <3>3. a \in {"ES256K", "secp256k1"} => x = Jwk("secp256k1", "EdDSA", key.private)
      BY <3>1 DEF FromBytes, Gcm, Kw
    <3>4. a \in {"ES256", "secp256r1"} => x = Jwk("P-256", "EdDSA", key.private)
      BY <3>1 DEF FromBytes, Gcm, Kw
    <3>5. /\ a = "Ed25519" => Generates[a].crv = "Ed25519"
          /\ a \in {"ES256K", "secp256k1"} => Generates[a].crv = "secp256k1"
          /\ a \in {"ES256", "secp256r1"} => Generates[a].crv = "P-256"
      BY KeysGenerated DEF Jwk
    <3> QED
      BY <1>2, <3>2, <3>3, <3>4, <3>5, Algorithms
  <2>4. \A by : Wrap(by, key, a) = {}
    <3>1. key.alg \notin Gcm \cup Kw
      BY <2>1 DEF Gcm, Kw
    <3> QED
      BY <3>1 DEF Wrap
  <2>5. ASSUME NEW x \in GetPublicKey("AgentCryptoApi", key)
        PROVE  x = Jwk(Generates[a].crv, Generates[a].alg, FALSE)
    <3>1. a = "Ed25519" => Generates[a].crv = "Ed25519" /\ Generates[a].alg = "EdDSA"
      BY KeysGenerated DEF Jwk
    <3>2. a \in {"ES256K", "secp256k1"} =>
             Generates[a].crv = "secp256k1" /\ Generates[a].alg = "ES256K"
      BY KeysGenerated DEF Jwk
    <3>3. a \in {"ES256", "secp256r1"} => Generates[a].crv = "P-256" /\ Generates[a].alg = "ES256"
      BY KeysGenerated DEF Jwk
    <3>4. x \in CASE key.crv = "Ed25519" -> {Jwk(key.crv, "EdDSA", FALSE)}
                  [] key.crv = "secp256k1" -> {Jwk(key.crv, "ES256K", FALSE)}
                  [] key.crv = "P-256" -> {Jwk(key.crv, "ES256", FALSE)}
                  [] OTHER -> {}
      BY DEF GetPublicKey
    <3> QED
      BY <1>2, <2>1, <3>1, <3>2, <3>3, <3>4, Algorithms
  <2>6. ASSUME NEW x \in Published(key)
        PROVE  x = Jwk(Generates[a].crv, "", FALSE)
    <3>1. PICK crv, alg, private : key = Jwk(crv, alg, private)
      BY <2>1 DEF Jwk
    <3>2. x = Jwk(crv, "", FALSE) /\ key.crv = crv
      BY <3>1 DEF Published, Jwk
    <3> QED
      BY <2>1, <3>2
  <2>7. \/ next \in Convert(a, key) \/ next \in GetPublicKey("AgentCryptoApi", key)
        \/ next \in Published(key)
    <3>1. \/ next \in Convert(a, key) \/ next \in GetPublicKey("AgentCryptoApi", key)
          \/ next \in Published(key) \/ \E by : next \in Wrap(by, key, a)
      <4> DEFINE wrapped == {Wrap(by, key, a) : by \in GenerateKey("AgentCryptoApi", "A256KW")}
      <4>1. next \in Convert(a, key) \cup (UNION wrapped) \cup GetPublicKey("AgentCryptoApi", key)
                     \cup (IF key.crv = "" THEN {} ELSE Published(key))
        BY DEF Changed
      <4>2. next \in UNION wrapped => \E by : next \in Wrap(by, key, a)
        OBVIOUS
      <4> HIDE DEF wrapped
      <4> DEFINE converted == Convert(a, key)
                 any == UNION wrapped
                 public == GetPublicKey("AgentCryptoApi", key)
                 published == Published(key)
      <4>3. next \in converted \cup any \cup public \cup (IF key.crv = "" THEN {} ELSE published)
        BY <4>1, Zenon
      <4> HIDE DEF converted, any, public, published
      <4>4. next \in converted \/ next \in any \/ next \in public \/ next \in published
        BY <4>3
      <4> QED
        BY <4>2, <4>4 DEF converted, any, public, published
    <3> QED
      BY <2>4, <3>1
  <2> QED
    <3>1. CASE next \in Convert(a, key)
      BY <2>1, <2>2, <2>3, <3>1
    <3>2. CASE next \in GetPublicKey("AgentCryptoApi", key)
      BY <2>2, <2>5, <3>2
    <3>3. CASE next \in Published(key)
      BY <2>2, <2>6, <3>3
    <3> QED
      BY <2>7, <3>1, <3>2, <3>3
<1> QED
  BY <1>1, <1>2 DEF Kinds

\* ... and every manager that has its algorithm picks it.
LEMMA KeepsKind ==
    ASSUME NEW m, NEW a \in Kinds, NEW key \in KeysFor(a)
    PROVE  KeepsAlgorithm(Life(m, a, key))
<1> DEFINE entry == AlgorithmName("AgentCryptoApi", a, "")
<1> SUFFICES
       /\ \A manager \in DOMAIN Supports :
              entry \in Supports[manager] /\ ~(key.crv = "P-256" /\ key.alg # "ES256")
                  => AlgorithmName(manager, key.alg, key.crv) = entry
       /\ entry \in Signing /\ ~(key.crv # "Ed25519" /\ key.alg = "EdDSA")
              => JoseAlgorithm(key) = {Generates[a].alg}
       /\ entry \notin Signing => key.alg = a
  BY DEF KeepsAlgorithm, Life
<1>1. ASSUME NEW c \in DOMAIN JoseNames
      PROVE  key.alg = JoseNames[c] \/ (key.alg = "" /\ key.crv = c) => JoseAlgorithm(key) = {JoseNames[c]}
  BY DEF JoseAlgorithm, JoseNames
<1>2. JoseNames["Ed25519"] = "EdDSA" /\ JoseNames["P-256"] = "ES256" /\ JoseNames["secp256k1"] = "ES256K"
  BY DEF JoseNames
<1>3. CASE a = "Ed25519"
  <2>1. entry = "Ed25519" /\ Generates[a].alg = "EdDSA" /\ key.crv = "Ed25519" /\ key.alg \in {"EdDSA", ""}
    <3>1. entry = "Ed25519"
      BY <1>3, EntryOf
    <3>2. Generates[a].alg = "EdDSA"
      BY <1>3, KeysGenerated DEF Jwk
    <3>3. a \in DOMAIN Generates
      BY <1>3, Algorithms
    <3> HIDE DEF entry
    <3> QED
      BY <1>3, <3>1, <3>2, <3>3, EllipticKeys
  <2>2. \A manager : "Ed25519" \in Supports[manager] => AlgorithmName(manager, key.alg, "Ed25519") = "Ed25519"
    BY <2>1, KeyNames DEF Only
  <2>3. JoseAlgorithm(key) = {"EdDSA"}
    BY <1>1, <1>2, <2>1, Algorithms
  <2> QED
    BY <2>1, <2>2, <2>3 DEF Signing
<1>4. CASE a \in {"ES256K", "secp256k1"}
  <2>1. /\ entry = "secp256k1" /\ Generates[a].alg = "ES256K" /\ key.crv = "secp256k1"
        /\ key.alg \in {"ES256K", "EdDSA", ""}
    <3>1. entry = "secp256k1"
      BY <1>4, EntryOf
    <3>2. Generates[a].alg = "ES256K"
      BY <1>4, KeysGenerated DEF Jwk
    <3>3. a \in DOMAIN Generates
      BY <1>4, Algorithms
    <3> HIDE DEF entry
    <3> QED
      BY <1>4, <3>1, <3>2, <3>3, EllipticKeys
  <2>2. \A manager : "secp256k1" \in Supports[manager] =>
           AlgorithmName(manager, key.alg, "secp256k1") = "secp256k1"
    BY <2>1, KeyNames DEF Only
  <2>3. key.alg # "EdDSA" => JoseAlgorithm(key) = {"ES256K"}
    BY <1>1, <1>2, <2>1, Algorithms
  <2> QED
    BY <2>1, <2>2, <2>3 DEF Signing
<1>5. CASE a \in {"ES256", "secp256r1"}
  <2>1. /\ entry = "secp256r1" /\ Generates[a].alg = "ES256" /\ key.crv = "P-256"
        /\ key.alg \in {"ES256", "EdDSA", ""}
    <3>1. entry = "secp256r1"
      BY <1>5, EntryOf
    <3>2. Generates[a].alg = "ES256"
      BY <1>5, KeysGenerated DEF Jwk
    <3>3. a \in DOMAIN Generates
      BY <1>5, Algorithms
    <3> HIDE DEF entry
    <3> QED
      BY <1>5, <3>1, <3>2, <3>3, EllipticKeys
  <2>2. \A manager : "secp256r1" \in Supports[manager] =>
           AlgorithmName(manager, "ES256", "P-256") = "secp256r1"
    BY KeyNames DEF Only
  <2>3. key.alg # "EdDSA" => JoseAlgorithm(key) = {"ES256"}
    BY <1>1, <1>2, <2>1, Algorithms
  <2> QED
    BY <2>1, <2>2, <2>3 DEF Signing
<1>6. CASE a \in Gcm \cup Kw
  <2>1. key.alg = a /\ key.crv = ""
    <3>1. key = [crv |-> "", alg |-> a, bits |-> Bits(a), private |-> TRUE]
      BY <1>6, SymmetricKeys
    <3> QED
      BY <3>1
  <2>2. a \in Gcm => entry = "AES-GCM"
    BY EntryOf
  <2>3. a \in Kw => entry = "AES-KW"
    BY EntryOf
  <2>4. \A manager : entry \in Supports[manager] => AlgorithmName(manager, a, "") = entry
    <3>1. \A manager : a \in Gcm /\ "AES-GCM" \in Supports[manager] => AlgorithmName(manager, a, "") = "AES-GCM"
      BY AskedNames DEF Only
    <3>2. \A manager : a \in Kw /\ "AES-KW" \in Supports[manager] => AlgorithmName(manager, a, "") = "AES-KW"
      BY AskedNames DEF Only
    <3> HIDE DEF entry
    <3>3. CASE a \in Gcm
      BY <2>2, <3>1, <3>3
    <3>4. CASE a \in Kw
      BY <2>3, <3>2, <3>4
    <3> QED
      BY <1>6, <3>3, <3>4
  <2> HIDE DEF entry
  <2> QED
    BY <1>6, <2>1, <2>2, <2>3, <2>4 DEF Signing
<1> QED
  BY <1>3, <1>4, <1>5, <1>6, Algorithms DEF Kinds

\* What is derived is what was asked for.
LEMMA DerivedKind ==
    ASSUME NEW k \in Hkdf \cup Pbes2, NEW d \in Gcm \cup Kw
    PROVE  DerivesAsAsked(k, d)
<1> DEFINE as == CASE k = "PBES2-HS256+A128KW" -> "A128KW"
                   [] k = "PBES2-HS384+A192KW" -> "A192KW"
                   [] k = "PBES2-HS512+A256KW" -> "A256KW"
                   [] OTHER -> d
           asked == CASE k \in Hkdf -> d
                      [] k = "PBES2-HS256+A128KW" -> "A128KW"
                      [] k = "PBES2-HS384+A192KW" -> "A192KW"
                      [] OTHER -> "A256KW"
<1>1. as = asked /\ as \in Gcm \cup Kw
  BY DEF Hkdf, Pbes2, Gcm, Kw
<1> HIDE DEF as, asked
<1>2. ASSUME NEW key \in DeriveKey(k, d)
      PROVE  key.alg = as
  <2>1. key \in FromBytes(as, AesKey(Gcm, Bits(as)))
    BY DEF DeriveKey, as
  <2> DEFINE bytes == AesKey(Gcm, Bits(as))
  <2>2. bytes.bits = Bits(as) /\ key \in FromBytes(as, bytes)
    BY <2>1 DEF AesKey
  <2> HIDE DEF bytes
  <2>3. CASE as \in Gcm
    <3>1. key = AesKey(Gcm, Bits(as))
      BY <2>2, <2>3, Algorithms DEF FromBytes
    <3>2. key = [crv |-> "", alg |-> as, bits |-> Bits(as), private |-> TRUE]
      BY <2>3, <3>1, AesNames
    <3> QED
      BY <3>2
  <2>4. CASE as \in Kw
    <3>1. key = AesKey(Kw, Bits(as))
      BY <2>2, <2>4, Algorithms DEF FromBytes
    <3>2. key = [crv |-> "", alg |-> as, bits |-> Bits(as), private |-> TRUE]
      BY <2>4, <3>1, AesNames
    <3> QED
      BY <3>2
  <2> QED
    BY <1>1, <2>3, <2>4
<1> QED
  BY <1>1, <1>2 DEF DerivesAsAsked, asked

-----------------------------------------------------------------------------
(* KeysKeepAlgorithm *)

LEMMA InitLives == MCInit => LifeHolds /\ DerivesHold
<1> SUFFICES ASSUME Sampled PROVE LifeHolds /\ DerivesHold
  BY DEF MCInit
<1>1. LifeHolds
  <2> SUFFICES ASSUME sample.of = "life"
               PROVE  \E m \in DOMAIN Supports, a \in Kinds : \E key \in KeysFor(a) :
                         sample = Sample("life", Life(m, a, key))
    BY DEF LifeHolds
  <2>1. \E l \in Lives : sample = Sample("life", l)
    BY DEF Sampled, Sample
  <2> QED
    BY <2>1, GeneratedKeys DEF Lives
<1>2. DerivesHold
  BY DEF DerivesHold, Sampled, Sample
<1> QED
  BY <1>1, <1>2

LEMMA NextLives ==
    LifeHolds /\ DerivesHold /\ [MCNext]_<<vars, sample>> => (LifeHolds /\ DerivesHold)'
<1> SUFFICES ASSUME LifeHolds, DerivesHold, [MCNext]_<<vars, sample>>
             PROVE  (LifeHolds /\ DerivesHold)'
  OBVIOUS
<1>1. CASE sample' = sample
  BY <1>1 DEF LifeHolds, DerivesHold
<1>2. CASE Changes
  <2>1. PICK m \in DOMAIN Supports, a \in Kinds : \E key \in KeysFor(a) :
           sample = Sample("life", Life(m, a, key))
    BY <1>2 DEF LifeHolds, Changes
  <2>2. PICK key \in KeysFor(a) : sample = Sample("life", Life(m, a, key))
    BY <2>1
  <2>3. PICK next \in Changed(a, key) : sample' = Sample("life", Life(m, a, next))
    BY <1>2, <2>2 DEF Changes, Sample, Life
  <2>4. next \in KeysFor(a)
    BY ChangesKeepKind
  <2> QED
    BY <2>3, <2>4 DEF LifeHolds, DerivesHold, Sample
<1> QED
  BY <1>1, <1>2 DEF MCNext

\* Whatever becomes of a key, however often it is converted, wrapped, published
\* or made public, every manager that has its algorithm picks that algorithm for
\* it, and a derived key is for the algorithm asked for (crypto-api.ts 245-452,
\* local-key-manager.ts 624-643, aes-kw.ts 158-270, ecdsa.ts 48-96).
THEOREM KeysKeepAlgorithmHolds == MCSpec => []KeysKeepAlgorithm
<1>1. LifeHolds /\ DerivesHold => KeysKeepAlgorithm
  BY KeepsKind, DerivedKind DEF LifeHolds, DerivesHold, KeysKeepAlgorithm, Sample
<1> QED
  BY <1>1, InitLives, NextLives, PTL DEF MCSpec
-----------------------------------------------------------------------------
(* Credentials: they hold as issued *)

AnyDate == [at : Nat, form : {"none", "text", "xml", "rfc3339"}]

\* Who of the signers can sign.
LEMMA Signs ==
    ASSUME NEW signer \in V!Signers, NEW payload, NEW now
    PROVE  V!VerifiesJwt(V!SignJwt(signer, payload), now)
              <=> signer \in V!Trusted /\ ~V!Expired(payload, now)
<1> DEFINE jwt == V!SignJwt(signer, payload)
           kid == IF signer.id[1] = "" THEN <<signer.uri, signer.id[2]>> ELSE signer.id
<1>1. /\ jwt.shape = "whole" /\ jwt.payload = payload
      /\ jwt.header = [alg |-> signer.algorithm, kid |-> kid]
      /\ jwt.signature = <<signer.key, jwt.header, jwt.payload>>
  BY DEF V!SignJwt, V!Jwt
<1> HIDE DEF jwt
<1>2. jwt.header.alg = signer.algorithm /\ jwt.header.kid = kid
  <2> HIDE DEF kid
  <2> QED
    BY <1>1
<1>3. ASSUME NEW uri, NEW id1, NEW id2, NEW key, NEW alg, signer = V!Signer(uri, <<id1, id2>>, key, alg)
      PROVE  /\ id1 = "" => kid = <<uri, id2>>
             /\ id1 # "" => kid = <<id1, id2>>
             /\ signer.key = key /\ signer.algorithm = alg
  <2>1. signer.uri = uri /\ signer.id = <<id1, id2>> /\ signer.key = key /\ signer.algorithm = alg
    BY <1>3 DEF V!Signer
  <2>2. signer.id[1] = id1 /\ signer.id[2] = id2
    BY <2>1
  <2>3. id1 = "" => kid = <<uri, id2>>
    BY <2>1, <2>2
  <2>4. id1 # "" => kid = <<id1, id2>>
    BY <2>1, <2>2
  <2> QED
    BY <2>1, <2>3, <2>4
<1> HIDE DEF kid
<1>4. /\ DOMAIN V!World = {<<"di", "#0">>, <<"dj", "#0">>, <<"dj", "#svc">>, <<"dj", "#hex">>}
      /\ V!World[<<"di", "#0">>] = [is |-> "method", key |-> "ki", alg |-> "EdDSA"]
      /\ V!World[<<"dj", "#0">>] = [is |-> "method", key |-> "kj", alg |-> ""]
      /\ V!World[<<"dj", "#svc">>] = [is |-> "service"]
      /\ V!World[<<"dj", "#hex">>] = [is |-> "method", key |-> "", alg |-> ""]
  BY DEF V!World, V!Method
\* What a signature needs.
<1> DEFINE method == V!World[kid]
           Good == /\ signer.algorithm # "" /\ kid[2] # ""
                   /\ kid \in DOMAIN V!World /\ method.is = "method"
                   /\ method.key # ""
                   /\ method.alg # "" => method.alg = signer.algorithm
                   /\ method.key = signer.key
<1>5. V!VerifiesJwt(V!SignJwt(signer, payload), now) <=> Good /\ ~V!Expired(payload, now)
  <2>1. jwt.signature = <<V!World[kid].key, jwt.header, jwt.payload>>
           <=> V!World[kid].key = signer.key
    BY <1>1
  <2> QED
    BY <1>1, <1>2, <2>1 DEF V!VerifiesJwt, V!Parses, jwt
<1> HIDE DEF Good, method
<1>6. CASE signer = V!Signer("di", <<"", "#0">>, "ki", "EdDSA")
  <2>1. kid = <<"di", "#0">> /\ signer.key = "ki" /\ signer.algorithm = "EdDSA"
    BY <1>6, <1>3
  <2>2. kid \in DOMAIN V!World /\ kid[2] = "#0" /\ method = [is |-> "method", key |-> "ki", alg |-> "EdDSA"]
    BY <1>4, <2>1 DEF method
  <2>3. Good
    BY <2>1, <2>2 DEF Good
  <2>4. signer \in V!Trusted
    BY <1>6, <2>1 DEF V!Trusted, V!Signer
  <2> QED
    BY <1>5, <2>3, <2>4
<1>7. CASE signer = V!Signer("dj", <<"dj", "#0">>, "kj", "ES256K")
  <2>1. kid = <<"dj", "#0">> /\ signer.key = "kj" /\ signer.algorithm = "ES256K"
    BY <1>7, <1>3
  <2>2. kid \in DOMAIN V!World /\ kid[2] = "#0" /\ method = [is |-> "method", key |-> "kj", alg |-> ""]
    BY <1>4, <2>1 DEF method
  <2>3. Good
    <3>1. method.is = "method" /\ method.key = "kj" /\ method.alg = ""
      BY <2>2
    <3> QED
      BY <2>1, <2>2, <3>1 DEF Good
  <2>4. signer \in V!Trusted
    BY <1>7, <2>1 DEF V!Trusted, V!Signer
  <2> QED
    BY <1>5, <2>3, <2>4
<1>8. CASE signer = V!Signer("di", <<"di", "#0">>, "ki", "ES256")
  <2>1. kid = <<"di", "#0">> /\ signer.key = "ki" /\ signer.algorithm = "ES256"
    BY <1>8, <1>3
  <2>2. kid \in DOMAIN V!World /\ kid[2] = "#0" /\ method = [is |-> "method", key |-> "ki", alg |-> "EdDSA"]
    BY <1>4, <2>1 DEF method
  <2>3. ~Good
    BY <2>1, <2>2 DEF Good
  <2>4. signer \notin V!Trusted
    BY <1>8, <2>1 DEF V!Trusted, V!Signer
  <2> QED
    BY <1>5, <2>3, <2>4
<1>9. CASE signer = V!Signer("di", <<"", "#0">>, "kj", "EdDSA")
  <2>1. kid = <<"di", "#0">> /\ signer.key = "kj" /\ signer.algorithm = "EdDSA"
    BY <1>9, <1>3
  <2>2. kid \in DOMAIN V!World /\ kid[2] = "#0" /\ method = [is |-> "method", key |-> "ki", alg |-> "EdDSA"]
    BY <1>4, <2>1 DEF method
  <2>3. ~Good
    BY <2>1, <2>2 DEF Good
  <2>4. signer \notin V!Trusted
    BY <1>9, <2>1 DEF V!Trusted, V!Signer
  <2> QED
    BY <1>5, <2>3, <2>4
<1>10. CASE signer = V!Signer("dj", <<"", "#svc">>, "kj", "ES256K")
  <2>1. kid = <<"dj", "#svc">> /\ signer.key = "kj" /\ signer.algorithm = "ES256K"
    BY <1>10, <1>3
  <2>2. kid \in DOMAIN V!World /\ kid[2] = "#svc" /\ method = [is |-> "service"]
    BY <1>4, <2>1 DEF method
  <2>3. ~Good
    BY <2>1, <2>2 DEF Good
  <2>4. signer \notin V!Trusted
    BY <1>10, <2>1 DEF V!Trusted, V!Signer
  <2> QED
    BY <1>5, <2>3, <2>4
<1>11. CASE signer = V!Signer("dj", <<"", "#hex">>, "kj", "ES256K")
  <2>1. kid = <<"dj", "#hex">> /\ signer.key = "kj" /\ signer.algorithm = "ES256K"
    BY <1>11, <1>3
  <2>2. kid \in DOMAIN V!World /\ kid[2] = "#hex" /\ method = [is |-> "method", key |-> "", alg |-> ""]
    BY <1>4, <2>1 DEF method
  <2>3. ~Good
    <3>1. method.is = "method" /\ method.key = "" /\ method.alg = ""
      BY <2>2
    <3> QED
      BY <2>1, <2>2, <3>1 DEF Good
  <2>4. signer \notin V!Trusted
    BY <1>11, <2>1 DEF V!Trusted, V!Signer
  <2> QED
    BY <1>5, <2>3, <2>4
<1>12. CASE signer = V!Signer("dx", <<"", "#0">>, "ki", "EdDSA")
  <2>1. kid = <<"dx", "#0">> /\ signer.key = "ki" /\ signer.algorithm = "EdDSA"
    BY <1>12, <1>3
  <2>2. kid \notin DOMAIN V!World
    BY <1>4, <2>1
  <2>3. ~Good
    BY <2>1, <2>2 DEF Good
  <2>4. signer \notin V!Trusted
    BY <1>12, <2>1 DEF V!Trusted, V!Signer
  <2> QED
    BY <1>5, <2>3, <2>4
<1> QED
  BY <1>6, <1>7, <1>8, <1>9, <1>10, <1>11, <1>12 DEF V!Signers

\* A credential with other dates.
Vc(vc, from, to) ==
    [context |-> vc.context, type |-> vc.type, id |-> vc.id, issuer |-> vc.issuer,
     issuanceDate |-> from, subject |-> vc.subject, expirationDate |-> to,
     status |-> vc.status, schema |-> vc.schema]

\* The claims that sign() makes of a credential.
Claims(vc, uri) ==
    [has |-> "vc", body |-> vc, iss |-> uri, sub |-> vc.subject.ids[1], jti |-> vc.id,
     nbf |-> V!Seconds(vc.issuanceDate),
     exp |-> IF V!Dated(vc.expirationDate) THEN V!Seconds(vc.expirationDate) ELSE V!Absent]

\* What verify() asks of the claims beside their signature and their end.
Agrees(p, now) ==
    LET vc == p.body IN
    /\ V!Given(p.exp) /\ V!Dated(vc.expirationDate) => p.exp = V!Seconds(vc.expirationDate)
    /\ p.iss # "" /\ p.iss = vc.issuer
    /\ V!Given(p.nbf) => /\ p.nbf <= V!Now(now)
                         /\ V!Dated(vc.issuanceDate) => p.nbf = V!Seconds(vc.issuanceDate)
    /\ p.sub # "" /\ ~vc.subject.array => p.sub = vc.subject.ids[1]
    /\ p.jti # "" => p.jti = vc.id
    /\ V!ValidVc(V!Returned(p))
    /\ vc.schema # "" => V!Conforms(vc.schema)

\* A credential as create() makes it, its dates not wrongly written.
WellMade(vc) ==
    /\ vc = Vc(vc, vc.issuanceDate, vc.expirationDate)
    /\ V!Declares(vc, "VerifiableCredential")
    /\ ~vc.subject.array /\ vc.subject.ids[1] # "" /\ vc.id # ""
    /\ vc.issuanceDate \in [at : Nat, form : {"xml", "rfc3339"}]
    /\ vc.expirationDate \in [at : Nat, form : {"none", "xml", "rfc3339"}]

LEMMA Redated ==
    ASSUME NEW vc, vc = Vc(vc, vc.issuanceDate, vc.expirationDate), NEW from, NEW to,
           NEW new, new = [vc EXCEPT !.issuanceDate = from, !.expirationDate = to]
    PROVE  new = Vc(vc, from, to)
BY DEF Vc

LEMMA SignsVc ==
    ASSUME NEW signer \in V!Signers, NEW vc, NEW now
    PROVE  LET jwt == V!SignVc(vc, signer) IN
           /\ jwt = V!SignJwt(signer, Claims(vc, signer.uri))
           /\ jwt.payload = Claims(vc, signer.uri)
           /\ V!VerifiesVc(jwt, now) <=> /\ signer \in V!Trusted
                                         /\ ~V!Expired(Claims(vc, signer.uri), now)
                                         /\ Agrees(Claims(vc, signer.uri), now)
<1> DEFINE jwt == V!SignVc(vc, signer)
<1>1. jwt = V!SignJwt(signer, Claims(vc, signer.uri))
  BY DEF V!SignVc, Claims
<1>2. jwt.payload = Claims(vc, signer.uri)
  <2>1. ASSUME NEW payload
        PROVE  V!SignJwt(signer, payload).payload = payload
    BY DEF V!SignJwt, V!Jwt
  <2> QED
    BY <1>1, <2>1
<1>3. Claims(vc, signer.uri).has = "vc"
  BY DEF Claims
<1>4. V!VerifiesJwt(jwt, now) <=> signer \in V!Trusted /\ ~V!Expired(Claims(vc, signer.uri), now)
  BY <1>1, Signs
<1> HIDE DEF jwt
<1>5. V!VerifiesVc(jwt, now) <=> V!VerifiesJwt(jwt, now) /\ Agrees(Claims(vc, signer.uri), now)
  BY <1>2, <1>3 DEF V!VerifiesVc, Agrees
<1> QED
  BY <1>1, <1>2, <1>4, <1>5 DEF jwt

LEMMA ValidWhenMade ==
    ASSUME NEW vc, WellMade(vc)
    PROVE  V!ValidVc(vc)
<1>1. V!Valid(vc.issuanceDate) /\ V!Valid(vc.expirationDate)
  BY DEF WellMade, V!Valid
<1>2. ~V!EmptySubject(vc.subject)
  <2>1. V!One("", <<>>).ids[1] = ""
    BY DEF V!One
  <2> QED
    BY <2>1 DEF V!EmptySubject, WellMade
<1> QED
  BY <1>1, <1>2 DEF V!ValidVc, WellMade

\* What comes back of a credential, and what is made of it again.
LEMMA ComesBack ==
    ASSUME NEW vc, WellMade(vc), NEW uri
    PROVE  LET p == Claims(vc, uri)
               back == V!Returned(p) IN
           /\ p.nbf \in Nat /\ p.exp \in Nat \cup {-1}
           /\ \E from, to : back = Vc(vc, from, to)
           /\ WellMade(back) /\ V!ValidVc(back)
           /\ Claims(back, uri).nbf = p.nbf /\ Claims(back, uri).exp = p.exp
           /\ V!Returned(Claims(back, uri)) = back
<1> DEFINE p == Claims(vc, uri)
           back == V!Returned(p)
           from == IF V!Given(p.nbf) THEN V!Xml(p.nbf) ELSE vc.issuanceDate
           to == IF V!Given(p.exp) THEN V!Xml(p.exp) ELSE vc.expirationDate
<1>1. /\ p.body = vc /\ p.nbf = vc.issuanceDate.at \div 2
      /\ p.exp = IF vc.expirationDate.form = "none" THEN -1 ELSE vc.expirationDate.at \div 2
      /\ vc.issuanceDate.at \in Nat /\ vc.expirationDate.at \in Nat
  BY DEF Claims, WellMade, V!Seconds, V!Dated, V!Absent
<1>2. p.nbf \in Nat /\ p.exp \in Nat \cup {-1}
  BY <1>1
<1> HIDE DEF p
<1>3. back = Vc(vc, from, to)
  <2>1. back = [vc EXCEPT !.issuanceDate = from, !.expirationDate = to]
    BY <1>1 DEF V!Returned
  <2>2. vc = Vc(vc, vc.issuanceDate, vc.expirationDate)
    BY DEF WellMade
  <2> HIDE DEF from, to
  <2> QED
    BY <2>1, <2>2, Redated
<1>4. /\ from \in [at : Nat, form : {"xml", "rfc3339"}]
      /\ to \in [at : Nat, form : {"none", "xml", "rfc3339"}]
      /\ from.at \div 2 = p.nbf
      /\ (IF to.form = "none" THEN -1 ELSE to.at \div 2) = p.exp
  <2>1. from \in [at : Nat, form : {"xml", "rfc3339"}] /\ from.at \div 2 = p.nbf
    <3>1. vc.issuanceDate \in [at : Nat, form : {"xml", "rfc3339"}]
      BY DEF WellMade
    <3>2. CASE V!Given(p.nbf)
      <4>1. from = [at |-> 2 * p.nbf, form |-> "xml"]
        BY <3>2 DEF V!Xml, V!Date
      <4> QED
        BY <1>2, <4>1
    <3>3. CASE ~V!Given(p.nbf)
      <4>1. from = vc.issuanceDate
        BY <3>3
      <4> QED
        BY <1>1, <3>1, <4>1
    <3> QED
      BY <3>2, <3>3
  <2>2. /\ to \in [at : Nat, form : {"none", "xml", "rfc3339"}]
        /\ (IF to.form = "none" THEN -1 ELSE to.at \div 2) = p.exp
    <3>1. vc.expirationDate \in [at : Nat, form : {"none", "xml", "rfc3339"}]
      BY DEF WellMade
    <3>2. CASE V!Given(p.exp)
      <4>1. to = [at |-> 2 * p.exp, form |-> "xml"] /\ p.exp \in Nat
        BY <1>2, <3>2 DEF V!Xml, V!Date, V!Given
      <4>2. to.at = 2 * p.exp /\ to.form = "xml" /\ (2 * p.exp) \div 2 = p.exp
        BY <4>1
      <4> QED
        BY <4>1, <4>2
    <3>3. CASE ~V!Given(p.exp)
      <4>1. to = vc.expirationDate
        BY <3>3
      <4> QED
        BY <1>1, <3>1, <4>1
    <3> QED
      BY <3>2, <3>3
  <2> QED
    BY <2>1, <2>2
<1> HIDE DEF from, to
<1>5. /\ back.context = vc.context /\ back.type = vc.type /\ back.id = vc.id
      /\ back.issuer = vc.issuer /\ back.subject = vc.subject
      /\ back.issuanceDate = from /\ back.expirationDate = to
      /\ back = Vc(back, from, to)
  BY <1>3 DEF Vc
<1>6. WellMade(back)
  BY <1>4, <1>5 DEF WellMade, V!Declares
<1>7. V!ValidVc(back)
  BY <1>6, ValidWhenMade
<1>8. Claims(back, uri).nbf = p.nbf /\ Claims(back, uri).exp = p.exp /\ Claims(back, uri).body = back
  BY <1>4, <1>5 DEF Claims, V!Seconds, V!Dated, V!Absent
<1>9. V!Returned(Claims(back, uri)) = back
  <2>1. V!Returned(Claims(back, uri)) =
           [back EXCEPT !.issuanceDate = IF V!Given(p.nbf) THEN V!Xml(p.nbf) ELSE from,
                        !.expirationDate = IF V!Given(p.exp) THEN V!Xml(p.exp) ELSE to]
    BY <1>5, <1>8 DEF V!Returned
  <2>2. (V!Given(p.nbf) => from = V!Xml(p.nbf)) /\ (V!Given(p.exp) => to = V!Xml(p.exp))
    BY DEF from, to
  <2>3. [back EXCEPT !.issuanceDate = from, !.expirationDate = to] = back
    <3> HIDE DEF back
    <3>1. back = Vc(back, back.issuanceDate, back.expirationDate)
      BY <1>5
    <3>2. ASSUME NEW new, new = [back EXCEPT !.issuanceDate = from, !.expirationDate = to]
          PROVE  new = Vc(back, from, to)
      BY <3>1, <3>2, Redated
    <3>3. [back EXCEPT !.issuanceDate = from, !.expirationDate = to] = Vc(back, from, to)
      BY <3>2
    <3> QED
      BY <1>5, <3>3
  <2> QED
    BY <2>1, <2>2, <2>3
<1> HIDE DEF back
<1> QED
  BY <1>2, <1>3, <1>6, <1>7, <1>8, <1>9 DEF p, back

\* When a well-made credential is verified.
LEMMA AgreesWhen ==
    ASSUME NEW vc, WellMade(vc), NEW uri, NEW now \in Nat
    PROVE  Agrees(Claims(vc, uri), now)
              <=> /\ uri # "" /\ uri = vc.issuer
                  /\ Claims(vc, uri).nbf <= now \div 2
                  /\ vc.schema # "" => V!Conforms(vc.schema)
<1> DEFINE p == Claims(vc, uri)
<1>1. /\ p.body = vc /\ p.iss = uri /\ p.sub = vc.subject.ids[1] /\ p.jti = vc.id
      /\ p.nbf = V!Seconds(vc.issuanceDate)
      /\ V!Dated(vc.expirationDate) => p.exp = V!Seconds(vc.expirationDate)
  BY DEF Claims
<1>2. p.nbf \in Nat /\ V!ValidVc(V!Returned(p))
  BY ComesBack
<1>3. now \div 2 \in Nat
  OBVIOUS
<1> HIDE DEF p
<1>4. (V!Given(p.nbf) => p.nbf <= V!Now(now)) <=> p.nbf <= now \div 2
  BY <1>2, <1>3 DEF V!Given, V!Now
<1> QED
  BY <1>1, <1>2, <1>4 DEF Agrees, p

\* A credential of create() is well made.
LEMMA CreateMakes ==
    ASSUME NEW S, NEW o, V!Creates(o), o.type \in Seq(S), NEW now \in Nat,
           o.issuanceDate \in AnyDate, o.expirationDate \in AnyDate
    PROVE  LET vc == V!Create(o, now) IN
           /\ WellMade(vc) /\ vc.issuer = o.issuer /\ vc.schema = o.schema /\ vc.id = "urn"
           /\ vc.expirationDate = o.expirationDate
           /\ vc.issuanceDate.at \div 2 =
                 IF V!Dated(o.issuanceDate) THEN o.issuanceDate.at \div 2 ELSE now \div 2
<1> DEFINE vc == V!Create(o, now)
<1>1. /\ vc = Vc(vc, vc.issuanceDate, vc.expirationDate)
      /\ vc.context = IF o.status = [is |-> "null"] THEN <<"vc">> ELSE <<"vc", "status">>
      /\ vc.type = <<"VerifiableCredential">> \o o.type
      /\ vc.id = "urn" /\ vc.issuer = o.issuer /\ vc.schema = o.schema
      /\ vc.issuanceDate = IF V!Dated(o.issuanceDate) THEN o.issuanceDate ELSE V!Xml(V!Now(now))
      /\ vc.subject = V!One(IF o.data.id # "" THEN o.data.id ELSE o.subject, o.data.rest)
      /\ vc.expirationDate = o.expirationDate
  BY DEF V!Create, Vc
<1> HIDE DEF vc
<1>2. V!Declares(vc, "VerifiableCredential")
  <2>1. V!Contains(vc.context, "vc")
    <3>1. V!Contains(<<"vc">>, "vc") /\ V!Contains(<<"vc", "status">>, "vc")
      BY DEF V!Contains
    <3> QED
      BY <1>1, <3>1
  <2>2. V!Contains(vc.type, "VerifiableCredential")
    <3> DEFINE type == <<"VerifiableCredential">> \o o.type
    <3>1. Len(type) \in Nat \ {0} /\ type[1] = "VerifiableCredential"
      OBVIOUS
    <3>2. V!Contains(type, "VerifiableCredential")
      BY <3>1 DEF V!Contains
    <3> QED
      BY <1>1, <3>2
  <2> QED
    BY <2>1, <2>2 DEF V!Declares
<1>3. ~vc.subject.array /\ vc.subject.ids[1] # ""
  <2> DEFINE id == IF o.data.id # "" THEN o.data.id ELSE o.subject
  <2>1. id # ""
    BY DEF V!Creates
  <2> HIDE DEF id
  <2>2. vc.subject = [array |-> FALSE, ids |-> <<id>>, data |-> o.data.rest]
    BY <1>1 DEF V!One, id
  <2> DEFINE subject == vc.subject
  <2> HIDE DEF subject
  <2>3. subject.ids = <<id>> /\ ~subject.array
    BY <2>2 DEF subject
  <2> DEFINE ids == subject.ids
  <2> HIDE DEF ids
  <2>4. ids[1] = id
    BY <2>3 DEF ids
  <2> QED
    BY <2>1, <2>3, <2>4 DEF subject, ids
<1>4. /\ vc.issuanceDate \in [at : Nat, form : {"xml", "rfc3339"}]
      /\ vc.issuanceDate.at \div 2 =
            IF V!Dated(o.issuanceDate) THEN o.issuanceDate.at \div 2 ELSE now \div 2
  <2>1. CASE V!Dated(o.issuanceDate)
    <3>1. vc.issuanceDate = o.issuanceDate
      BY <1>1, <2>1
    <3>2. o.issuanceDate.form \in {"xml", "rfc3339"}
      BY <2>1 DEF V!Creates, V!Valid, V!Dated
    <3> QED
      BY <2>1, <3>1, <3>2 DEF AnyDate
  <2>2. CASE ~V!Dated(o.issuanceDate)
    <3>1. vc.issuanceDate = [at |-> 2 * (now \div 2), form |-> "xml"]
      BY <1>1, <2>2 DEF V!Xml, V!Date, V!Now
    <3>2. now \div 2 \in Nat /\ (2 * (now \div 2)) \div 2 = now \div 2
      OBVIOUS
    <3> QED
      BY <2>2, <3>1, <3>2
  <2> QED
    BY <2>1, <2>2
<1>5. vc.expirationDate \in [at : Nat, form : {"none", "xml", "rfc3339"}]
  BY <1>1 DEF AnyDate, V!Creates, V!Valid
<1> QED
  BY <1>1, <1>2, <1>3, <1>4, <1>5 DEF WellMade, vc

\* A JWT that was changed is not verified.
LEMMA Tampered ==
    ASSUME NEW signer \in V!Signers, NEW p, "jti" \in DOMAIN p, p.jti # "urn:other",
           NEW change \in V!Changes \ {"none"}, NEW now
    PROVE  ~V!VerifiesJwt(V!Changed(V!SignJwt(signer, p), change), now)
<1> DEFINE signed == V!SignJwt(signer, p)
           jwt == V!Changed(signed, change)
<1>1. PICK header : signed = [shape |-> "whole", header |-> header, payload |-> p,
                              signature |-> <<signer.key, header, p>>]
  BY DEF V!SignJwt, V!Jwt
<1>2. "alg" \in DOMAIN signed.header
  <2>1. \E alg, kid : signed.header = [alg |-> alg, kid |-> kid]
    BY DEF V!SignJwt, V!Jwt
  <2> QED
    BY <2>1
<1>3. signed.header = header /\ signed.payload = p
  BY <1>1
<1> HIDE DEF signed
<1>4. CASE change = "two parts"
  <2>1. jwt = [signed EXCEPT !.shape = "two parts"]
    BY <1>4 DEF V!Changed
  <2> HIDE DEF jwt
  <2>2. jwt.shape = "two parts"
    BY <1>1, <2>1
  <2> QED
    BY <2>2 DEF V!VerifiesJwt, V!Parses, jwt, signed
<1>5. CASE change = "header"
  <2>1. jwt = [signed EXCEPT !.header.alg = ""]
    BY <1>5 DEF V!Changed
  <2> HIDE DEF jwt
  <2>2. jwt.header = [signed.header EXCEPT !.alg = ""]
    BY <1>1, <2>1
  <2> DEFINE altered == jwt.header
  <2> HIDE DEF altered
  <2>3. altered.alg = ""
    BY <1>2, <2>2 DEF altered
  <2> QED
    BY <2>3 DEF V!VerifiesJwt, V!Parses, jwt, altered, signed
<1>6. CASE change = "payload"
  <2>1. jwt = [signed EXCEPT !.payload.jti = "urn:other"]
    BY <1>6 DEF V!Changed
  <2> HIDE DEF jwt
  <2>2. jwt.payload = [p EXCEPT !.jti = "urn:other"] /\ jwt.signature = <<signer.key, header, p>>
    BY <1>1, <2>1
  <2>3. jwt.payload # p
    <3>1. [p EXCEPT !.jti = "urn:other"].jti = "urn:other"
      OBVIOUS
    <3> QED
      BY <2>2, <3>1
  <2>4. V!VerifiesJwt(jwt, now) => \E key : jwt.signature = <<key, jwt.header, jwt.payload>>
    BY DEF V!VerifiesJwt
  <2>5. ~V!VerifiesJwt(jwt, now)
    BY <2>2, <2>3, <2>4
  <2> QED
    BY <2>5 DEF jwt, signed
<1>7. CASE change = "resigned"
  <2>1. jwt = V!Jwt(signed.header, signed.payload, "kx")
    BY <1>7 DEF V!Changed
  <2> HIDE DEF jwt
  <2>2. jwt.signature = <<"kx", header, p>>
    BY <1>3, <2>1 DEF V!Jwt
  <2>3. \A kid \in DOMAIN V!World : V!World[kid].is = "method" => V!World[kid].key # "kx"
    <3>1. DOMAIN V!World = {<<"di", "#0">>, <<"dj", "#0">>, <<"dj", "#svc">>, <<"dj", "#hex">>}
      BY DEF V!World
    <3>2. V!World[<<"di", "#0">>].key # "kx"
      BY DEF V!World, V!Method
    <3>3. V!World[<<"dj", "#0">>].key # "kx"
      BY DEF V!World, V!Method
    <3>4. V!World[<<"dj", "#svc">>].is # "method"
      BY DEF V!World, V!Method
    <3>5. V!World[<<"dj", "#hex">>].key # "kx"
      BY DEF V!World, V!Method
    <3> QED
      BY <3>1, <3>2, <3>3, <3>4, <3>5
  <2>4. V!VerifiesJwt(jwt, now) =>
           \E kid \in DOMAIN V!World :
              V!World[kid].is = "method"
                  /\ jwt.signature = <<V!World[kid].key, jwt.header, jwt.payload>>
    BY DEF V!VerifiesJwt
  <2>5. ~V!VerifiesJwt(jwt, now)
    BY <2>2, <2>3, <2>4
  <2> QED
    BY <2>5 DEF jwt, signed
<1> QED
  BY <1>4, <1>5, <1>6, <1>7 DEF V!Changes

\* Credentials of any options, signed by any of the signers, at any time.
LEMMA IssuedHolds ==
    ASSUME NEW S, NEW s, s.o.type \in Seq(S), s.o.issuanceDate \in AnyDate,
           s.o.expirationDate \in AnyDate, s.signer \in V!Signers, s.change \in V!Changes,
           s.now \in Nat
    PROVE  V!HoldsAsIssued(s)
<1> DEFINE o == s.o
           signer == s.signer
           now == s.now
           vc == V!Create(o, V!NowSigned)
           uri == signer.uri
           p == Claims(vc, uri)
           signed == V!SignVc(vc, signer)
           jwt == V!Changed(signed, s.change)
           back == V!Returned(jwt.payload)
           again == V!SignVc(back, signer)
<1> SUFFICES ASSUME V!Creates(o)
             PROVE
               /\ V!VerifiesVc(jwt, now) <=>
                      /\ signer \in V!Trusted /\ signer.uri = o.issuer /\ s.change = "none"
                      /\ V!Holds(o, now) /\ o.schema \in {"", "conforms"}
               /\ V!VerifiesVc(jwt, now) =>
                      /\ V!ParsesVc(jwt)
                      /\ V!VerifiesVc(again, now) /\ V!Returned(again.payload) = back
                      /\ [back EXCEPT !.issuanceDate = vc.issuanceDate,
                                      !.expirationDate = vc.expirationDate] = vc
  BY DEF V!HoldsAsIssued
<1>1. /\ WellMade(vc) /\ vc.issuer = o.issuer /\ vc.schema = o.schema /\ vc.id = "urn"
      /\ vc.expirationDate = o.expirationDate
      /\ vc.issuanceDate.at \div 2 = IF V!Dated(o.issuanceDate) THEN o.issuanceDate.at \div 2 ELSE 4
  BY CreateMakes DEF V!NowSigned
<1>2. /\ signed.payload = p /\ signed = V!SignJwt(signer, p)
      /\ V!VerifiesVc(signed, now) <=>
            signer \in V!Trusted /\ ~V!Expired(p, now) /\ Agrees(p, now)
  BY SignsVc
<1>3. o.issuer # "" /\ p.nbf \in Nat /\ p.exp \in Nat \cup {-1} /\ now \div 2 \in Nat
  <2>1. p.nbf \in Nat /\ p.exp \in Nat \cup {-1}
    <3> HIDE DEF vc
    <3> QED
      BY <1>1, ComesBack
  <2>2. o.issuer # ""
    <3> HIDE DEF o
    <3> QED
      BY DEF V!Creates
  <2>3. \A n \in Nat : n \div 2 \in Nat
    OBVIOUS
  <2> QED
    BY <2>1, <2>2, <2>3
\* Its time.
<1>4. ~V!Expired(p, now) /\ p.nbf <= now \div 2 <=> V!Holds(o, now)
  <2>1. /\ p.nbf = vc.issuanceDate.at \div 2
        /\ p.exp = IF V!Dated(o.expirationDate) THEN o.expirationDate.at \div 2 ELSE -1
    BY <1>1 DEF Claims, WellMade, V!Seconds, V!Absent, V!Dated
  <2>2. p.nbf <= now \div 2 <=>
           /\ V!Dated(o.issuanceDate) => o.issuanceDate.at \div 2 <= now \div 2
           /\ ~V!Dated(o.issuanceDate) => V!NowSigned \div 2 <= now \div 2
    BY <1>1, <2>1 DEF V!NowSigned
  <2>3. o.expirationDate.at \in Nat
    BY DEF AnyDate
  <2>4. ~V!Expired(p, now) <=>
           (V!Dated(o.expirationDate) /\ o.expirationDate.at > 1
               => now \div 2 <= o.expirationDate.at \div 2)
    <3> HIDE DEF p, o, now
    <3>1. CASE V!Dated(o.expirationDate)
      <4>1. p.exp = o.expirationDate.at \div 2
        BY <2>1, <3>1
      <4>2. o.expirationDate.at > 1 <=> o.expirationDate.at \div 2 > 0
        BY <2>3
      <4>3. ~V!Expired(p, now) <=> ~(p.exp > 0 /\ now \div 2 > p.exp)
        BY DEF V!Expired, V!Given, V!Now
      <4> DEFINE end == o.expirationDate.at \div 2
                 today == now \div 2
      <4>4. end \in Nat /\ today \in Nat
        <5>1. \A n \in Nat : n \div 2 \in Nat
          OBVIOUS
        <5> QED
          BY <1>3, <2>3, <5>1
      <4> HIDE DEF end, today
      <4>5. ~(p.exp > 0 /\ today > p.exp) <=> (end > 0 => today <= end)
        BY <4>1, <4>4 DEF end
      <4> QED
        BY <3>1, <4>2, <4>3, <4>5 DEF end, today
    <3>2. CASE ~V!Dated(o.expirationDate)
      BY <2>1, <3>2 DEF V!Expired, V!Given
    <3> QED
      BY <3>1, <3>2
  <2> QED
    BY <2>2, <2>4 DEF V!Holds
<1>5. V!VerifiesVc(signed, now) <=>
         /\ signer \in V!Trusted /\ signer.uri = o.issuer
         /\ V!Holds(o, now) /\ o.schema \in {"", "conforms"}
  <2>1. Agrees(p, now) <=> /\ uri # "" /\ uri = vc.issuer /\ p.nbf <= now \div 2
                           /\ vc.schema # "" => V!Conforms(vc.schema)
    <3> HIDE DEF vc, uri, now
    <3>1. now \in Nat
      BY DEF now
    <3> QED
      BY <1>1, <3>1, AgreesWhen
  <2> HIDE DEF p, signed, vc
  <2> QED
    BY <1>1, <1>2, <1>3, <1>4, <2>1 DEF V!Conforms
<1>6. s.change = "none" => jwt = signed
  BY DEF V!Changed
<1>7. s.change # "none" => ~V!VerifiesVc(jwt, now)
  <2>1. "jti" \in DOMAIN p /\ p.jti = "urn"
    BY <1>1 DEF Claims
  <2> HIDE DEF p, signed
  <2> QED
    BY <1>2, <2>1, Tampered DEF V!VerifiesVc
<1>8. s.change = "none" /\ V!VerifiesVc(signed, now) =>
         /\ V!ParsesVc(jwt)
         /\ V!VerifiesVc(again, now) /\ V!Returned(again.payload) = back
         /\ [back EXCEPT !.issuanceDate = vc.issuanceDate, !.expirationDate = vc.expirationDate] = vc
  <2> SUFFICES ASSUME s.change = "none", V!VerifiesVc(signed, now)
               PROVE  /\ V!ParsesVc(signed)
                      /\ V!VerifiesVc(again, now) /\ V!Returned(again.payload) = back
                      /\ [back EXCEPT !.issuanceDate = vc.issuanceDate,
                                      !.expirationDate = vc.expirationDate] = vc
    BY <1>6
  <2>1. V!ParsesVc(signed)
    <3>1. V!Parses(signed)
      BY DEF V!VerifiesVc, V!VerifiesJwt
    <3>2. p.has = "vc" /\ p.body = vc
      BY DEF Claims
    <3> QED
      BY <1>1, <1>2, <3>1, <3>2, ValidWhenMade DEF V!ParsesVc
  <2>2. /\ back = V!Returned(p) /\ WellMade(back) /\ \E from, to : back = Vc(vc, from, to)
        /\ Claims(back, uri).nbf = p.nbf /\ Claims(back, uri).exp = p.exp
        /\ V!Returned(Claims(back, uri)) = back
    BY <1>1, <1>2, <1>6, ComesBack
  <2>3. back.issuer = vc.issuer /\ back.schema = vc.schema
    BY <2>2 DEF Vc
  <2>4. V!VerifiesVc(again, now)
    <3>1. Agrees(Claims(back, uri), now) <=> Agrees(p, now)
      <4> HIDE DEF vc, uri, now, back
      <4>1. now \in Nat
        BY DEF now
      <4>2. Agrees(p, now) <=> /\ uri # "" /\ uri = vc.issuer /\ p.nbf <= now \div 2
                               /\ vc.schema # "" => V!Conforms(vc.schema)
        BY <1>1, <4>1, AgreesWhen
      <4>3. Agrees(Claims(back, uri), now) <=>
               /\ uri # "" /\ uri = back.issuer /\ Claims(back, uri).nbf <= now \div 2
               /\ back.schema # "" => V!Conforms(back.schema)
        BY <2>2, <4>1, AgreesWhen
      <4> QED
        BY <2>2, <2>3, <4>2, <4>3
    <3>2. V!Expired(Claims(back, uri), now) <=> V!Expired(p, now)
      <4> HIDE DEF back, p
      <4> QED
        BY <2>2 DEF V!Expired
    <3> HIDE DEF back, p, signed
    <3> QED
      BY <1>2, <3>1, <3>2, SignsVc
  <2>5. V!Returned(again.payload) = back
    BY <2>2, SignsVc
  <2>6. [back EXCEPT !.issuanceDate = vc.issuanceDate, !.expirationDate = vc.expirationDate] = vc
    <3> HIDE DEF back, vc
    <3>1. back = Vc(back, back.issuanceDate, back.expirationDate)
      BY <2>2 DEF WellMade
    <3>2. ASSUME NEW new, new = [back EXCEPT !.issuanceDate = vc.issuanceDate,
                                             !.expirationDate = vc.expirationDate]
          PROVE  new = Vc(back, vc.issuanceDate, vc.expirationDate)
      BY <3>1, <3>2, Redated
    <3>3. Vc(back, vc.issuanceDate, vc.expirationDate) = Vc(vc, vc.issuanceDate, vc.expirationDate)
      BY <2>2 DEF Vc
    <3>4. vc = Vc(vc, vc.issuanceDate, vc.expirationDate)
      BY <1>1 DEF WellMade
    <3> QED
      BY <3>2, <3>3, <3>4
  <2> QED
    BY <2>1, <2>4, <2>5, <2>6
<1> QED
  BY <1>5, <1>6, <1>7, <1>8

-----------------------------------------------------------------------------
(* Credentials: claims, status lists, presentations *)

LEMMA TheIssuer ==
    LET issuer == CHOOSE t \in V!Trusted : t.uri = "di" IN
    /\ issuer \in V!Trusted /\ issuer \in V!Signers /\ issuer.uri = "di"
    /\ V!Trusted \subseteq V!Signers
<1>1. V!Signer("di", <<"", "#0">>, "ki", "EdDSA") \in V!Trusted
  BY DEF V!Trusted
<1>2. V!Signer("di", <<"", "#0">>, "ki", "EdDSA").uri = "di"
  BY DEF V!Signer
<1>3. V!Trusted \subseteq V!Signers
  BY DEF V!Trusted, V!Signers
<1>4. \E t \in V!Trusted : t.uri = "di"
  BY <1>1, <1>2
<1> QED
  BY <1>3, <1>4

\* Any claims about a credential that names its issuer.
LEMMA ClaimsHold ==
    ASSUME NEW p, p.body = Vc(p.body, p.body.issuanceDate, p.body.expirationDate),
           p.body.issuer = "di", p.nbf \in Int, p.exp \in Int
    PROVE  V!ClaimsCarryOver(p)
<1> DEFINE signer == CHOOSE t \in V!Trusted : t.uri = "di"
           jwt == V!SignJwt(signer, p)
           back == V!Returned(p)
           again == V!SignVc(back, signer).payload
           from == IF V!Given(p.nbf) THEN V!Xml(p.nbf) ELSE p.body.issuanceDate
           to == IF V!Given(p.exp) THEN V!Xml(p.exp) ELSE p.body.expirationDate
<1>1. signer \in V!Signers /\ signer.uri = "di"
  BY TheIssuer
<1> HIDE DEF signer
<1> SUFFICES ASSUME V!VerifiesVc(jwt, V!NowSigned)
             PROVE  /\ p.iss = again.iss
                    /\ V!Given(p.nbf) => again.nbf = p.nbf /\ p.nbf <= V!NowSigned \div 2
                    /\ V!Given(p.exp) => again.exp = p.exp /\ p.exp >= V!NowSigned \div 2
                    /\ p.sub # "" /\ ~p.body.subject.array => again.sub = p.sub
                    /\ p.jti # "" => again.jti = p.jti
  BY DEF V!ClaimsCarryOver, signer
<1>2. jwt.payload = p
  BY DEF V!SignJwt, V!Jwt
<1>3. ~V!Expired(p, V!NowSigned) /\ Agrees(p, V!NowSigned)
  <2> HIDE DEF jwt
  <2> QED
    BY <1>2 DEF V!VerifiesVc, V!VerifiesJwt, Agrees
<1>4. back = Vc(p.body, from, to)
  <2> HIDE DEF from, to
  <2>1. ASSUME NEW new, new = [p.body EXCEPT !.issuanceDate = from, !.expirationDate = to]
        PROVE  new = Vc(p.body, from, to)
    BY <2>1, Redated
  <2>2. V!Returned(p) = [p.body EXCEPT !.issuanceDate = from, !.expirationDate = to]
    BY DEF V!Returned, from, to
  <2> QED
    BY <2>1, <2>2
<1>5. again = Claims(back, "di")
  BY <1>1, SignsVc
<1>6. /\ back.id = p.body.id /\ back.subject = p.body.subject
      /\ back.issuanceDate = from /\ back.expirationDate = to
  BY <1>4 DEF Vc
<1> HIDE DEF back, again, jwt
<1>7. /\ again.iss = "di" /\ again.sub = p.body.subject.ids[1] /\ again.jti = p.body.id
      /\ again.nbf = V!Seconds(from)
      /\ V!Dated(to) => again.exp = V!Seconds(to)
  BY <1>5, <1>6 DEF Claims
<1>8. \A n \in Int : V!Seconds(V!Xml(n)) = n /\ V!Dated(V!Xml(n))
  BY DEF V!Seconds, V!Xml, V!Date, V!Dated
<1>9. p.iss = again.iss
  BY <1>3, <1>7 DEF Agrees
<1>10. V!Given(p.nbf) => again.nbf = p.nbf /\ p.nbf <= V!NowSigned \div 2
  BY <1>3, <1>7, <1>8 DEF Agrees, V!Now
<1>11. V!Given(p.exp) => again.exp = p.exp /\ p.exp >= V!NowSigned \div 2
  <2> SUFFICES ASSUME V!Given(p.exp) PROVE again.exp = p.exp /\ p.exp >= V!NowSigned \div 2
    OBVIOUS
  <2>1. again.exp = p.exp
    BY <1>7, <1>8
  <2>2. ~(V!NowSigned \div 2 > p.exp)
    BY <1>3 DEF V!Expired, V!Now
  <2> QED
    BY <2>1, <2>2 DEF V!NowSigned
<1>12. p.sub # "" /\ ~p.body.subject.array => again.sub = p.sub
  BY <1>3, <1>7 DEF Agrees
<1>13. p.jti # "" => again.jti = p.jti
  BY <1>3, <1>7 DEF Agrees
<1> QED
  BY <1>9, <1>10, <1>11, <1>12, <1>13

LEMMA NoSuchIndex == V!NaN \notin 0 .. V!BITSTRING_SIZE - 1 /\ V!BITSTRING_SIZE \in Int
BY SMT DEF V!NaN, V!BITSTRING_SIZE

\* An index is its byte and its bit.
LEMMA ByteAndBit ==
    ASSUME NEW i \in Int, NEW j \in Int, <<i \div 8, 7 - (i % 8)>> = <<j \div 8, 7 - (j % 8)>>
    PROVE  i = j
<1>1. i \div 8 = j \div 8 /\ 7 - (i % 8) = 7 - (j % 8)
  OBVIOUS
<1>2. i = 8 * (i \div 8) + (i % 8) /\ j = 8 * (j \div 8) + (j % 8)
  OBVIOUS
<1>3. i % 8 \in Int /\ j % 8 \in Int
  OBVIOUS
<1> QED
  BY <1>1, <1>2, <1>3

\* Status lists of any number of entries, for any index.
LEMMA ListHolds ==
    ASSUME NEW s, \A i \in DOMAIN s.entries : s.entries[i].index.value \in Int,
           s.entry.index.value \in Int
    PROVE  V!ListsExactly(s)
<1> DEFINE signer == CHOOSE t \in V!Trusted : t.uri = "di"
           indexes == {s.entries[i].index : i \in DOMAIN s.entries}
           made == V!StatusList("di", "revocation", s.entries, V!NowSigned)
           jwt == V!SignVc(made, signer)
           list == V!Returned(jwt.payload)
<1>1. signer \in V!Signers /\ signer \in V!Trusted /\ signer.uri = "di"
  BY TheIssuer
<1> HIDE DEF signer
<1> SUFFICES ASSUME V!Listable("revocation", s.entries)
             PROVE  /\ V!VerifiesVc(jwt, V!NowSigned)
                    /\ V!Checkable(s.entry, list) =>
                          (V!InStatusList(s.entry, list) <=>
                              /\ s.entry.index.value # V!NaN
                              /\ \E i \in DOMAIN s.entries :
                                    s.entries[i].index.value = s.entry.index.value)
  BY DEF V!ListsExactly, signer
<1>2. /\ made = Vc(made, made.issuanceDate, made.expirationDate)
      /\ made.context = <<"vc", "status">>
      /\ made.type = <<"VerifiableCredential", "StatusList2021Credential">>
      /\ made.id = "list" /\ made.issuer = "di" /\ made.schema = ""
      /\ made.issuanceDate = V!Xml(4) /\ made.expirationDate = V!NoDate
      /\ made.subject = V!One("list", <<"revocation", V!GenerateBitString(indexes)>>)
  BY DEF V!StatusList, Vc, V!NowSigned, V!Now
<1> HIDE DEF made
<1>3. WellMade(made)
  <2>1. V!Declares(made, "VerifiableCredential")
    <3>1. V!Contains(<<"vc", "status">>, "vc")
      BY DEF V!Contains
    <3>2. V!Contains(<<"VerifiableCredential", "StatusList2021Credential">>, "VerifiableCredential")
      BY DEF V!Contains
    <3> QED
      BY <1>2, <3>1, <3>2 DEF V!Declares
  <2>2. ~made.subject.array /\ made.subject.ids[1] # ""
    <3> DEFINE subject == made.subject
               ids == subject.ids
    <3> HIDE DEF subject, ids
    <3>1. subject = [array |-> FALSE, ids |-> <<"list">>,
                     data |-> <<"revocation", V!GenerateBitString(indexes)>>]
      BY <1>2 DEF V!One, subject
    <3>2. ids = <<"list">> /\ ~subject.array
      BY <3>1 DEF ids
    <3>3. ids[1] = "list"
      BY <3>2
    <3> QED
      BY <3>2, <3>3 DEF subject, ids
  <2>3. V!Xml(4) \in [at : Nat, form : {"xml", "rfc3339"}]
    BY DEF V!Xml, V!Date
  <2>4. V!NoDate \in [at : Nat, form : {"none", "xml", "rfc3339"}]
    BY DEF V!NoDate, V!Date
  <2>5. made.id # ""
    BY <1>2
  <2> QED
    BY <1>2, <2>1, <2>2, <2>3, <2>4, <2>5 DEF WellMade
<1> DEFINE p == Claims(made, "di")
<1>4. /\ jwt.payload = p
      /\ V!VerifiesVc(jwt, V!NowSigned) <=> ~V!Expired(p, V!NowSigned) /\ Agrees(p, V!NowSigned)
  BY <1>1, SignsVc
<1>5. V!VerifiesVc(jwt, V!NowSigned)
  <2>1. p.nbf = 4 /\ p.exp = -1
    <3>1. p.nbf = V!Seconds(V!Xml(4)) /\ p.exp = IF V!Dated(V!NoDate) THEN V!Seconds(V!NoDate) ELSE -1
      BY <1>2 DEF Claims, V!Absent
    <3>2. V!Seconds(V!Xml(4)) = 4
      BY DEF V!Seconds, V!Xml, V!Date
    <3>3. ~V!Dated(V!NoDate)
      BY DEF V!NoDate, V!Date, V!Dated
    <3> QED
      BY <3>1, <3>2, <3>3
  <2>2. ~V!Expired(p, V!NowSigned)
    <3> HIDE DEF p
    <3> QED
      BY <2>1 DEF V!Expired, V!Given
  <2>3. Agrees(p, V!NowSigned)
    <3>1. "di" = made.issuer /\ made.schema = ""
      BY <1>2
    <3>2. V!NowSigned \in Nat /\ V!NowSigned \div 2 = 4
      BY DEF V!NowSigned
    <3>3. Agrees(p, V!NowSigned) <=>
             /\ "di" # "" /\ "di" = made.issuer /\ p.nbf <= V!NowSigned \div 2
             /\ made.schema # "" => V!Conforms(made.schema)
      BY <1>3, <3>2, AgreesWhen
    <3> HIDE DEF p
    <3>4. p.nbf <= V!NowSigned \div 2
      BY <2>1, <3>2
    <3>5. "di" # ""
      OBVIOUS
    <3> QED
      BY <3>1, <3>3, <3>4, <3>5, Zenon
  <2> QED
    BY <1>4, <2>2, <2>3
<1>6. list.subject.data = <<"revocation", V!GenerateBitString(indexes)>>
  <2>1. \E from, to : list = Vc(made, from, to)
    BY <1>3, <1>4, ComesBack
  <2> HIDE DEF list
  <2>2. list.subject = made.subject
    BY <2>1 DEF Vc
  <2>3. \A data : V!One("list", data).data = data
    BY DEF V!One
  <2> QED
    BY <1>2, <2>2, <2>3
<1> HIDE DEF list, jwt
<1>7. V!InStatusList(s.entry, list) <=> V!GetBit(V!GenerateBitString(indexes), s.entry.index)
  <2> DEFINE data == list.subject.data
  <2> HIDE DEF data
  <2>1. data[2] = V!GenerateBitString(indexes)
    BY <1>6 DEF data
  <2> QED
    BY <2>1 DEF V!InStatusList, data
<1> DEFINE value == s.entry.index.value
<1>8. V!GetBit(V!GenerateBitString(indexes), s.entry.index) =>
         value # V!NaN /\ \E i \in DOMAIN s.entries : s.entries[i].index.value = value
  <2> SUFFICES ASSUME V!GetBit(V!GenerateBitString(indexes), s.entry.index)
               PROVE  value # V!NaN /\ \E i \in DOMAIN s.entries : s.entries[i].index.value = value
    OBVIOUS
  <2>1. value \in 0 .. V!BITSTRING_SIZE - 1
    BY DEF V!GetBit
  <2>2. PICK j \in indexes : <<value \div 8, 7 - (value % 8)>> = <<j.value \div 8, 7 - (j.value % 8)>>
    BY DEF V!GetBit, V!GenerateBitString
  <2>3. PICK i \in DOMAIN s.entries : j = s.entries[i].index
    BY <2>2
  <2>4. value = j.value
    BY <2>2, <2>3, ByteAndBit
  <2> QED
    BY <2>1, <2>3, <2>4, NoSuchIndex
<1>9. value # V!NaN /\ (\E i \in DOMAIN s.entries : s.entries[i].index.value = value)
         => V!GetBit(V!GenerateBitString(indexes), s.entry.index)
  <2> SUFFICES ASSUME value # V!NaN, NEW i \in DOMAIN s.entries, s.entries[i].index.value = value
               PROVE  V!GetBit(V!GenerateBitString(indexes), s.entry.index)
    OBVIOUS
  <2>1. value \in 0 .. V!BITSTRING_SIZE - 1
    BY DEF V!Listable
  <2>2. s.entries[i].index \in {j \in indexes : j.value # V!NaN}
    OBVIOUS
  <2>3. <<value \div 8, 7 - (value % 8)>> \in V!GenerateBitString(indexes)
    BY <2>2 DEF V!GenerateBitString
  <2> QED
    BY <2>1, <2>3 DEF V!GetBit
<1> QED
  BY <1>5, <1>7, <1>8, <1>9

\* Presentations of any credentials that were issued by the time of signing.
LEMMA PresentationHolds ==
    ASSUME NEW s, s.signer \in V!Trusted, s.now \in Nat, s.now >= V!NowSigned,
           s.definition.valid \in BOOLEAN,
           LET jwts == V!Present(s.o).vcJwts IN
           \A i \in DOMAIN jwts : /\ jwts[i].payload.nbf \in Int /\ jwts[i].payload.exp \in Int
                                  /\ jwts[i].payload.nbf <= V!NowSigned \div 2
    PROVE  V!PresentsAsCarried(s)
<1> DEFINE vp == V!Present(s.o)
           jwt == V!SignVp(vp, s.signer)
           jwts == vp.vcJwts
           held == V!ToSet(s.o.vcJwts)
           some == V!SelectCredentials(s.definition, held)
<1>1. ASSUME V!Presents(s.o), V!ValidVp(vp)
      PROVE  /\ V!ParsesVp(jwt)
             /\ V!VerifiesVp(jwt, s.now) <=> \A i \in DOMAIN jwts : V!VerifiesVc(jwts[i], s.now)
             /\ V!VerifiesVp(jwt, s.now) => V!VerifiesVp(jwt, V!NowSigned)
  <2> DEFINE p == [V!NoClaims EXCEPT !.has = "vp", !.body = vp, !.iss = s.signer.uri,
                                     !.sub = s.signer.uri, !.jti = vp.id]
  <2>1. jwt = V!SignJwt(s.signer, p)
    BY DEF V!SignVp
  <2>2. jwt.payload = p
    <3>1. \A q : V!SignJwt(s.signer, q).payload = q
      BY DEF V!SignJwt, V!Jwt
    <3> QED
      BY <2>1, <3>1
  <2>3. p.has = "vp" /\ p.body = vp /\ p.exp = -1
    BY DEF V!NoClaims, V!Absent
  <2> HIDE DEF p, jwt, vp
  <2>4. \A now : V!VerifiesJwt(jwt, now)
    <3>1. \A now : ~V!Expired(p, now)
      BY <2>3 DEF V!Expired, V!Given
    <3> QED
      BY <2>1, <3>1, Signs, TheIssuer
  <2>5. \A now : V!VerifiesVp(jwt, now) <=> \A i \in DOMAIN jwts : V!VerifiesVc(jwts[i], now)
    BY <1>1, <2>2, <2>3, <2>4 DEF V!VerifiesVp
  <2>6. ASSUME NEW v, v.payload.nbf \in Int, v.payload.exp \in Int,
               v.payload.nbf <= V!NowSigned \div 2, V!VerifiesVc(v, s.now)
        PROVE  V!VerifiesVc(v, V!NowSigned)
    <3>1. V!Expired(v.payload, V!NowSigned) => V!Expired(v.payload, s.now)
      BY <2>6 DEF V!Expired, V!Now, V!NowSigned
    <3>2. V!VerifiesJwt(v, V!NowSigned)
      BY <2>6, <3>1 DEF V!VerifiesVc, V!VerifiesJwt
    <3>3. v.payload.nbf <= V!Now(V!NowSigned)
      BY <2>6 DEF V!Now
    <3> QED
      BY <2>6, <3>2, <3>3 DEF V!VerifiesVc
  <2>7. V!ParsesVp(jwt)
    BY <2>2, <2>3, <2>4 DEF V!ParsesVp, V!VerifiesJwt
  <2>8. V!VerifiesVp(jwt, s.now) => V!VerifiesVp(jwt, V!NowSigned)
    BY <2>5, <2>6 DEF vp
  <2> QED
    BY <2>5, <2>7, <2>8
<1>2. ASSUME some # {}
      PROVE  /\ V!Satisfies(s.definition, some)
             /\ V!PresentsFor(s.definition, some) = s.definition.valid
  <2> DEFINE wants == V!ToSet(s.definition.wants)
  <2>1. V!Unmet(s.definition, held) = {} /\ some = V!SelectFrom(s.definition, held)
    BY <1>2 DEF V!SelectCredentials
  <2> HIDE DEF some, held
  <2>2. ASSUME NEW t \in wants
        PROVE  \E v \in some : V!Wanted(v, t)
    <3>1. \E v \in held : V!Wanted(v, t)
      BY <2>1 DEF V!Unmet
    <3> QED
      BY <2>1, <3>1 DEF V!SelectFrom
  <2>3. V!Satisfies(s.definition, some)
    BY <2>2 DEF V!Satisfies, V!Unmet
  <2> QED
    BY <2>3 DEF V!PresentsFor
<1> QED
  BY <1>1, <1>2 DEF V!PresentsAsCarried

-----------------------------------------------------------------------------
(* CredentialsHold *)

\* A sample stays what it was, or is the life of a key.
StillSampled == sample.of = "life" \/ Sampled

LEMMA SamplesStay ==
    /\ MCInit => StillSampled
    /\ StillSampled /\ [MCNext]_<<vars, sample>> => StillSampled'
<1>1. MCInit => StillSampled
  BY DEF MCInit, StillSampled
<1>2. ASSUME StillSampled, [MCNext]_<<vars, sample>>
      PROVE  StillSampled'
  <2>1. CASE sample' = sample
    BY <1>2, <2>1 DEF StillSampled, Sampled
  <2>2. CASE Changes
    <3>1. sample.of = "life" /\ \E key : sample' = [sample EXCEPT !.input.key = key]
      BY <2>2 DEF Changes
    <3>2. sample'.of = "life"
      BY <3>1
    <3> QED
      BY <3>2 DEF StillSampled
  <2> QED
    BY <1>2, <2>1, <2>2 DEF MCNext
<1> QED
  BY <1>1, <1>2

LEMMA ShortSequences ==
    ASSUME NEW S
    PROVE  <<>> \in Seq(S) /\ \A t \in S : <<t>> \in Seq(S)
  BY SMT

LEMMA SampledDates ==
    /\ V!Dates \subseteq AnyDate /\ V!Ends \subseteq AnyDate
    /\ \A o \in V!Options : /\ o.type \in Seq({"T"})
                            /\ o.issuanceDate \in AnyDate /\ o.expirationDate \in AnyDate
<1>1. V!Dates \subseteq AnyDate /\ V!Ends \subseteq AnyDate
  BY DEF V!Dates, V!Ends, V!NoDate, V!Date, AnyDate
<1>2. ASSUME NEW o \in V!Options
      PROVE  o.type \in {<<>>, <<"T">>} /\ o.issuanceDate \in V!Dates /\ o.expirationDate \in V!Ends
  BY DEF V!Options
<1>3. "T" \in {"T"}
  OBVIOUS
<1>4. <<>> \in Seq({"T"}) /\ <<"T">> \in Seq({"T"})
  BY <1>3, ShortSequences, Zenon
<1> QED
  BY <1>1, <1>2, <1>4

LEMMA CredentialSamplesHold == \A x \in V!CredentialSamples : V!HoldsAsIssued(x)
<1>1. V!CredentialSamples = V!Various \cup V!Timed \cup V!Altered
  BY DEF V!CredentialSamples
<1>2. V!Trusted \subseteq V!Signers
  BY TheIssuer
<1>3. V!PlainOptions \subseteq V!Options
  BY DEF V!PlainOptions
<1>4. "none" \in V!Changes
  BY DEF V!Changes
<1>5. ASSUME NEW x \in V!Various
      PROVE  x.o \in V!Options /\ x.signer \in V!Signers /\ x.change \in V!Changes /\ x.now \in Nat
  <2>1. x.o \in V!Options /\ x.signer \in V!Trusted /\ x.change = "none" /\ x.now = 8
    BY <1>5 DEF V!Various
  <2> QED
    BY <1>2, <1>4, <2>1
<1>6. ASSUME NEW x \in V!Timed
      PROVE  x.o \in V!Options /\ x.signer \in V!Signers /\ x.change \in V!Changes /\ x.now \in Nat
  <2>1. x.o \in V!PlainOptions /\ x.signer \in V!Signers /\ x.change = "none" /\ x.now \in 5 .. 13
    BY <1>6 DEF V!Timed
  <2> QED
    BY <1>3, <1>4, <2>1
<1>7. ASSUME NEW x \in V!Altered
      PROVE  x.o \in V!Options /\ x.signer \in V!Signers /\ x.change \in V!Changes /\ x.now \in Nat
  <2>1. x.o \in V!PlainOptions /\ x.signer \in V!Trusted /\ x.change \in V!Changes /\ x.now = 8
    BY <1>7 DEF V!Altered
  <2> QED
    BY <1>2, <1>3, <2>1
<1>8. ASSUME NEW x \in V!CredentialSamples
      PROVE  x.o \in V!Options /\ x.signer \in V!Signers /\ x.change \in V!Changes /\ x.now \in Nat
  BY <1>1, <1>5, <1>6, <1>7, <1>8
<1> QED
  BY <1>8, SampledDates, IssuedHolds

LEMMA ClaimSamplesHold == \A c \in V!ClaimSamples : V!ClaimsCarryOver(c)
<1> SUFFICES ASSUME NEW c \in V!ClaimSamples
             PROVE  /\ c.body = Vc(c.body, c.body.issuanceDate, c.body.expirationDate)
                    /\ c.body.issuer = "di" /\ c.nbf \in Int /\ c.exp \in Int
  BY ClaimsHold
<1>1. c.nbf \in {V!Absent, 0, 3, 4} /\ c.exp \in {V!Absent, 0, 3, 5} /\ c.body \in V!Bodies
  <2>1. c \in [has : {"vc", "vp", ""}, body : V!Bodies, iss : {"di", "dj", ""}, sub : {"s", "t", ""},
               jti : {"urn", "urn:other", ""}, nbf : {V!Absent, 0, 3, 4}, exp : {V!Absent, 0, 3, 5}]
    BY Zenon DEF V!ClaimSamples
  <2> QED
    BY <2>1
<1>2. \E d, t : c.body = V!Body(d, t)
  BY <1>1 DEF V!Bodies
<1>3. ASSUME NEW d, NEW t
      PROVE  LET body == V!Body(d, t) IN
             body = Vc(body, body.issuanceDate, body.expirationDate) /\ body.issuer = "di"
  <2> DEFINE o == [issuer |-> "di", subject |-> "s", type |-> <<>>,
                   data |-> [is |-> "object", id |-> "", rest |-> <<>>], issuanceDate |-> d[1],
                   expirationDate |-> d[2], status |-> [is |-> "none"], schema |-> ""]
             first == V!Create(o, V!NowSigned)
             body == V!Body(d, t)
  <2>1. body = [first EXCEPT !.subject = t]
    BY DEF V!Body
  <2>2. o.issuer = "di"
    OBVIOUS
  <2> HIDE DEF o
  <2>3. first = Vc(first, first.issuanceDate, first.expirationDate) /\ first.issuer = "di"
    BY <2>2 DEF V!Create, Vc
  <2> HIDE DEF first, body
  <2>4. body = Vc(body, body.issuanceDate, body.expirationDate) /\ body.issuer = "di"
    BY <2>1, <2>3 DEF Vc
  <2> QED
    BY <2>4 DEF body
<1> QED
  BY <1>1, <1>2, <1>3 DEF V!Absent

LEMMA ListSamplesHold == \A l \in V!ListSamples : V!ListsExactly(l)
<1> SUFFICES ASSUME NEW l \in V!ListSamples
             PROVE  /\ \A i \in DOMAIN l.entries : l.entries[i].index.value \in Int
                    /\ l.entry.index.value \in Int
  BY ListHolds
<1>1. \A e \in V!Entries : e.index.value \in Int
  <2> DEFINE indexes == {V!Index("0", 0), V!Index("7", 7), V!Index("07", 7), V!Index("8", 8),
                         V!Index("131071", 131071), V!Index("131072", 131072),
                         V!Index("-1", -1), V!Index("x", V!NaN)}
  <2>1. \A i \in indexes : i.value \in Int
    BY SMT DEF V!Index, V!NaN
  <2>2. \A e \in V!Entries : e.index \in indexes
    BY SMT DEF V!Entries, V!Entry
  <2> HIDE DEF indexes
  <2> QED
    BY <2>1, <2>2
<1>2. l.entry \in V!Entries /\ l.entries \in {<<>>} \cup {<<e>> : e \in V!Entries} \cup (V!Entries \X V!Entries)
  BY DEF V!ListSamples
<1>3. \A i \in DOMAIN l.entries : l.entries[i] \in V!Entries
  BY <1>2
<1> QED
  BY <1>1, <1>2, <1>3

LEMMA PresentationSamplesHold == \A q \in V!PresentationSamples : V!PresentsAsCarried(q)
<1> SUFFICES ASSUME NEW q \in V!PresentationSamples
             PROVE  /\ q.signer \in V!Trusted /\ q.now \in Nat /\ q.now >= V!NowSigned
                    /\ q.definition.valid \in BOOLEAN
                    /\ LET jwts == V!Present(q.o).vcJwts IN
                       \A i \in DOMAIN jwts :
                          /\ jwts[i].payload.nbf \in Int /\ jwts[i].payload.exp \in Int
                          /\ jwts[i].payload.nbf <= V!NowSigned \div 2
  BY PresentationHolds
<1> DEFINE jwts == V!Present(q.o).vcJwts
           More == {[is |-> "none", fields |-> <<>>], [is |-> "text", fields |-> <<>>],
                    [is |-> "object", fields |-> [context |-> <<"other">>]],
                    [is |-> "object", fields |-> [vcJwts |-> <<>>, holder |-> "other"]]}
<1>1. /\ q.signer \in V!Trusted /\ q.now \in {8, 12} /\ q.definition.valid \in BOOLEAN
      /\ q.o.vcJwts \in {<<>>} \cup {<<v>> : v \in V!VcJwts} \cup (V!VcJwts \X V!VcJwts)
      /\ q.o.more \in More
  <2> HIDE DEF V!Trusted, V!VcJwts, More
  <2>1. q \in [o : [holder : {"dj", ""}, type : {<<>>},
                    vcJwts : {<<>>} \cup {<<v>> : v \in V!VcJwts} \cup (V!VcJwts \X V!VcJwts),
                    more : More],
               signer : V!Trusted, now : {8, 12},
               definition : [valid : BOOLEAN, wants : {<<"T">>, <<"T", "U">>}]]
    BY DEF V!PresentationSamples, More
  <2> QED
    BY <2>1
<1>2. jwts = q.o.vcJwts \/ jwts = <<>>
  <2> DEFINE fields == q.o.more.fields
  <2> HIDE DEF fields
  <2>1. jwts = IF "vcJwts" \in DOMAIN fields THEN fields["vcJwts"] ELSE q.o.vcJwts
    BY DEF V!Present, fields
  <2>2. fields \in {<<>>, [context |-> <<"other">>], [vcJwts |-> <<>>, holder |-> "other"]}
    BY <1>1 DEF fields
  <2>3. "vcJwts" \in DOMAIN fields => fields["vcJwts"] = <<>>
    <3>1. CASE fields = <<>>
      BY <3>1
    <3>2. CASE fields = [context |-> <<"other">>]
      BY <3>2
    <3>3. CASE fields = [vcJwts |-> <<>>, holder |-> "other"]
      BY <3>3
    <3> QED
      BY <2>2, <3>1, <3>2, <3>3
  <2> HIDE DEF jwts
  <2> QED
    BY <2>1, <2>3
<1>3. \A i \in DOMAIN jwts : jwts[i] \in V!VcJwts
  <2> HIDE DEF jwts, V!VcJwts
  <2> QED
    BY <1>1, <1>2
<1>4. ASSUME NEW v \in V!VcJwts
      PROVE  /\ v.payload.nbf \in Int /\ v.payload.exp \in Int
             /\ v.payload.nbf <= V!NowSigned \div 2
  <2>1. PICK t \in {<<>>, <<"T">>, <<"T", "U">>}, end \in {V!NoDate, V!Date(9, "rfc3339")},
                signer \in V!Trusted : v = V!VcOf(t, end, signer)
    BY DEF V!VcJwts
  <2> DEFINE o == [issuer |-> "di", subject |-> "s", type |-> t,
                   data |-> [is |-> "object", id |-> "", rest |-> <<>>],
                   issuanceDate |-> V!Date(6, "xml"),
                   expirationDate |-> end, status |-> [is |-> "none"], schema |-> ""]
             vc == V!Create(o, V!NowSigned)
  <2>2. v.payload = Claims(vc, signer.uri)
    BY <2>1, TheIssuer, SignsVc DEF V!VcOf
  <2>3. o.issuanceDate = V!Date(6, "xml") /\ o.expirationDate = end
    OBVIOUS
  <2> HIDE DEF o
  <2>4. vc.issuanceDate = V!Date(6, "xml") /\ vc.expirationDate = end
    <3>1. V!Dated(V!Date(6, "xml"))
      BY DEF V!Dated, V!Date
    <3> QED
      BY <2>3, <3>1 DEF V!Create
  <2> HIDE DEF vc
  <2>5. v.payload.nbf = V!Seconds(V!Date(6, "xml"))
    BY <2>2, <2>4 DEF Claims
  <2>6. v.payload.exp = IF V!Dated(end) THEN V!Seconds(end) ELSE -1
    BY <2>2, <2>4 DEF Claims, V!Absent
  <2>7. V!Seconds(V!Date(6, "xml")) = 3
    BY DEF V!Seconds, V!Date
  <2>8. V!Seconds(V!NoDate) \in Int /\ V!Seconds(V!Date(9, "rfc3339")) \in Int
    BY DEF V!Seconds, V!NoDate, V!Date
  <2> QED
    BY <2>1, <2>5, <2>6, <2>7, <2>8 DEF V!NowSigned
<1> QED
  BY <1>1, <1>3, <1>4 DEF V!NowSigned

\* A credential is verified exactly in its time and as its issuer signed it, a
\* presentation with all it carries, and a status list says what it was made
\* from (verifiable-credential.ts 122-354, jwt.ts 107-240,
\* verifiable-presentation.ts 88-235, status-list-credential.ts 89-250).  Of
\* any dates, options, claims and entries, not those of the run alone:
\* IssuedHolds, ClaimsHold, ListHolds, PresentationHolds.
THEOREM CredentialsHoldHolds == MCSpec => []CredentialsHold
<1>1. StillSampled => CredentialsHold
  <2> SUFFICES ASSUME StillSampled PROVE CredentialsHold
    OBVIOUS
  <2>1. sample.of = "credential" => sample.input \in V!CredentialSamples
    BY DEF StillSampled, Sampled, Sample
  <2>2. sample.of = "claims" => sample.input \in V!ClaimSamples
    BY DEF StillSampled, Sampled, Sample
  <2>3. sample.of = "list" => sample.input \in V!ListSamples
    BY DEF StillSampled, Sampled, Sample
  <2>4. sample.of = "presentation" => sample.input \in V!PresentationSamples
    BY DEF StillSampled, Sampled, Sample
  <2> QED
    BY <2>1, <2>2, <2>3, <2>4, CredentialSamplesHold, ClaimSamplesHold, ListSamplesHold,
       PresentationSamplesHold DEF CredentialsHold
<1> QED
  BY <1>1, SamplesStay, PTL DEF MCSpec

-----------------------------------------------------------------------------
(* Jwe: it opens with its key only *)

HeaderOf(in) == J!JoseHeader(<<in.protected, in.unprotected, in.header>>)
CekOf(in, fresh) == J!ManageEncrypt(in.key, HeaderOf(in), fresh).is[1]
WrappedOf(in, fresh) == J!ManageEncrypt(in.key, HeaderOf(in), fresh).is[2]
AadOf(in) == J!AdditionalData(in.protected, in.aad)
Ciphertext(cek, iv, aad, text) == <<"ciphertext", cek.k, iv, aad, text>>
Tag(cek, iv, aad, text) == <<"tag", cek.k, iv, aad, text>>

\* Headers that share no parameter may be joined in any order.
LEMMA SameHeader ==
    ASSUME NEW p, NEW u, NEW h, ~J!Overlap(<<p, u, h>>)
    PROVE  J!JoseHeader(<<p, h, u>>) = J!JoseHeader(<<p, u, h>>) /\ ~J!Overlap(<<p, h, u>>)
<1>1. /\ DOMAIN p \cap DOMAIN u = {} /\ DOMAIN p \cap DOMAIN h = {} /\ DOMAIN u \cap DOMAIN h = {}
  BY DEF J!Overlap
<1>2. ~J!Overlap(<<p, h, u>>)
  <2> DEFINE hs == <<p, h, u>>
  <2>1. DOMAIN hs = {1, 2, 3} /\ hs[1] = p /\ hs[2] = h /\ hs[3] = u
    OBVIOUS
  <2> HIDE DEF hs
  <2>2. \A i, j \in DOMAIN hs : i # j => DOMAIN hs[i] \cap DOMAIN hs[j] = {}
    BY <1>1, <2>1
  <2> QED
    BY <2>2 DEF J!Overlap, hs
<1>3. J!JoseHeader(<<p, h, u>>) = J!JoseHeader(<<p, u, h>>)
  BY <1>1 DEF J!JoseHeader, J!Joined
<1> QED
  BY <1>2, <1>3

\* What the key management answered when it did not refuse.
LEMMA ManagedAs ==
    ASSUME NEW key, NEW header, NEW fresh, J!ManageEncrypt(key, header, fresh).error = "none"
    PROVE  \/ /\ header.alg = "dir" /\ key.type # "password"
              /\ J!ManageEncrypt(key, header, fresh) = J!Ok(<<key, J!None>>)
           \/ /\ header.alg \in J!Encryption /\ key.type = "password" /\ J!Salted(header)
              /\ header.enc \in J!Content /\ header.p2s # "malformed"
              /\ LET cek == J!KeyOf("jwk", header.enc, fresh) IN
                 J!ManageEncrypt(key, header, fresh) =
                     J!Ok(<<cek, J!WrapKey(J!Kek(key, header), cek)>>)
<1>1. CASE header.alg = "dir"
  BY <1>1 DEF J!ManageEncrypt, J!Error, J!Encryption
<1>2. CASE header.alg \in J!Encryption
  BY <1>2 DEF J!ManageEncrypt, J!Error, J!Encryption
<1>3. header.alg = "dir" \/ header.alg \in J!Encryption
  BY DEF J!ManageEncrypt, J!Error
<1> QED
  BY <1>1, <1>2, <1>3

\* What a JWE is made of.
LEMMA MadeAs ==
    ASSUME NEW in, NEW fresh, J!FlattenedEncrypt(in, fresh).error = "none"
    PROVE  LET made == J!FlattenedEncrypt(in, fresh).is
               keys == J!ManageEncrypt(in.key, HeaderOf(in), fresh)
               cek  == CekOf(in, fresh) IN
           /\ ~J!Overlap(<<in.protected, in.unprotected, in.header>>)
           /\ J!IsValidJweHeader(HeaderOf(in))
           /\ keys.error = "none" /\ cek.alg \in J!Content /\ HeaderOf(in).enc \in J!Content
           /\ made = [protected |-> in.protected, unprotected |-> in.unprotected,
                      header |-> in.header, encrypted_key |-> keys.is[2], iv |-> J!Bytes(fresh),
                      aad |-> IF in.aad = J!Empty THEN J!None ELSE in.aad,
                      ciphertext |-> Ciphertext(cek, J!Bytes(fresh), AadOf(in), in.text),
                      tag |-> Tag(cek, J!Bytes(fresh), AadOf(in), in.text)]
<1> DEFINE hs == <<in.protected, in.unprotected, in.header>>
           header == HeaderOf(in)
           keys == J!ManageEncrypt(in.key, header, fresh)
           cek == keys.is[1]
           iv == IF header.enc \in J!Content THEN J!Bytes(fresh) ELSE J!Empty
           sealed == J!Encrypt(cek, iv, AadOf(in), in.text)
           result == J!FlattenedEncrypt(in, fresh)
           made == [protected |-> in.protected, unprotected |-> in.unprotected,
                    header |-> in.header, encrypted_key |-> keys.is[2], iv |-> iv,
                    aad |-> IF in.aad = J!Empty THEN J!None ELSE in.aad,
                    ciphertext |-> sealed.is[1], tag |-> sealed.is[2]]
<1>1. result = IF J!Overlap(hs) \/ ~J!IsValidJweHeader(header) THEN J!Error("InvalidJwe")
               ELSE IF keys.error # "none" THEN keys
               ELSE IF sealed.error # "none" THEN sealed ELSE J!Ok(made)
  BY DEF J!FlattenedEncrypt, HeaderOf, AadOf
<1>2. sealed.error = "none" => /\ cek.alg \in J!Content /\ iv \notin {J!None, J!Empty}
                               /\ sealed = J!Ok(J!Seal(cek, iv, AadOf(in), in.text))
  <2> HIDE DEF cek, iv
  <2> QED
    BY DEF J!Encrypt, J!Error
<1>3. /\ ~J!Overlap(hs) /\ J!IsValidJweHeader(header) /\ keys.error = "none"
      /\ sealed.error = "none" /\ result = J!Ok(made)
  <2>1. result.error = "none"
    OBVIOUS
  <2> HIDE DEF made, result, keys, sealed, hs, header
  <2>2. ~J!Overlap(hs) /\ J!IsValidJweHeader(header)
    BY <1>1, <2>1 DEF J!Error
  <2>3. keys.error = "none"
    BY <1>1, <2>1, <2>2
  <2> QED
    BY <1>1, <2>1, <2>2, <2>3
<1>4. header.enc \in J!Content /\ iv = J!Bytes(fresh)
  BY <1>2, <1>3
<1>5. /\ sealed.is[1] = Ciphertext(cek, iv, AadOf(in), in.text)
      /\ sealed.is[2] = Tag(cek, iv, AadOf(in), in.text)
  <2>1. sealed = J!Ok(J!Seal(cek, iv, AadOf(in), in.text))
    BY <1>2, <1>3
  <2> HIDE DEF iv, cek, sealed
  <2>2. sealed.is = J!Seal(cek, iv, AadOf(in), in.text)
    BY <2>1 DEF J!Ok
  <2> DEFINE parts == sealed.is
  <2> HIDE DEF parts
  <2>3. parts = <<Ciphertext(cek, iv, AadOf(in), in.text), Tag(cek, iv, AadOf(in), in.text)>>
    BY <2>2 DEF J!Seal, Ciphertext, Tag, parts
  <2>4. /\ parts[1] = Ciphertext(cek, iv, AadOf(in), in.text)
        /\ parts[2] = Tag(cek, iv, AadOf(in), in.text)
    BY <2>3 DEF Ciphertext, Tag
  <2> QED
    BY <2>4 DEF parts
<1>6. result.is = made
  <2> HIDE DEF result, made
  <2> QED
    BY <1>3 DEF J!Ok
<1>7. cek = CekOf(in, fresh)
  BY DEF CekOf
<1> HIDE DEF iv, sealed, cek, result, keys, hs, header
<1> QED
  BY <1>2, <1>3, <1>4, <1>5, <1>6, <1>7 DEF result, keys, hs, header

\* What opens was sealed with the key that decrypt() goes on with.
LEMMA OpenedMeans ==
    ASSUME NEW jwe, NEW key, NEW fresh, NEW texts,
           J!FlattenedDecrypt(jwe, key, {}, fresh, texts).error = "none"
    PROVE  LET cek == J!Cek(key, jwe.encrypted_key,
                            J!JoseHeader(<<jwe.protected, jwe.header, jwe.unprotected>>), fresh)
               aad == J!AdditionalData(jwe.protected, jwe.aad) IN
           /\ cek.error = "none" /\ cek.is.alg \in J!Content
           /\ \E t \in texts : /\ jwe.ciphertext = Ciphertext(cek.is, jwe.iv, aad, t)
                               /\ jwe.tag = Tag(cek.is, jwe.iv, aad, t)
<1> DEFINE hs == <<jwe.protected, jwe.header, jwe.unprotected>>
           header == J!JoseHeader(hs)
           cek == J!Cek(key, jwe.encrypted_key, header, fresh)
           aad == J!AdditionalData(jwe.protected, jwe.aad)
           data == <<jwe.ciphertext, jwe.tag>>
           text == J!Decrypt(cek.is, jwe.iv, aad, data, texts)
<1>1. cek.error = "none" /\ text.error = "none"
  <2> HIDE DEF hs, cek, aad, data
  <2>1. cek.error # "none" => J!FlattenedDecrypt(jwe, key, {}, fresh, texts).error # "none"
    BY DEF J!FlattenedDecrypt, J!Error, hs, header, cek
  <2>2. text.error # "none" => J!FlattenedDecrypt(jwe, key, {}, fresh, texts).error # "none"
    BY DEF J!FlattenedDecrypt, J!Error, hs, header, cek, aad, data
  <2> QED
    BY <2>1, <2>2
<1> HIDE DEF cek, aad, header
<1> DEFINE found == {t \in texts : J!Encrypt(cek.is, jwe.iv, aad, t) = J!Ok(data)}
<1>2. found # {}
  BY <1>1 DEF J!Decrypt, J!Error
<1>3. PICK t \in texts : J!Encrypt(cek.is, jwe.iv, aad, t) = J!Ok(data)
  BY <1>2
<1>4. cek.is.alg \in J!Content /\ J!Seal(cek.is, jwe.iv, aad, t) = data
  <2> HIDE DEF data
  <2>1. J!Encrypt(cek.is, jwe.iv, aad, t).error = "none"
    BY <1>3 DEF J!Ok
  <2>2. /\ cek.is.alg \in J!Content
        /\ J!Encrypt(cek.is, jwe.iv, aad, t) = J!Ok(J!Seal(cek.is, jwe.iv, aad, t))
    BY <2>1 DEF J!Encrypt, J!Error
  <2> QED
    BY <1>3, <2>2 DEF J!Ok
<1>5. jwe.ciphertext = Ciphertext(cek.is, jwe.iv, aad, t) /\ jwe.tag = Tag(cek.is, jwe.iv, aad, t)
  BY <1>4 DEF J!Seal, Ciphertext, Tag
<1> QED
  BY <1>1, <1>4, <1>5 DEF cek, aad, header

\* The key decrypt() goes on with is the key itself, the one that was wrapped
\* with the password, or one nobody has.
LEMMA CekIs ==
    ASSUME NEW key, NEW header, NEW wrapped, NEW fresh,
           J!Cek(key, wrapped, header, fresh).error = "none"
    PROVE  LET cek == J!Cek(key, wrapped, header, fresh).is IN
           \/ /\ header.alg = "dir" /\ wrapped = J!None /\ key.type # "password" /\ cek = key
           \/ /\ header.alg \in J!Encryption /\ key.type = "password" /\ wrapped[1] = "wrapped"
              /\ wrapped[2] = J!Kek(key, header) /\ cek = wrapped[3]
           \/ cek = J!KeyOf("jwk", header.enc, fresh)
<1> DEFINE opened == J!ManageDecrypt(key, wrapped, header)
           managed == IF wrapped = J!Malformed THEN J!Error("EncodingError") ELSE opened
           result == J!Cek(key, wrapped, header, fresh)
           other == J!KeyOf("jwk", header.enc, fresh)
<1>1. result = IF managed.error \in {"none", "InvalidJwe", "AlgorithmNotSupported"} THEN managed
               ELSE IF header.enc \notin J!Content THEN J!Error("AlgorithmNotSupported")
               ELSE J!Ok(other)
  BY DEF J!Cek
<1>2. opened.error = "none" =>
         \/ /\ header.alg = "dir" /\ wrapped = J!None /\ key.type # "password"
            /\ opened = J!Ok(key)
         \/ /\ header.alg \in J!Encryption /\ key.type = "password" /\ wrapped[1] = "wrapped"
            /\ wrapped[2] = J!Kek(key, header) /\ opened = J!Ok(wrapped[3])
  <2>1. CASE header.alg = "dir"
    BY <2>1 DEF J!ManageDecrypt, J!Error, J!Encryption
  <2>2. CASE header.alg \in J!Encryption
    BY <2>2 DEF J!ManageDecrypt, J!Error, J!Encryption
  <2>3. CASE header.alg # "dir" /\ header.alg \notin J!Encryption
    BY <2>3 DEF J!ManageDecrypt, J!Error
  <2> QED
    BY <2>1, <2>2, <2>3
<1> HIDE DEF opened, other
<1>3. managed.error = "none" => managed = opened
  BY DEF J!Error
<1>4. (result = managed /\ managed.error = "none") \/ result = J!Ok(other)
  <2>1. result.error = "none"
    OBVIOUS
  <2> HIDE DEF managed, result
  <2>2. CASE managed.error \in {"none", "InvalidJwe", "AlgorithmNotSupported"}
    BY <1>1, <2>1, <2>2
  <2>3. CASE managed.error \notin {"none", "InvalidJwe", "AlgorithmNotSupported"}
    BY <1>1, <2>1, <2>3 DEF J!Error
  <2> QED
    BY <2>2, <2>3
<1> HIDE DEF result, managed
<1>5. CASE result = J!Ok(other)
  BY <1>5 DEF J!Ok, result, other
<1>6. CASE result = managed /\ managed.error = "none"
  BY <1>2, <1>3, <1>6 DEF J!Ok, result
<1> QED
  BY <1>4, <1>5, <1>6

\* The key that sealed is found again.
LEMMA CekFound ==
    ASSUME NEW key, NEW header, NEW fresh, NEW later,
           J!ManageEncrypt(key, header, fresh).error = "none", header.enc \in J!Content
    PROVE  LET keys == J!ManageEncrypt(key, header, fresh).is IN
           J!Cek(key, keys[2], header, later) = J!Ok(keys[1])
<1> DEFINE keys == J!ManageEncrypt(key, header, fresh).is
<1>1. CASE header.alg = "dir" /\ key.type # "password"
  <2>1. keys = <<key, J!None>>
    BY <1>1, ManagedAs DEF J!Ok, J!Encryption
  <2> HIDE DEF keys
  <2>2. keys[1] = key /\ keys[2] = J!None
    BY <2>1 DEF J!None
  <2>3. J!ManageDecrypt(key, J!None, header) = J!Ok(key)
    BY <1>1 DEF J!ManageDecrypt, J!Encryption
  <2>4. J!Cek(key, J!None, header, later) = J!Ok(key)
    BY <2>3 DEF J!Cek, J!Ok, J!None, J!Malformed
  <2> QED
    BY <2>2, <2>4 DEF keys
<1>2. CASE header.alg \in J!Encryption /\ key.type = "password"
  <2> DEFINE cek == J!KeyOf("jwk", header.enc, fresh)
             wrapped == J!WrapKey(J!Kek(key, header), cek)
  <2>1. keys = <<cek, wrapped>> /\ J!Salted(header) /\ header.p2s # "malformed"
    BY <1>2, ManagedAs DEF J!Ok, J!Encryption
  <2> HIDE DEF keys, cek
  <2>2. wrapped[1] = "wrapped" /\ wrapped[2] = J!Kek(key, header) /\ wrapped[3] = cek
    BY DEF J!WrapKey
  <2>3. wrapped # J!None /\ wrapped # J!Malformed
    BY DEF J!WrapKey, J!None, J!Malformed
  <2> HIDE DEF wrapped
  <2>4. keys[1] = cek /\ keys[2] = wrapped
    BY <2>1
  <2>5. J!ManageDecrypt(key, wrapped, header) = J!Ok(cek)
    BY <1>2, <2>1, <2>2, <2>3 DEF J!ManageDecrypt, J!Encryption
  <2>6. J!Cek(key, wrapped, header, later) = J!Ok(cek)
    BY <2>3, <2>5 DEF J!Cek, J!Ok
  <2> QED
    BY <2>4, <2>6 DEF keys
<1> QED
  BY <1>1, <1>2, ManagedAs

\* Equal ciphertexts are of equal things, and so are equal tags.
LEMMA SameParts ==
    ASSUME NEW c, NEW iv, NEW a, NEW t, NEW d, NEW jv, NEW b, NEW u
    PROVE  /\ Ciphertext(c, iv, a, t) = Ciphertext(d, jv, b, u)
                 <=> c.k = d.k /\ iv = jv /\ a = b /\ t = u
           /\ Tag(c, iv, a, t) = Tag(d, jv, b, u)
                 <=> c.k = d.k /\ iv = jv /\ a = b /\ t = u
  BY DEF Ciphertext, Tag

LEMMA SameAad ==
    ASSUME NEW p, NEW a, NEW q, NEW b,
           J!AdditionalData(p, a) = J!AdditionalData(q, b)
    PROVE  p = q /\ a = b
<1>1. CASE a = J!None /\ b = J!None
  BY <1>1 DEF J!AdditionalData
<1>2. CASE a # J!None /\ b # J!None
  BY <1>2 DEF J!AdditionalData
<1>3. ~(a = J!None <=> b # J!None)
  <2>1. <<p>> # <<q, b>> /\ <<p, a>> # <<q>>
    <3>1. Len(<<p>>) = 1 /\ Len(<<q>>) = 1 /\ Len(<<p, a>>) = 2 /\ Len(<<q, b>>) = 2
      OBVIOUS
    <3> QED
      BY <3>1
  <2> QED
    BY <2>1 DEF J!AdditionalData
<1> QED
  BY <1>1, <1>2, <1>3

KeptAad(in) == IF in.aad = J!Empty THEN J!None ELSE in.aad

\* Its parts, and the key it was made for.
LEMMA MadeParts ==
    ASSUME NEW in, NEW fresh, J!FlattenedEncrypt(in, fresh).error = "none"
    PROVE  LET made == J!FlattenedEncrypt(in, fresh).is
               cek  == CekOf(in, fresh) IN
           /\ ~J!Overlap(<<in.protected, in.unprotected, in.header>>)
           /\ J!IsValidJweHeader(HeaderOf(in)) /\ HeaderOf(in).enc \in J!Content
           /\ cek.alg \in J!Content
           /\ J!ManageEncrypt(in.key, HeaderOf(in), fresh).error = "none"
           /\ made.encrypted_key = WrappedOf(in, fresh)
           /\ made.protected = in.protected /\ made.unprotected = in.unprotected
           /\ made.header = in.header /\ made.iv = J!Bytes(fresh) /\ made.aad = KeptAad(in)
           /\ made.ciphertext = Ciphertext(cek, J!Bytes(fresh), AadOf(in), in.text)
           /\ made.tag = Tag(cek, J!Bytes(fresh), AadOf(in), in.text)
           /\ DOMAIN made = {"protected", "unprotected", "header", "encrypted_key", "iv", "aad",
                             "ciphertext", "tag"}
<1> DEFINE made == J!FlattenedEncrypt(in, fresh).is
           cek == CekOf(in, fresh)
           wrapped == WrappedOf(in, fresh)
           iv == J!Bytes(fresh)
           aad == KeptAad(in)
           ciphertext == Ciphertext(cek, J!Bytes(fresh), AadOf(in), in.text)
           tag == Tag(cek, J!Bytes(fresh), AadOf(in), in.text)
<1>1. made = [protected |-> in.protected, unprotected |-> in.unprotected, header |-> in.header,
              encrypted_key |-> wrapped, iv |-> iv, aad |-> aad, ciphertext |-> ciphertext,
              tag |-> tag]
  BY MadeAs DEF KeptAad, WrappedOf
<1>2. /\ ~J!Overlap(<<in.protected, in.unprotected, in.header>>)
      /\ J!IsValidJweHeader(HeaderOf(in)) /\ HeaderOf(in).enc \in J!Content
      /\ J!ManageEncrypt(in.key, HeaderOf(in), fresh).error = "none"
  BY MadeAs
<1>3. cek.alg \in J!Content
  BY MadeAs
<1> HIDE DEF made, cek, wrapped, iv, aad, ciphertext, tag
<1>4. /\ made.encrypted_key = wrapped /\ made.protected = in.protected
      /\ made.unprotected = in.unprotected /\ made.header = in.header /\ made.iv = iv
      /\ made.aad = aad /\ made.ciphertext = ciphertext /\ made.tag = tag
      /\ DOMAIN made = {"protected", "unprotected", "header", "encrypted_key", "iv", "aad",
                        "ciphertext", "tag"}
  BY <1>1
<1> QED
  BY <1>2, <1>3, <1>4 DEF made, cek, wrapped, iv, aad, ciphertext, tag

LEMMA MadeFor ==
    ASSUME NEW in, NEW fresh, J!FlattenedEncrypt(in, fresh).error = "none"
    PROVE  LET made == J!FlattenedEncrypt(in, fresh).is
               cek  == CekOf(in, fresh)
               header == HeaderOf(in) IN
           \/ /\ header.alg = "dir" /\ header.alg \notin J!Encryption /\ in.key.type # "password"
              /\ cek = in.key /\ made.encrypted_key = J!None
           \/ /\ header.alg \in J!Encryption /\ header.alg # "dir" /\ in.key.type = "password"
              /\ J!Salted(header) /\ header.p2s # "malformed"
              /\ cek = J!KeyOf("jwk", header.enc, fresh)
              /\ made.encrypted_key = J!WrapKey(J!Kek(in.key, header), cek)
<1> DEFINE made == J!FlattenedEncrypt(in, fresh).is
           header == HeaderOf(in)
           keys == J!ManageEncrypt(in.key, header, fresh)
           is == keys.is
           own == J!KeyOf("jwk", header.enc, fresh)
           wrapped == J!WrapKey(J!Kek(in.key, header), own)
<1>1. keys.error = "none" /\ made.encrypted_key = is[2] /\ CekOf(in, fresh) = is[1]
  <2>1. CekOf(in, fresh) = is[1]
    BY Zenon DEF CekOf
  <2>2. keys.error = "none"
    BY MadeParts
  <2>3. WrappedOf(in, fresh) = is[2]
    BY Zenon DEF WrappedOf
  <2> HIDE DEF keys, header, is
  <2>4. made.encrypted_key = WrappedOf(in, fresh)
    BY MadeParts
  <2> QED
    BY <2>1, <2>2, <2>3, <2>4, Zenon
<1>2. \/ header.alg = "dir" /\ in.key.type # "password" /\ keys = J!Ok(<<in.key, J!None>>)
      \/ /\ header.alg \in J!Encryption /\ in.key.type = "password" /\ J!Salted(header)
         /\ header.p2s # "malformed" /\ keys = J!Ok(<<own, wrapped>>)
  BY <1>1, ManagedAs
<1> HIDE DEF made, header, own, wrapped
<1>3. ASSUME NEW x, NEW y, keys = J!Ok(<<x, y>>) PROVE is[1] = x /\ is[2] = y
  <2> HIDE DEF keys
  <2>1. keys.is = <<x, y>>
    BY <1>3 DEF J!Ok
  <2> HIDE DEF is
  <2>2. is = <<x, y>>
    BY <2>1 DEF is
  <2> QED
    BY <2>2
<1>4. header.alg = "dir" => header.alg \notin J!Encryption
  BY DEF J!Encryption
<1>5. CASE header.alg = "dir" /\ in.key.type # "password" /\ keys = J!Ok(<<in.key, J!None>>)
  <2>1. is[1] = in.key /\ is[2] = J!None
    BY <1>3, <1>5
  <2> HIDE DEF is
  <2> QED
    BY <1>1, <1>4, <1>5, <2>1 DEF made, header
<1>6. CASE /\ header.alg \in J!Encryption /\ in.key.type = "password" /\ J!Salted(header)
           /\ header.p2s # "malformed" /\ keys = J!Ok(<<own, wrapped>>)
  <2>1. is[1] = own /\ is[2] = wrapped
    BY <1>3, <1>6
  <2> HIDE DEF is, keys
  <2> QED
    BY <1>1, <1>4, <1>6, <2>1 DEF made, header, own, wrapped
<1> QED
  BY <1>2, <1>5, <1>6

\* A JWE with one key does not open with another.
LEMMA OtherKeyRefused ==
    ASSUME NEW in, NEW fresh, J!FlattenedEncrypt(in, fresh).error = "none",
           NEW key, NEW later, later # fresh, later # in.key.k, NEW texts,
           \/ key.k # in.key.k
           \/ key.alg \notin J!Content /\ key.type # "password"
    PROVE  J!FlattenedDecrypt(J!FlattenedEncrypt(in, fresh).is, key, {}, later, texts).error # "none"
<1> DEFINE made == J!FlattenedEncrypt(in, fresh).is
           header == HeaderOf(in)
           cek == CekOf(in, fresh)
           wrapped == made.encrypted_key
           jose == J!JoseHeader(<<made.protected, made.header, made.unprotected>>)
           found == J!Cek(key, wrapped, jose, later)
<1> SUFFICES ASSUME J!FlattenedDecrypt(made, key, {}, later, texts).error = "none"
             PROVE  FALSE
  OBVIOUS
<1>1. /\ made.ciphertext = Ciphertext(cek, J!Bytes(fresh), AadOf(in), in.text)
      /\ made.protected = in.protected /\ made.unprotected = in.unprotected
      /\ made.header = in.header
      /\ ~J!Overlap(<<in.protected, in.unprotected, in.header>>)
  BY MadeParts
<1>2. \/ /\ header.alg = "dir" /\ header.alg \notin J!Encryption
         /\ cek = in.key
      \/ /\ header.alg \in J!Encryption /\ header.alg # "dir"
         /\ cek = J!KeyOf("jwk", header.enc, fresh)
         /\ wrapped = J!WrapKey(J!Kek(in.key, header), cek)
  BY MadeFor
<1>3. /\ found.error = "none" /\ found.is.alg \in J!Content
      /\ \E iv, aad, t : made.ciphertext = Ciphertext(found.is, iv, aad, t)
  <2> HIDE DEF made
  <2> DEFINE additional == J!AdditionalData(made.protected, made.aad)
  <2>1. /\ found.error = "none" /\ found.is.alg \in J!Content
        /\ \E t \in texts : /\ made.ciphertext = Ciphertext(found.is, made.iv, additional, t)
                            /\ made.tag = Tag(found.is, made.iv, additional, t)
    BY OpenedMeans
  <2> HIDE DEF found, additional
  <2> QED
    BY <2>1
<1>4. jose = header
  <2>1. jose = J!JoseHeader(<<in.protected, in.header, in.unprotected>>)
    <3> HIDE DEF made
    <3> QED
      BY <1>1
  <2> HIDE DEF jose
  <2> QED
    BY <1>1, <2>1, SameHeader DEF HeaderOf
<1>5. found.error = "none" => LET is == found.is IN
      \/ /\ jose.alg = "dir" /\ key.type # "password" /\ is = key
      \/ /\ jose.alg \in J!Encryption /\ key.type = "password" /\ wrapped[1] = "wrapped"
         /\ wrapped[2] = J!Kek(key, jose) /\ is = wrapped[3]
      \/ is = J!KeyOf("jwk", jose.enc, later)
  <2> HIDE DEF made, jose, wrapped
  <2> QED
    BY CekIs
<1> DEFINE is == found.is
<1> HIDE DEF made, jose, cek, header, wrapped, found
<1>6. is.k = cek.k /\ is.alg \in J!Content
  <2>1. PICK iv, aad, t : made.ciphertext = Ciphertext(is, iv, aad, t)
    BY <1>3
  <2> HIDE DEF is
  <2>2. Ciphertext(is, iv, aad, t) = Ciphertext(cek, J!Bytes(fresh), AadOf(in), in.text)
    BY <1>1, <2>1
  <2>3. is.k = cek.k
    BY <2>2, SameParts
  <2> QED
    BY <1>3, <2>3 DEF is
<1>7. \/ header.alg = "dir" /\ key.type # "password" /\ is = key
      \/ header.alg \in J!Encryption /\ key.type = "password" /\ wrapped[2] = J!Kek(key, header)
      \/ is = J!KeyOf("jwk", header.enc, later)
  BY <1>3, <1>4, <1>5
<1> HIDE DEF is
<1>8. CASE header.alg = "dir" /\ header.alg \notin J!Encryption /\ cek = in.key
  <2>1. is = J!KeyOf("jwk", header.enc, later) => is.k = later
    BY DEF J!KeyOf
  <2> QED
    BY <1>6, <1>7, <1>8, <2>1
<1>9. CASE /\ header.alg \in J!Encryption /\ header.alg # "dir"
           /\ cek = J!KeyOf("jwk", header.enc, fresh)
           /\ wrapped = J!WrapKey(J!Kek(in.key, header), cek)
  <2>1. wrapped[2] = J!Kek(in.key, header)
    BY <1>9 DEF J!WrapKey
  <2>2. J!Kek(key, header) = J!Kek(in.key, header) => key.k = in.key.k
    BY DEF J!Kek
  <2>3. cek.k = fresh
    BY <1>9 DEF J!KeyOf
  <2>4. is = J!KeyOf("jwk", header.enc, later) => is.k = later
    BY DEF J!KeyOf
  <2> QED
    BY <1>6, <1>7, <1>9, <2>1, <2>2, <2>3, <2>4
<1> QED
  BY <1>2, <1>8, <1>9

\* The parts after a replacement; what decrypt() makes of the header.
LEMMA OwnHeader ==
    ASSUME NEW in, NEW fresh, J!FlattenedEncrypt(in, fresh).error = "none",
           NEW jwe, jwe.protected = in.protected, jwe.unprotected = in.unprotected,
           jwe.header = in.header
    PROVE  /\ J!JoseHeader(<<jwe.protected, jwe.header, jwe.unprotected>>) = HeaderOf(in)
           /\ ~J!Overlap(<<jwe.protected, jwe.header, jwe.unprotected>>)
<1>1. ~J!Overlap(<<in.protected, in.unprotected, in.header>>)
  BY MadeParts
<1> QED
  BY <1>1, SameHeader DEF HeaderOf

\* A JWE of which one part was replaced does not open: whatever the part is
\* replaced with, but for an empty aad and a key wrapped again.
Replaces(in, fresh, part, value) ==
    /\ part \in {"protected", "encrypted_key", "iv", "aad", "ciphertext", "tag"}
    /\ value # J!FlattenedEncrypt(in, fresh).is[part]
    /\ part = "aad" => value # J!Empty
    /\ part = "encrypted_key" => (value[1] = "wrapped" => value[3].k # fresh)

LEMMA ReplacedRefused ==
    ASSUME NEW in, NEW fresh, J!FlattenedEncrypt(in, fresh).error = "none",
           NEW later, later # fresh, later # in.key.k, NEW texts, NEW part, NEW value,
           Replaces(in, fresh, part, value)
    PROVE  LET made == J!FlattenedEncrypt(in, fresh).is IN
           J!FlattenedDecrypt([made EXCEPT ![part] = value], in.key, {}, later, texts).error # "none"
<1> DEFINE made == J!FlattenedEncrypt(in, fresh).is
           jwe == [made EXCEPT ![part] = value]
           cek == CekOf(in, fresh)
           jose == J!JoseHeader(<<jwe.protected, jwe.header, jwe.unprotected>>)
           found == J!Cek(in.key, jwe.encrypted_key, jose, later)
           aad == J!AdditionalData(jwe.protected, jwe.aad)
<1> SUFFICES ASSUME J!FlattenedDecrypt(jwe, in.key, {}, later, texts).error = "none"
             PROVE  FALSE
  OBVIOUS
<1>0. /\ part \in {"protected", "encrypted_key", "iv", "aad", "ciphertext", "tag"}
      /\ made[part] # value
      /\ part = "aad" => value # J!Empty
      /\ part = "encrypted_key" => (value[1] = "wrapped" => value[3].k # fresh)
  BY DEF Replaces
<1>1. /\ made.protected = in.protected /\ made.unprotected = in.unprotected
      /\ made.header = in.header /\ made.iv = J!Bytes(fresh) /\ made.aad = KeptAad(in)
      /\ made.ciphertext = Ciphertext(cek, J!Bytes(fresh), AadOf(in), in.text)
      /\ made.tag = Tag(cek, J!Bytes(fresh), AadOf(in), in.text)
  BY MadeParts
<1>2. DOMAIN made = {"protected", "unprotected", "header", "encrypted_key", "iv", "aad",
                     "ciphertext", "tag"}
  BY MadeParts
<1>3. found.error = "none" /\ found.is.alg \in J!Content
      /\ \E t \in texts : /\ jwe.ciphertext = Ciphertext(found.is, jwe.iv, aad, t)
                          /\ jwe.tag = Tag(found.is, jwe.iv, aad, t)
  <2> HIDE DEF jwe
  <2> QED
    BY OpenedMeans
<1> DEFINE is == found.is
<1>4. PICK t \in texts : /\ jwe.ciphertext = Ciphertext(is, jwe.iv, aad, t)
                         /\ jwe.tag = Tag(is, jwe.iv, aad, t)
  BY <1>3
<1> HIDE DEF made, cek, found, aad, is
<1>6. /\ part # "protected" => jwe.protected = made.protected
      /\ part # "encrypted_key" => jwe.encrypted_key = made.encrypted_key
      /\ part # "iv" => jwe.iv = made.iv
      /\ part # "aad" => jwe.aad = made.aad
      /\ part # "ciphertext" => jwe.ciphertext = made.ciphertext
      /\ part # "tag" => jwe.tag = made.tag
      /\ jwe.header = made.header /\ jwe.unprotected = made.unprotected
      /\ jwe[part] = value
  BY <1>0, <1>2
<1> HIDE DEF jwe, jose
<1>7. CASE part \in {"protected", "iv", "aad"}
  <2>1. aad = AadOf(in) /\ jwe.iv = made.iv
    BY <1>1, <1>4, <1>6, <1>7, SameParts
  <2>2. jwe.protected = in.protected /\ jwe.aad = in.aad
    BY <2>1, SameAad DEF aad, AadOf
  <2>3. part # "protected" /\ part # "iv"
    BY <1>1, <1>0, <1>6, <2>1, <2>2
  <2>4. part = "aad" /\ jwe.aad = value /\ made.aad # value
    BY <1>0, <1>6, <1>7, <2>3
  <2> QED
    BY <1>0, <1>1, <2>2, <2>4 DEF KeptAad
<1>8. CASE part = "ciphertext"
  BY <1>1, <1>4, <1>0, <1>6, <1>8, SameParts
<1>9. CASE part = "tag"
  BY <1>1, <1>4, <1>0, <1>6, <1>9, SameParts
<1>10. CASE part = "encrypted_key"
  <2> DEFINE header == HeaderOf(in)
             wrapped == jwe.encrypted_key
  <2>1. Ciphertext(is, jwe.iv, aad, t) = Ciphertext(cek, J!Bytes(fresh), AadOf(in), in.text)
    BY <1>1, <1>4, <1>6, <1>10
  <2>2. is.k = cek.k
    BY <2>1, SameParts
  <2>3. jose = header
    BY <1>1, <1>6, <1>10, OwnHeader DEF jose
  <2>4. \/ /\ header.alg = "dir" /\ header.alg \notin J!Encryption /\ cek = in.key
           /\ made.encrypted_key = J!None
        \/ /\ header.alg \in J!Encryption /\ header.alg # "dir"
           /\ cek = J!KeyOf("jwk", header.enc, fresh)
    <3> HIDE DEF header
    <3> QED
      BY MadeFor DEF made, cek, header
  <2>5. \/ jose.alg = "dir" /\ wrapped = J!None
        \/ jose.alg \in J!Encryption /\ wrapped[1] = "wrapped" /\ is = wrapped[3]
        \/ is = J!KeyOf("jwk", jose.enc, later)
    <3> HIDE DEF header
    <3> QED
      BY <1>3, CekIs DEF found, is
  <2>6. wrapped = value /\ made.encrypted_key # value
    BY <1>0, <1>6, <1>10
  <2> HIDE DEF wrapped, header
  <2>7. is = J!KeyOf("jwk", header.enc, later) => is.k = later
    BY DEF J!KeyOf
  <2>8. CASE /\ header.alg = "dir" /\ header.alg \notin J!Encryption /\ cek = in.key
             /\ made.encrypted_key = J!None
    BY <2>2, <2>3, <2>5, <2>6, <2>7, <2>8
  <2>9. CASE /\ header.alg \in J!Encryption /\ header.alg # "dir"
             /\ cek = J!KeyOf("jwk", header.enc, fresh)
    <3>1. cek.k = fresh
      BY <2>9 DEF J!KeyOf
    <3> QED
      BY <1>0, <1>10, <2>2, <2>3, <2>5, <2>6, <2>7, <2>9, <3>1
  <2> QED
    BY <2>4, <2>8, <2>9
<1> QED
  BY <1>0, <1>7, <1>8, <1>9, <1>10

LEMMA NoneOrEmpty == J!None # J!Empty /\ J!Malformed # J!Empty /\ J!None # J!Malformed
  BY DEF J!None, J!Empty, J!Malformed

\* Nor one that was made with an empty aad, which it does not keep.
LEMMA EmptyAadRefused ==
    ASSUME NEW in, NEW fresh, J!FlattenedEncrypt(in, fresh).error = "none",
           in.aad = J!Empty, NEW key, NEW later, NEW texts
    PROVE  J!FlattenedDecrypt(J!FlattenedEncrypt(in, fresh).is, key, {}, later, texts).error # "none"
<1> DEFINE made == J!FlattenedEncrypt(in, fresh).is
           aad == J!AdditionalData(made.protected, made.aad)
<1> SUFFICES ASSUME J!FlattenedDecrypt(made, key, {}, later, texts).error = "none"
             PROVE  FALSE
  OBVIOUS
<1>1. /\ made.aad = J!None
      /\ made.ciphertext = Ciphertext(CekOf(in, fresh), J!Bytes(fresh), AadOf(in), in.text)
  BY MadeParts DEF KeptAad
<1>2. PICK cek, t : made.ciphertext = Ciphertext(cek, made.iv, aad, t)
  <2> HIDE DEF made
  <2> QED
    BY OpenedMeans
<1> HIDE DEF made, aad
<1>3. aad = AadOf(in)
  <2>1. Ciphertext(cek, made.iv, aad, t) =
            Ciphertext(CekOf(in, fresh), J!Bytes(fresh), AadOf(in), in.text)
    BY <1>1, <1>2
  <2> QED
    BY <2>1, SameParts
<1>4. made.aad = in.aad
  BY <1>3, SameAad DEF aad, AadOf
<1> QED
  BY <1>1, <1>4, NoneOrEmpty

\* With the key it was made for a JWE opens to what was encrypted.
LEMMA OwnKeyOpens ==
    ASSUME NEW in, NEW fresh, J!FlattenedEncrypt(in, fresh).error = "none",
           "malformed" \notin DOMAIN in.protected, in.aad # J!Empty, in.aad # J!Malformed,
           J!Bytes(fresh) # J!Empty, NEW later, NEW texts, in.text \in texts
    PROVE  J!FlattenedDecrypt(J!FlattenedEncrypt(in, fresh).is, in.key, {}, later, texts) =
              J!Ok([text |-> in.text, protected |-> in.protected, unprotected |-> in.unprotected,
                    header |-> in.header, aad |-> in.aad])
<1> DEFINE made == J!FlattenedEncrypt(in, fresh).is
           cek == CekOf(in, fresh)
           jose == J!JoseHeader(<<made.protected, made.header, made.unprotected>>)
           found == J!Cek(in.key, made.encrypted_key, jose, later)
           aad == J!AdditionalData(made.protected, made.aad)
           data == <<made.ciphertext, made.tag>>
           text == J!Decrypt(found.is, made.iv, aad, data, texts)
           iv == J!Bytes(fresh)
           over == J!Overlap(<<made.protected, made.header, made.unprotected>>)
<1>1. /\ made.protected = in.protected /\ made.unprotected = in.unprotected
      /\ made.header = in.header /\ made.iv = J!Bytes(fresh) /\ made.aad = KeptAad(in)
      /\ made.ciphertext = Ciphertext(cek, J!Bytes(fresh), AadOf(in), in.text)
      /\ made.tag = Tag(cek, J!Bytes(fresh), AadOf(in), in.text)
      /\ cek.alg \in J!Content /\ HeaderOf(in).enc \in J!Content
      /\ J!IsValidJweHeader(HeaderOf(in))
  BY MadeParts
<1>2. J!ManageEncrypt(in.key, HeaderOf(in), fresh).error = "none"
      /\ made.encrypted_key = WrappedOf(in, fresh)
  BY MadeParts
<1>3. jose = HeaderOf(in) /\ ~over
  <2> HIDE DEF made
  <2> QED
    BY <1>1, OwnHeader
<1>4. found = J!Ok(cek)
  <2> HIDE DEF made, cek, jose
  <2>1. J!Cek(in.key, WrappedOf(in, fresh), HeaderOf(in), later) = J!Ok(CekOf(in, fresh))
    BY <1>1, <1>2, CekFound DEF WrappedOf, CekOf
  <2> QED
    BY <1>2, <1>3, <2>1 DEF cek
<1>5. made.aad = in.aad /\ aad = AadOf(in)
  BY <1>1 DEF KeptAad, AadOf
<1> HIDE DEF made, cek, jose, found, aad, over, iv
<1>6. found.is = cek /\ found.error = "none"
  BY <1>4 DEF J!Ok
<1>7. data = J!Seal(cek, iv, aad, in.text)
  BY <1>1, <1>5 DEF J!Seal, Ciphertext, Tag, iv
<1>8. iv \notin {J!None, J!Empty}
  BY DEF iv, J!Bytes, J!None
<1>9. \A t : J!Encrypt(cek, iv, aad, t) = J!Ok(J!Seal(cek, iv, aad, t))
  BY <1>1, <1>8 DEF J!Encrypt
<1> HIDE DEF data
<1>10. {t \in texts : J!Encrypt(cek, iv, aad, t) = J!Ok(data)} = {in.text}
  <2>1. ASSUME NEW t, J!Ok(J!Seal(cek, iv, aad, t)) = J!Ok(J!Seal(cek, iv, aad, in.text))
        PROVE  t = in.text
    <3>1. J!Seal(cek, iv, aad, t) = J!Seal(cek, iv, aad, in.text)
      BY <2>1 DEF J!Ok
    <3> QED
      BY <3>1 DEF J!Seal
  <2> QED
    BY <1>7, <1>9, <2>1
<1>11. text = J!Ok(in.text)
  <2>1. made.iv = iv
    BY <1>1 DEF iv
  <2> QED
    BY <1>6, <1>10, <2>1 DEF J!Decrypt
<1> HIDE DEF text
<1>12. J!Malformed \notin {made.iv, made.tag, made.ciphertext, made.aad}
  BY <1>1, <1>5 DEF J!Malformed, J!Bytes, Ciphertext, Tag
<1>13. "malformed" \notin DOMAIN made.protected /\ J!IsValidJweHeader(jose)
  BY <1>1, <1>3
<1>14. text.error = "none" /\ text.is = in.text
  BY <1>11 DEF J!Ok
<1>15. J!FlattenedDecrypt(made, in.key, {}, later, texts) =
          J!Ok([text |-> text.is, protected |-> made.protected, unprotected |-> made.unprotected,
                header |-> made.header, aad |-> made.aad])
  <2>1. ~("malformed" \in DOMAIN made.protected \/ over \/ ~J!IsValidJweHeader(jose))
    BY <1>3, <1>13
  <2> QED
    BY <1>6, <1>12, <1>14, <2>1, Zenon DEF J!FlattenedDecrypt, over, jose, found, text, aad, data
<1> QED
  BY <1>1, <1>5, <1>14, <1>15 DEF made

\* Who has the right parts and the wrong key, or the right key and wrong parts,
\* learns only that it fails.
LEMMA FailsAlike ==
    ASSUME NEW jwe, NEW key, NEW later, NEW texts,
           "malformed" \notin DOMAIN jwe.protected,
           ~J!Overlap(<<jwe.protected, jwe.header, jwe.unprotected>>),
           J!IsValidJweHeader(J!JoseHeader(<<jwe.protected, jwe.header, jwe.unprotected>>)),
           J!Cek(key, jwe.encrypted_key,
                 J!JoseHeader(<<jwe.protected, jwe.header, jwe.unprotected>>), later).error = "none",
           J!Malformed \notin {jwe.iv, jwe.tag, jwe.ciphertext, jwe.aad}
    PROVE  J!FlattenedDecrypt(jwe, key, {}, later, texts).error \in {"none", "OperationError"}
<1> DEFINE hs == <<jwe.protected, jwe.header, jwe.unprotected>>
           jose == J!JoseHeader(hs)
           found == J!Cek(key, jwe.encrypted_key, jose, later)
           aad == J!AdditionalData(jwe.protected, jwe.aad)
           data == <<jwe.ciphertext, jwe.tag>>
           text == J!Decrypt(found.is, jwe.iv, aad, data, texts)
           result == J!Ok([text |-> text.is, protected |-> jwe.protected,
                           unprotected |-> jwe.unprotected, header |-> jwe.header, aad |-> jwe.aad])
<1>1. J!FlattenedDecrypt(jwe, key, {}, later, texts) =
          IF text.error # "none" THEN text ELSE result
  <2>1. ~("malformed" \in DOMAIN jwe.protected \/ J!Overlap(hs) \/ ~J!IsValidJweHeader(jose))
    OBVIOUS
  <2>2. found.error = "none" /\ J!Malformed \notin {jwe.iv, jwe.tag, jwe.ciphertext, jwe.aad}
    OBVIOUS
  <2> QED
    BY <2>1, <2>2, Zenon DEF J!FlattenedDecrypt
<1>2. text.error \in {"none", "OperationError"}
  <2> HIDE DEF found, aad, data
  <2> QED
    BY DEF J!Decrypt, J!Error, J!Ok
<1>3. result.error = "none"
  BY DEF J!Ok
<1> HIDE DEF text, result
<1> QED
  BY <1>1, <1>2, <1>3

\* A password always leads to some key, so that a wrong one is not told from a
\* wrong tag.
LEMMA PasswordFails ==
    ASSUME NEW in, NEW fresh, J!FlattenedEncrypt(in, fresh).error = "none",
           in.key.type = "password", "malformed" \notin DOMAIN in.protected,
           NEW jwe, jwe.protected = in.protected, jwe.unprotected = in.unprotected,
           jwe.header = in.header, jwe.encrypted_key # J!None,
           J!Malformed \notin {jwe.iv, jwe.tag, jwe.ciphertext, jwe.aad},
           NEW key, key.type = "password", NEW later, NEW texts,
           J!FlattenedDecrypt(jwe, key, {}, later, texts).error # "none"
    PROVE  J!FlattenedDecrypt(jwe, key, {}, later, texts).error = "OperationError"
<1> DEFINE header == HeaderOf(in)
           jose == J!JoseHeader(<<jwe.protected, jwe.header, jwe.unprotected>>)
           over == J!Overlap(<<jwe.protected, jwe.header, jwe.unprotected>>)
           found == J!Cek(key, jwe.encrypted_key, jose, later)
<1>1. J!IsValidJweHeader(header) /\ header.enc \in J!Content
  BY MadeParts
<1>2. /\ header.alg \in J!Encryption /\ header.alg # "dir" /\ J!Salted(header)
      /\ header.p2s # "malformed"
  BY MadeFor
<1>3. jose = header /\ ~over
  BY OwnHeader
<1> HIDE DEF header, jose, over
<1>4. found.error = "none"
  <2> DEFINE wrapped == jwe.encrypted_key
             opened == J!ManageDecrypt(key, wrapped, header)
             managed == IF wrapped = J!Malformed THEN J!Error("EncodingError") ELSE opened
  <2> HIDE DEF wrapped
  <2>1. wrapped # J!None
    BY DEF wrapped
  <2>2. opened.error \in {"none", "OperationError"}
    BY <1>1, <1>2, <2>1 DEF J!ManageDecrypt, J!Ok, J!Error
  <2> HIDE DEF opened
  <2>3. managed.error \in {"none", "OperationError", "EncodingError"}
    BY <2>2 DEF J!Error
  <2>4. J!Cek(key, wrapped, header, later) =
            IF managed.error \in {"none", "InvalidJwe", "AlgorithmNotSupported"} THEN managed
            ELSE IF header.enc \notin J!Content THEN J!Error("AlgorithmNotSupported")
            ELSE J!Ok(J!KeyOf("jwk", header.enc, later))
    BY DEF J!Cek, opened
  <2> HIDE DEF managed
  <2>5. J!Cek(key, wrapped, header, later).error = "none"
    BY <1>1, <2>3, <2>4 DEF J!Ok
  <2> QED
    BY <1>3, <2>5 DEF wrapped
<1>5. J!FlattenedDecrypt(jwe, key, {}, later, texts).error \in {"none", "OperationError"}
  BY <1>1, <1>3, <1>4, FailsAlike DEF jose, over, found
<1> QED
  BY <1>5

LEMMA Encrypts ==
    ASSUME NEW in, NEW fresh, ~J!Overlap(<<in.protected, in.unprotected, in.header>>),
           J!IsValidJweHeader(HeaderOf(in)), HeaderOf(in).enc \in J!Content,
           J!ManageEncrypt(in.key, HeaderOf(in), fresh).error = "none",
           CekOf(in, fresh).alg \in J!Content, J!Bytes(fresh) # J!Empty
    PROVE  J!FlattenedEncrypt(in, fresh).error = "none"
<1> DEFINE hs == <<in.protected, in.unprotected, in.header>>
           header == HeaderOf(in)
           keys == J!ManageEncrypt(in.key, header, fresh)
           cek == keys.is[1]
           iv == IF header.enc \in J!Content THEN J!Bytes(fresh) ELSE J!Empty
           sealed == J!Encrypt(cek, iv, AadOf(in), in.text)
           made == [protected |-> in.protected, unprotected |-> in.unprotected,
                    header |-> in.header, encrypted_key |-> keys.is[2], iv |-> iv,
                    aad |-> IF in.aad = J!Empty THEN J!None ELSE in.aad,
                    ciphertext |-> sealed.is[1], tag |-> sealed.is[2]]
<1>1. J!FlattenedEncrypt(in, fresh) =
         IF J!Overlap(hs) \/ ~J!IsValidJweHeader(header) THEN J!Error("InvalidJwe")
         ELSE IF keys.error # "none" THEN keys
         ELSE IF sealed.error # "none" THEN sealed ELSE J!Ok(made)
  BY DEF J!FlattenedEncrypt, HeaderOf, AadOf
<1>2. sealed.error = "none"
  <2>1. cek.alg \in J!Content
    BY DEF CekOf
  <2>2. iv \notin {J!None, J!Empty}
    BY DEF J!Bytes, J!None
  <2> HIDE DEF cek, iv
  <2> QED
    BY <2>1, <2>2 DEF J!Encrypt, J!Ok
<1>3. J!Ok(made).error = "none"
  <2> HIDE DEF made
  <2> QED
    BY DEF J!Ok
<1> HIDE DEF made, sealed
<1> QED
  BY <1>1, <1>2, <1>3

-----------------------------------------------------------------------------
(* The samples *)

LEMMA KeysAre ==
    /\ \A key \in J!Keys : /\ key.k \in {"k1", "k2", "k3", "k4"}
                           /\ key.alg # "A256KW" /\ key.type # "password" => key.alg = "A256GCM"
    /\ \A key, other \in J!Keys : key # other /\ key.k = other.k =>
          \/ key.alg = "A256KW" /\ key.type # "password"
          \/ other.alg = "A256KW" /\ other.type # "password"
  BY DEF J!Keys, J!KeyOf

LEMMA Fresh8 == J!Bytes("f8") # J!Empty /\ J!Bytes("f9") # J!Empty /\ J!Bytes("b") # J!Empty
  BY DEF J!Bytes, J!Empty

LEMMA Alone ==
    ASSUME NEW h, h = [n \in DOMAIN h |-> h[n]]
    PROVE  J!JoseHeader(<<h, <<>>, <<>>>>) = h /\ ~J!Overlap(<<h, <<>>, <<>>>>)
<1> DEFINE e == <<>>
<1>1. DOMAIN e = {}
  OBVIOUS
<1> HIDE DEF e
<1>2. J!JoseHeader(<<h, e, e>>) = h
  BY <1>1 DEF J!JoseHeader, J!Joined
<1>3. ~J!Overlap(<<h, e, e>>)
  <2> DEFINE hs == <<h, e, e>>
  <2>1. DOMAIN hs = {1, 2, 3} /\ hs[2] = e /\ hs[3] = e
    OBVIOUS
  <2> HIDE DEF hs
  <2>2. \A i, j \in DOMAIN hs : i # j => DOMAIN hs[i] \cap DOMAIN hs[j] = {}
    BY <1>1, <2>1
  <2> QED
    BY <2>2 DEF J!Overlap, hs
<1> QED
  BY <1>2, <1>3 DEF e

\* The JWE whose parts take the place of others.
OtherIn(key) ==
    [protected |-> [alg |-> IF key.type = "password" THEN "PBES2-HS512+A256KW" ELSE "dir",
                    enc |-> "A256GCM", p2c |-> "1", p2s |-> "salt"],
     unprotected |-> <<>>, header |-> <<>>, key |-> key, aad |-> J!Bytes("b"),
     text |-> J!Bytes("other")]

LEMMA OtherMade ==
    ASSUME NEW key \in J!Keys, key.alg # "A256KW"
    PROVE  LET made == J!FlattenedEncrypt(OtherIn(key), "f9").is IN
           /\ made.aad = J!Bytes("b")
           /\ made.encrypted_key[1] = "wrapped" => made.encrypted_key[3].k = "f9"
<1> DEFINE in == OtherIn(key)
           header == [alg |-> IF key.type = "password" THEN "PBES2-HS512+A256KW" ELSE "dir",
                      enc |-> "A256GCM", p2c |-> "1", p2s |-> "salt"]
           made == J!FlattenedEncrypt(in, "f9").is
           own == J!KeyOf("jwk", "A256GCM", "f9")
           e == <<>>
<1>1. /\ in.protected = header /\ in.unprotected = e /\ in.header = e
      /\ in.key = key /\ in.aad = J!Bytes("b")
  <2> HIDE DEF header, e
  <2> QED
    BY DEF OtherIn, header, e
<1>2. header.alg = IF key.type = "password" THEN "PBES2-HS512+A256KW" ELSE "dir"
  OBVIOUS
<1>3. /\ header.enc = "A256GCM" /\ header.p2c = "1" /\ header.p2s = "salt"
      /\ DOMAIN header = {"alg", "enc", "p2c", "p2s"}
  OBVIOUS
<1>4. header = [n \in DOMAIN header |-> header[n]]
  OBVIOUS
<1> HIDE DEF in, header
<1>5. HeaderOf(in) = header /\ ~J!Overlap(<<in.protected, in.unprotected, in.header>>)
  BY <1>1, <1>4, Alone DEF HeaderOf
<1>6. J!IsValidJweHeader(header) /\ header.enc \in J!Content /\ J!Salted(header)
  BY <1>3 DEF J!IsValidJweHeader, J!Content, J!Salted
<1>7. \/ J!ManageEncrypt(key, header, "f9") = J!Ok(<<key, J!None>>) /\ key.alg = "A256GCM"
      \/ \E wrapped : J!ManageEncrypt(key, header, "f9") = J!Ok(<<own, wrapped>>)
  <2>1. CASE key.type = "password"
    <3>1. header.alg = "PBES2-HS512+A256KW"
      BY <1>2, <2>1
    <3>2. J!ManageEncrypt(key, header, "f9") =
             LET cek == J!KeyOf("jwk", header.enc, "f9") IN
             J!Ok(<<cek, J!WrapKey(J!Kek(key, header), cek)>>)
      BY <1>3, <1>6, <2>1, <3>1 DEF J!ManageEncrypt, J!Encryption
    <3> QED
      BY <1>3, <3>2
  <2>2. CASE key.type # "password"
    <3>1. header.alg = "dir" /\ key.alg = "A256GCM"
      BY <1>2, <2>2, KeysAre
    <3>2. J!ManageEncrypt(key, header, "f9") = J!Ok(<<key, J!None>>)
      BY <2>2, <3>1 DEF J!ManageEncrypt, J!Encryption
    <3> QED
      BY <3>1, <3>2, Zenon
  <2> QED
    BY <2>1, <2>2
<1>8. J!ManageEncrypt(key, header, "f9").error = "none" /\ CekOf(in, "f9").alg \in J!Content
  <2> DEFINE keys == J!ManageEncrypt(key, header, "f9")
             is == keys.is
  <2>1. keys.error = "none"
    BY <1>7 DEF J!Ok
  <2>2. CekOf(in, "f9") = is[1]
    BY <1>1, <1>5 DEF CekOf
  <2>3. (is = <<key, J!None>> /\ key.alg = "A256GCM") \/ \E wrapped : is = <<own, wrapped>>
    BY <1>7 DEF J!Ok
  <2>4. own.alg = "A256GCM"
    BY DEF J!KeyOf
  <2> HIDE DEF is, own
  <2>5. is[1].alg = "A256GCM"
    <3>1. CASE is = <<key, J!None>> /\ key.alg = "A256GCM"
      <4>1. is[1] = key
        BY <3>1
      <4> QED
        BY <3>1, <4>1
    <3>2. CASE \E wrapped : is = <<own, wrapped>>
      <4>1. is[1] = own
        BY <3>2
      <4> QED
        BY <2>4, <4>1
    <3> QED
      BY <2>3, <3>1, <3>2
  <2> QED
    BY <2>1, <2>2, <2>5 DEF J!Content
<1>9. J!FlattenedEncrypt(in, "f9").error = "none"
  BY <1>1, <1>5, <1>6, <1>8, Encrypts, Fresh8
<1>10. made.aad = J!Bytes("b")
  <2>1. made.aad = KeptAad(in)
    BY <1>9, MadeParts
  <2> QED
    BY <1>1, <2>1, Fresh8 DEF KeptAad
<1>11. \/ made.encrypted_key = J!None
       \/ \E kek : made.encrypted_key = J!WrapKey(kek, J!KeyOf("jwk", HeaderOf(in).enc, "f9"))
  <2> HIDE DEF made
  <2> QED
    BY <1>9, MadeFor DEF made
<1> DEFINE wrapped == made.encrypted_key
<1> HIDE DEF made, wrapped
<1>12. wrapped[1] = "wrapped" => wrapped[3].k = "f9"
  <2>1. CASE wrapped = J!None
    BY <2>1 DEF J!None
  <2>2. CASE \E kek : wrapped = J!WrapKey(kek, J!KeyOf("jwk", HeaderOf(in).enc, "f9"))
    <3>1. wrapped[3] = J!KeyOf("jwk", HeaderOf(in).enc, "f9")
      BY <2>2 DEF J!WrapKey
    <3> QED
      BY <3>1 DEF J!KeyOf
  <2> QED
    BY <1>11, <2>1, <2>2 DEF wrapped
<1> QED
  BY <1>10, <1>12 DEF made, wrapped, in

LEMMA OthersAre ==
    ASSUME NEW made
    PROVE  /\ \A value \in J!Others("aad", made) : value # J!Empty
           /\ \A value \in J!Others("encrypted_key", made) :
                 value[1] = "wrapped" => value[3].k = "f9"
           /\ \A part, value : value \in J!Others(part, made) => value # made[part]
<1>1. \A part, value : value \in J!Others(part, made) =>
         /\ value # made[part]
         /\ part # "protected" => \/ value \in {J!None, J!Malformed}
                                  \/ \E key \in J!Keys : /\ key.alg # "A256KW"
                                                          /\ value = J!FlattenedEncrypt(OtherIn(key), "f9").is[part]
  BY DEF J!Others, OtherIn
<1>2. ASSUME NEW value \in J!Others("aad", made) PROVE value # J!Empty
  BY <1>1, <1>2, OtherMade, NoneOrEmpty, Fresh8
<1>3. ASSUME NEW value \in J!Others("encrypted_key", made), value[1] = "wrapped"
      PROVE  value[3].k = "f9"
  <2>1. value \notin {J!None, J!Malformed}
    BY <1>3 DEF J!None, J!Malformed
  <2>2. PICK key \in J!Keys : /\ key.alg # "A256KW"
                              /\ value = J!FlattenedEncrypt(OtherIn(key), "f9").is["encrypted_key"]
    BY <1>1, <2>1
  <2> QED
    BY <1>3, <2>2, OtherMade
<1> QED
  BY <1>1, <1>2, <1>3

LEMMA SampledTotals ==
    /\ \A total \in J!Totals : /\ "malformed" \notin DOMAIN total
                              /\ total = [n \in DOMAIN total |-> total[n]]
    /\ \A total \in J!Totals, place \in J!Places :
          "malformed" \notin DOMAIN J!Placed(total, place)[1]
<1>1. ASSUME NEW total \in J!Totals
      PROVE  "malformed" \notin DOMAIN total /\ total = [n \in DOMAIN total |-> total[n]]
  BY DEF J!Totals
<1>2. ASSUME NEW total \in J!Totals, NEW place \in J!Places
      PROVE  "malformed" \notin DOMAIN J!Placed(total, place)[1]
  <2> DEFINE e == <<>>
             some == J!Only(total, {"enc"})
  <2>1. "malformed" \notin DOMAIN e /\ "malformed" \notin DOMAIN some
    BY <1>1 DEF J!Only
  <2>2. J!Placed(total, place)[1] = total \/ J!Placed(total, place)[1] = e
           \/ J!Placed(total, place)[1] = some
    BY DEF J!Placed, J!Places
  <2> HIDE DEF e, some
  <2> QED
    BY <1>1, <2>1, <2>2
<1> QED
  BY <1>1, <1>2

LEMMA SampledIn ==
    ASSUME NEW s \in J!JweSamples
    PROVE  LET in == J!In(s) IN
           /\ s.key \in J!Keys /\ s.aad \in {J!None, J!Empty, J!Bytes("a")}
           /\ s.total \in J!Totals
           /\ in.key = s.key /\ in.aad = s.aad /\ in.text = J!Bytes("text")
           /\ "malformed" \notin DOMAIN in.protected
<1>1. /\ s.key \in J!Keys /\ s.aad \in {J!None, J!Empty, J!Bytes("a")}
      /\ s.total \in J!Totals /\ s.place \in J!Places
  BY DEF J!JweSamples
<1> DEFINE p == J!Placed(s.total, s.place)[1]
           u == J!Placed(s.total, s.place)[2]
           h == J!Placed(s.total, s.place)[3]
<1>2. J!In(s) = [protected |-> p, unprotected |-> u, header |-> h, key |-> s.key,
                 aad |-> s.aad, text |-> J!Bytes("text")]
  BY DEF J!In
<1>3. "malformed" \notin DOMAIN p
  BY <1>1, SampledTotals
<1> HIDE DEF p, u, h
<1> QED
  BY <1>1, <1>2, <1>3

LEMMA SealedSamplesHold == \A s \in J!JweSamples : J!Sealed(s)
<1> SUFFICES ASSUME NEW s \in J!JweSamples
             PROVE  J!Sealed(s)
  OBVIOUS
<1> DEFINE in == J!In(s)
           sealed == J!FlattenedEncrypt(in, "f8")
           made == sealed.is
           Opened(jwe, key) == J!FlattenedDecrypt(jwe, key, {}, "f10", J!Texts)
           Replaced(part, value) == [made EXCEPT ![part] = value]
           Parts == {"protected", "encrypted_key", "iv", "aad", "ciphertext", "tag"}
<1>1. /\ s.key \in J!Keys /\ s.aad \in {J!None, J!Empty, J!Bytes("a")}
      /\ in.key = s.key /\ in.aad = s.aad /\ in.text = J!Bytes("text")
      /\ "malformed" \notin DOMAIN in.protected
  BY SampledIn
<1>2. s.key.k \notin {"f8", "f10"}
  BY <1>1, KeysAre
<1>3. s.aad # J!Malformed
  <2>1. J!Bytes("a") # J!Malformed
    BY DEF J!Malformed, J!Bytes
  <2> QED
    BY <1>1, <2>1, NoneOrEmpty
<1> HIDE DEF in, sealed
<1> SUFFICES ASSUME sealed.error = "none"
             PROVE  /\ IF s.aad = J!Empty THEN Opened(made, s.key).error # "none"
                       ELSE Opened(made, s.key) =
                            J!Ok([text |-> in.text, protected |-> in.protected,
                                  unprotected |-> in.unprotected, header |-> in.header,
                                  aad |-> in.aad])
                    /\ \A key \in J!Keys \ {s.key} : Opened(made, key).error # "none"
                    /\ \A part \in Parts : \A value \in J!Others(part, made) :
                          Opened(Replaced(part, value), s.key).error # "none"
                    /\ s.key.type = "password" =>
                          /\ \A key \in {k \in J!Keys : k.type = "password"} \ {s.key} :
                                Opened(made, key).error = "OperationError"
                          /\ \A value \in J!Others("encrypted_key", made) \ {J!None} :
                                Opened(Replaced("encrypted_key", value), s.key).error
                                    = "OperationError"
                          /\ \A value \in J!Others("tag", made) \ {J!None, J!Malformed} :
                                Opened(Replaced("tag", value), s.key).error = "OperationError"
  BY Zenon DEF J!Sealed, in, sealed
<1>4. J!FlattenedEncrypt(in, "f8").error = "none"
  BY DEF sealed
<1>5. IF s.aad = J!Empty THEN Opened(made, s.key).error # "none"
      ELSE Opened(made, s.key) =
           J!Ok([text |-> in.text, protected |-> in.protected,
                 unprotected |-> in.unprotected, header |-> in.header, aad |-> in.aad])
  <2>1. CASE s.aad = J!Empty
    BY <1>1, <1>4, <2>1, EmptyAadRefused DEF sealed
  <2>2. CASE s.aad # J!Empty
    <3>1. in.text \in J!Texts
      BY <1>1 DEF J!Texts
    <3> QED
      BY <1>1, <1>3, <1>4, <2>2, <3>1, OwnKeyOpens, Fresh8 DEF sealed
  <2> QED
    BY <2>1, <2>2
<1>6. ASSUME NEW key \in J!Keys \ {s.key}
      PROVE  Opened(made, key).error # "none"
  <2>1. CASE key.k # s.key.k
    BY <1>1, <1>2, <1>4, <2>1, OtherKeyRefused DEF sealed
  <2>2. CASE key.alg = "A256KW" /\ key.type # "password"
    <3>1. key.alg \notin J!Content
      BY <2>2 DEF J!Content
    <3> QED
      BY <1>1, <1>2, <1>4, <2>2, <3>1, OtherKeyRefused DEF sealed
  <2>3. CASE s.key.alg = "A256KW" /\ s.key.type # "password"
    <3>1. CekOf(in, "f8") = s.key
      BY <1>1, <1>4, <2>3, MadeFor
    <3>2. CekOf(in, "f8").alg \in J!Content
      BY <1>4, MadeParts
    <3> QED
      BY <2>3, <3>1, <3>2 DEF J!Content
  <2> QED
    BY <1>1, <2>1, <2>2, <2>3, KeysAre
<1>7. ASSUME NEW part \in Parts, NEW value \in J!Others(part, made)
      PROVE  Opened(Replaced(part, value), s.key).error # "none"
  <2>1. /\ value # made[part]
        /\ part = "aad" => value # J!Empty
        /\ part = "encrypted_key" => (value[1] = "wrapped" => value[3].k = "f9")
    <3>1. value # made[part]
      BY OthersAre
    <3>2. part = "aad" => value # J!Empty
      BY OthersAre
    <3>3. part = "encrypted_key" => (value[1] = "wrapped" => value[3].k = "f9")
      BY OthersAre
    <3> QED
      BY <3>1, <3>2, <3>3
  <2>2. part = "encrypted_key" => (value[1] = "wrapped" => value[3].k # "f8")
    BY <2>1
  <2>3. value # J!FlattenedEncrypt(in, "f8").is[part]
    BY <2>1, Zenon DEF sealed
  <2>4. "f10" # "f8" /\ "f10" # in.key.k
    BY <1>1, <1>2
  <2>5. part \in {"protected", "encrypted_key", "iv", "aad", "ciphertext", "tag"}
    OBVIOUS
  <2>6. part = "aad" => value # J!Empty
    BY <2>1
  <2> HIDE DEF Parts
  <2>7. Replaces(in, "f8", part, value)
    BY <2>2, <2>3, <2>5, <2>6 DEF Replaces
  <2>8. J!FlattenedDecrypt([J!FlattenedEncrypt(in, "f8").is EXCEPT ![part] = value],
                           in.key, {}, "f10", J!Texts).error # "none"
    BY <1>4, <2>4, <2>7, ReplacedRefused
  <2> QED
    BY <1>1, <2>8 DEF sealed
<1>8. ASSUME s.key.type = "password"
      PROVE  made.encrypted_key # J!None
  <2>1. PICK kek, cek : made.encrypted_key = J!WrapKey(kek, cek)
    BY <1>1, <1>4, <1>8, MadeFor DEF sealed
  <2> QED
    BY <2>1 DEF J!WrapKey, J!None
<1>9. /\ made.protected = in.protected /\ made.unprotected = in.unprotected
      /\ made.header = in.header /\ made.iv = J!Bytes("f8") /\ made.aad = KeptAad(in)
      /\ made.ciphertext = Ciphertext(CekOf(in, "f8"), J!Bytes("f8"), AadOf(in), in.text)
      /\ made.tag = Tag(CekOf(in, "f8"), J!Bytes("f8"), AadOf(in), in.text)
  BY <1>4, MadeParts DEF sealed
<1>10. DOMAIN made = {"protected", "unprotected", "header", "encrypted_key", "iv", "aad",
                      "ciphertext", "tag"}
  BY <1>4, MadeParts DEF sealed
<1>11. J!Malformed \notin {made.iv, made.tag, made.ciphertext, made.aad}
  <2>1. made.aad # J!Malformed
    BY <1>1, <1>3, <1>9, NoneOrEmpty DEF KeptAad
  <2> QED
    BY <1>9, <2>1 DEF J!Malformed, J!Bytes, Ciphertext, Tag
<1> HIDE DEF made
<1>12. ASSUME s.key.type = "password", NEW key, key \in J!Keys, key.type = "password", key # s.key
       PROVE  Opened(made, key).error = "OperationError"
  <2>1. Opened(made, key).error # "none"
    BY <1>6, <1>12
  <2> QED
    BY <1>1, <1>4, <1>8, <1>9, <1>11, <1>12, <2>1, PasswordFails
<1>13. ASSUME s.key.type = "password",
              NEW part, part \in {"encrypted_key", "tag"},
              NEW value, value \in J!Others(part, made), value # J!None,
              part = "tag" => value # J!Malformed
       PROVE  Opened(Replaced(part, value), s.key).error = "OperationError"
  <2> DEFINE jwe == Replaced(part, value)
  <2>1. /\ jwe.protected = made.protected /\ jwe.unprotected = made.unprotected
        /\ jwe.header = made.header /\ jwe.iv = made.iv /\ jwe.aad = made.aad
        /\ jwe.ciphertext = made.ciphertext
        /\ jwe.encrypted_key = IF part = "encrypted_key" THEN value ELSE made.encrypted_key
        /\ jwe.tag = IF part = "tag" THEN value ELSE made.tag
    BY <1>10, <1>13
  <2>2. Opened(jwe, s.key).error # "none"
    BY <1>7, <1>13
  <2> HIDE DEF jwe
  <2>3. jwe.encrypted_key # J!None /\ J!Malformed \notin {jwe.iv, jwe.tag, jwe.ciphertext, jwe.aad}
    BY <1>8, <1>11, <1>13, <2>1
  <2>4. Opened(jwe, s.key).error = "OperationError"
    BY <1>1, <1>4, <1>9, <1>13, <2>1, <2>2, <2>3, PasswordFails
  <2> QED
    BY <2>4 DEF jwe
<1> HIDE DEF Opened, Replaced
<1>14. s.key.type = "password" =>
          /\ \A key \in {k \in J!Keys : k.type = "password"} \ {s.key} :
                Opened(made, key).error = "OperationError"
          /\ \A value \in J!Others("encrypted_key", made) \ {J!None} :
                Opened(Replaced("encrypted_key", value), s.key).error = "OperationError"
          /\ \A value \in J!Others("tag", made) \ {J!None, J!Malformed} :
                Opened(Replaced("tag", value), s.key).error = "OperationError"
  BY <1>12, <1>13
<1> QED
  BY <1>5, <1>6, <1>7, <1>14

-----------------------------------------------------------------------------
(* The compact form *)

CompactIn(protected, key, text) ==
    [protected |-> protected, unprotected |-> <<>>, header |-> <<>>, key |-> key,
     aad |-> J!None, text |-> text]

LEMMA CompactInIs ==
    ASSUME NEW protected, NEW key, NEW text
    PROVE  LET in == CompactIn(protected, key, text) IN
           /\ in.protected = protected /\ in.unprotected = <<>> /\ in.header = <<>>
           /\ in.key = key /\ in.aad = J!None /\ in.text = text
<1> DEFINE e == <<>>
<1>1. CompactIn(protected, key, text) =
         [protected |-> protected, unprotected |-> e, header |-> e, key |-> key,
          aad |-> J!None, text |-> text]
  BY DEF CompactIn
<1> HIDE DEF e
<1>2. LET in == CompactIn(protected, key, text) IN
      /\ in.protected = protected /\ in.unprotected = e /\ in.header = e
      /\ in.key = key /\ in.aad = J!None /\ in.text = text
  BY <1>1
<1> QED
  BY <1>2 DEF e

\* A compact JWE is five parts of a flattened one.
LEMMA CompactMadeAs ==
    ASSUME NEW protected, NEW key, NEW text, NEW fresh,
           J!CompactEncrypt(protected, key, text, fresh).error = "none"
    PROVE  LET in    == CompactIn(protected, key, text)
               made  == J!FlattenedEncrypt(in, fresh).is
               parts == J!CompactEncrypt(protected, key, text, fresh).is IN
           /\ J!FlattenedEncrypt(in, fresh).error = "none"
           /\ parts = <<protected, made.encrypted_key, made.iv, made.ciphertext, made.tag>>
           /\ parts = <<parts[1], parts[2], parts[3], parts[4], parts[5]>>
           /\ parts[1] = protected /\ parts[2] = made.encrypted_key /\ parts[3] = made.iv
           /\ parts[4] = made.ciphertext /\ parts[5] = made.tag
<1> DEFINE in == CompactIn(protected, key, text)
           sealed == J!FlattenedEncrypt(in, fresh)
           made == sealed.is
           list == <<made.protected, made.encrypted_key, made.iv, made.ciphertext, made.tag>>
           result == J!CompactEncrypt(protected, key, text, fresh)
           parts == result.is
<1>1. result = IF sealed.error # "none" THEN sealed ELSE J!Ok(list)
  BY Zenon DEF J!CompactEncrypt, CompactIn
<1> HIDE DEF in, sealed
<1>2. sealed.error = "none" /\ parts = list
  <2> HIDE DEF list, result
  <2>1. result.error = "none"
    BY DEF result
  <2> QED
    BY <1>1, <2>1 DEF J!Ok
<1>3. made.protected = protected
  <2>1. in.protected = protected
    BY CompactInIs DEF in
  <2>2. made.protected = in.protected
    BY <1>2, MadeParts DEF sealed
  <2> QED
    BY <2>1, <2>2
<1> HIDE DEF made, result, parts
<1>4. parts = <<protected, made.encrypted_key, made.iv, made.ciphertext, made.tag>>
  BY <1>2, <1>3
<1>5. /\ parts = <<parts[1], parts[2], parts[3], parts[4], parts[5]>>
      /\ parts[1] = protected /\ parts[2] = made.encrypted_key /\ parts[3] = made.iv
      /\ parts[4] = made.ciphertext /\ parts[5] = made.tag
  BY <1>4
<1> QED
  BY <1>2, <1>4, <1>5 DEF parts, result, made, sealed, in

\* None of the parts is empty, so that each is kept.
LEMMA PartsKept ==
    ASSUME NEW in, NEW fresh, J!FlattenedEncrypt(in, fresh).error = "none",
           J!Bytes(fresh) # J!Empty
    PROVE  LET made == J!FlattenedEncrypt(in, fresh).is IN
           /\ J!Absent(made.encrypted_key) = made.encrypted_key
           /\ J!Absent(made.iv) = made.iv /\ J!Absent(made.tag) = made.tag
<1> DEFINE made == J!FlattenedEncrypt(in, fresh).is
<1>1. /\ made.iv = J!Bytes(fresh)
      /\ made.tag = Tag(CekOf(in, fresh), J!Bytes(fresh), AadOf(in), in.text)
  BY MadeParts
<1>2. made.encrypted_key = J!None \/ \E kek, cek : made.encrypted_key = J!WrapKey(kek, cek)
  BY MadeFor
<1> HIDE DEF made
<1>3. \A c, iv, a, t : Tag(c, iv, a, t) # J!Empty
  BY DEF Tag, J!Empty
<1>4. \A kek, cek : J!WrapKey(kek, cek) # J!Empty
  BY DEF J!WrapKey, J!Empty
<1>5. made.encrypted_key # J!Empty /\ made.iv # J!Empty /\ made.tag # J!Empty
  BY <1>1, <1>2, <1>3, <1>4, NoneOrEmpty
<1> QED
  BY <1>5 DEF J!Absent, made

\* The flattened JWE of the parts.
Flat(protected, w, iv, ciphertext, tag) ==
    [protected |-> protected, unprotected |-> <<>>, header |-> <<>>, encrypted_key |-> w,
     iv |-> iv, aad |-> J!None, ciphertext |-> ciphertext, tag |-> tag]

LEMMA FlatReplacedKey ==
    ASSUME NEW p, NEW w, NEW iv, NEW c, NEW t, NEW v
    PROVE  [Flat(p, w, iv, c, t) EXCEPT !["encrypted_key"] = v] = Flat(p, v, iv, c, t)
<1> DEFINE e == <<>>
<1> HIDE DEF e
<1>1. Flat(p, w, iv, c, t) = [protected |-> p, unprotected |-> e, header |-> e,
                              encrypted_key |-> w, iv |-> iv, aad |-> J!None, ciphertext |-> c,
                              tag |-> t]
  BY DEF Flat, e
<1> QED
  BY <1>1 DEF Flat, e

LEMMA FlatReplacedIv ==
    ASSUME NEW p, NEW w, NEW iv, NEW c, NEW t, NEW v
    PROVE  [Flat(p, w, iv, c, t) EXCEPT !["iv"] = v] = Flat(p, w, v, c, t)
<1> DEFINE e == <<>>
<1> HIDE DEF e
<1>1. Flat(p, w, iv, c, t) = [protected |-> p, unprotected |-> e, header |-> e,
                              encrypted_key |-> w, iv |-> iv, aad |-> J!None, ciphertext |-> c,
                              tag |-> t]
  BY DEF Flat, e
<1> QED
  BY <1>1 DEF Flat, e

LEMMA FlatReplacedText ==
    ASSUME NEW p, NEW w, NEW iv, NEW c, NEW t, NEW v
    PROVE  [Flat(p, w, iv, c, t) EXCEPT !["ciphertext"] = v] = Flat(p, w, iv, v, t)
<1> DEFINE e == <<>>
<1> HIDE DEF e
<1>1. Flat(p, w, iv, c, t) = [protected |-> p, unprotected |-> e, header |-> e,
                              encrypted_key |-> w, iv |-> iv, aad |-> J!None, ciphertext |-> c,
                              tag |-> t]
  BY DEF Flat, e
<1> QED
  BY <1>1 DEF Flat, e

LEMMA FlatReplacedTag ==
    ASSUME NEW p, NEW w, NEW iv, NEW c, NEW t, NEW v
    PROVE  [Flat(p, w, iv, c, t) EXCEPT !["tag"] = v] = Flat(p, w, iv, c, v)
<1> DEFINE e == <<>>
<1> HIDE DEF e
<1>1. Flat(p, w, iv, c, t) = [protected |-> p, unprotected |-> e, header |-> e,
                              encrypted_key |-> w, iv |-> iv, aad |-> J!None, ciphertext |-> c,
                              tag |-> t]
  BY DEF Flat, e
<1> QED
  BY <1>1 DEF Flat, e

LEMMA FlatMade ==
    ASSUME NEW protected, NEW key, NEW text, NEW fresh,
           J!CompactEncrypt(protected, key, text, fresh).error = "none"
    PROVE  LET made == J!FlattenedEncrypt(CompactIn(protected, key, text), fresh).is IN
           made = Flat(protected, made.encrypted_key, made.iv, made.ciphertext, made.tag)
<1> DEFINE in == CompactIn(protected, key, text)
           made == J!FlattenedEncrypt(in, fresh).is
           e == <<>>
           cek == CekOf(in, fresh)
           wrapped == J!ManageEncrypt(in.key, HeaderOf(in), fresh).is[2]
           civ == J!Bytes(fresh)
           cipher == Ciphertext(cek, J!Bytes(fresh), AadOf(in), in.text)
           ctag == Tag(cek, J!Bytes(fresh), AadOf(in), in.text)
           aad == IF in.aad = J!Empty THEN J!None ELSE in.aad
<1>1. J!FlattenedEncrypt(in, fresh).error = "none"
  BY CompactMadeAs
<1>2. /\ in.protected = protected /\ in.unprotected = e /\ in.header = e
      /\ aad = J!None
  BY CompactInIs
<1>3. made = [protected |-> in.protected, unprotected |-> in.unprotected, header |-> in.header,
              encrypted_key |-> wrapped, iv |-> civ, aad |-> aad, ciphertext |-> cipher,
              tag |-> ctag]
  <2> HIDE DEF in
  <2> QED
    BY <1>1, MadeAs
<1> HIDE DEF made, in, e, cek, wrapped, civ, cipher, ctag, aad
<1>4. made.encrypted_key = wrapped /\ made.iv = civ /\ made.ciphertext = cipher /\ made.tag = ctag
  BY <1>3
<1>5. made = [protected |-> protected, unprotected |-> e, header |-> e,
              encrypted_key |-> made.encrypted_key, iv |-> made.iv, aad |-> J!None,
              ciphertext |-> made.ciphertext, tag |-> made.tag]
  BY <1>2, <1>3, <1>4
<1> QED
  BY <1>5, Zenon DEF Flat, e, made, in

\* Decrypting the parts is decrypting the flattened JWE.
LEMMA CompactOpens ==
    ASSUME NEW protected, NEW w, NEW iv, NEW ciphertext, NEW tag,
           w # J!Empty, iv # J!Empty, tag # J!Empty, NEW by, NEW later, NEW texts,
           NEW opened,
           opened = J!FlattenedDecrypt(Flat(protected, w, iv, ciphertext, tag),
                                       by, {}, later, texts)
    PROVE  J!CompactDecrypt(<<protected, w, iv, ciphertext, tag>>, by, {}, later, texts) =
               IF opened.error # "none" THEN opened
               ELSE J!Ok([text |-> opened.is.text, protected |-> opened.is.protected])
<1> DEFINE parts == <<protected, w, iv, ciphertext, tag>>
           e == <<>>
           other == [protected |-> parts[1], unprotected |-> e, header |-> e,
                     encrypted_key |-> J!Absent(parts[2]), iv |-> J!Absent(parts[3]),
                     aad |-> J!None, ciphertext |-> parts[4], tag |-> J!Absent(parts[5])]
<1>1. J!CompactDecrypt(parts, by, {}, later, texts) =
         LET is == J!FlattenedDecrypt(other, by, {}, later, texts) IN
         IF Len(parts) # 5 THEN J!Error("InvalidJwe")
         ELSE IF is.error # "none" THEN is
         ELSE J!Ok([text |-> is.is.text, protected |-> is.is.protected])
  BY Zenon DEF J!CompactDecrypt
<1>2. /\ parts[1] = protected /\ parts[2] = w /\ parts[3] = iv /\ parts[4] = ciphertext
      /\ parts[5] = tag /\ Len(parts) = 5
  OBVIOUS
<1>3. J!Absent(w) = w /\ J!Absent(iv) = iv /\ J!Absent(tag) = tag
  BY DEF J!Absent
<1>4. other = Flat(protected, w, iv, ciphertext, tag)
  <2> HIDE DEF parts, e
  <2>1. other = [protected |-> protected, unprotected |-> e, header |-> e, encrypted_key |-> w,
                 iv |-> iv, aad |-> J!None, ciphertext |-> ciphertext, tag |-> tag]
    BY <1>2, <1>3
  <2> QED
    BY <2>1, Zenon DEF Flat, e
<1> HIDE DEF other, parts
<1>5. J!CompactDecrypt(parts, by, {}, later, texts) =
         IF opened.error # "none" THEN opened
         ELSE J!Ok([text |-> opened.is.text, protected |-> opened.is.protected])
  BY <1>1, <1>2, <1>4, Zenon
<1> QED
  BY <1>5, Zenon DEF parts

\* What a compact JWE is, as the flattened one it is made of.
LEMMA CompactParts ==
    ASSUME NEW protected, NEW key, NEW text, NEW fresh,
           J!CompactEncrypt(protected, key, text, fresh).error = "none",
           J!Bytes(fresh) # J!Empty
    PROVE  LET made == J!FlattenedEncrypt(CompactIn(protected, key, text), fresh).is IN
           /\ J!FlattenedEncrypt(CompactIn(protected, key, text), fresh).error = "none"
           /\ J!CompactEncrypt(protected, key, text, fresh).is =
                 <<protected, made.encrypted_key, made.iv, made.ciphertext, made.tag>>
           /\ made = Flat(protected, made.encrypted_key, made.iv, made.ciphertext, made.tag)
           /\ made.encrypted_key # J!Empty /\ made.iv # J!Empty /\ made.tag # J!Empty
<1> DEFINE in == CompactIn(protected, key, text)
           sealed == J!FlattenedEncrypt(in, fresh)
           made == sealed.is
<1>1. /\ sealed.error = "none"
      /\ J!CompactEncrypt(protected, key, text, fresh).is =
            <<protected, made.encrypted_key, made.iv, made.ciphertext, made.tag>>
  BY CompactMadeAs
<1>2. made = Flat(protected, made.encrypted_key, made.iv, made.ciphertext, made.tag)
  BY FlatMade
<1>3. /\ J!Absent(made.encrypted_key) = made.encrypted_key
      /\ J!Absent(made.iv) = made.iv /\ J!Absent(made.tag) = made.tag
  <2> HIDE DEF in
  <2> QED
    BY <1>1, PartsKept
<1>4. \A x : J!Absent(x) = x => x # J!Empty
  BY NoneOrEmpty DEF J!Absent
<1> HIDE DEF made, sealed
<1>5. made.encrypted_key # J!Empty /\ made.iv # J!Empty /\ made.tag # J!Empty
  BY <1>3, <1>4
<1> QED
  BY <1>1, <1>2, <1>5 DEF made, sealed

\* A compact JWE fails as the flattened one does.
LEMMA CompactRefused ==
    ASSUME NEW protected, NEW w, NEW iv, NEW ciphertext, NEW tag,
           w # J!Empty, iv # J!Empty, tag # J!Empty, NEW by, NEW later, NEW texts,
           J!FlattenedDecrypt(Flat(protected, w, iv, ciphertext, tag), by, {}, later, texts).error
               # "none"
    PROVE  J!CompactDecrypt(<<protected, w, iv, ciphertext, tag>>, by, {}, later, texts).error
               # "none"
<1> DEFINE opened == J!FlattenedDecrypt(Flat(protected, w, iv, ciphertext, tag), by, {}, later, texts)
<1>1. PICK it : it = opened
  OBVIOUS
<1>2. J!CompactDecrypt(<<protected, w, iv, ciphertext, tag>>, by, {}, later, texts) =
         IF it.error # "none" THEN it
         ELSE J!Ok([text |-> it.is.text, protected |-> it.is.protected])
  BY <1>1, CompactOpens
<1>3. it.error # "none"
  BY <1>1
<1> QED
  BY <1>2, <1>3

\* Four parts and nothing else are not a compact JWE of five.
LEMMA SixRefused ==
    ASSUME NEW a, NEW b, NEW c, NEW d, NEW e, NEW by, NEW later, NEW texts
    PROVE  J!CompactDecrypt(SubSeq(<<a, b, c, d, e>>, 1, 4) \o <<J!None, J!None>>,
                            by, {}, later, texts).error # "none"
<1> DEFINE parts == SubSeq(<<a, b, c, d, e>>, 1, 4) \o <<J!None, J!None>>
<1>1. Len(parts) = 6
  <2>1. SubSeq(<<a, b, c, d, e>>, 1, 4) = [i \in 1..4 |-> <<a, b, c, d, e>>[i]]
    OBVIOUS
  <2>2. <<a, b, c, d>> = [i \in 1..4 |-> <<a, b, c, d, e>>[i]]
    OBVIOUS
  <2> DEFINE n == J!None
  <2> HIDE DEF n
  <2>3. Len(<<a, b, c, d>> \o <<n, n>>) = 6
    OBVIOUS
  <2> QED
    BY <2>1, <2>2, <2>3 DEF n
<1> HIDE DEF parts
<1>2. J!CompactDecrypt(parts, by, {}, later, texts) = J!Error("InvalidJwe")
  BY <1>1 DEF J!CompactDecrypt
<1> QED
  BY <1>2 DEF J!Error, parts

\* Whether a key can encrypt depends on nothing that is fresh, nor on the text.
LEMMA OtherTextMade ==
    ASSUME NEW protected, NEW key, NEW text, NEW fresh, NEW other, NEW again,
           protected = [n \in DOMAIN protected |-> protected[n]],
           J!CompactEncrypt(protected, key, text, fresh).error = "none",
           J!Bytes(fresh) # J!Empty, J!Bytes(again) # J!Empty
    PROVE  J!CompactEncrypt(protected, key, other, again).error = "none"
<1> DEFINE in == CompactIn(protected, key, text)
           on == CompactIn(protected, key, other)
<1>1. /\ in.protected = protected /\ in.unprotected = <<>> /\ in.header = <<>> /\ in.key = key
      /\ on.protected = protected /\ on.unprotected = <<>> /\ on.header = <<>> /\ on.key = key
  BY CompactInIs
<1>2. J!FlattenedEncrypt(in, fresh).error = "none"
  BY CompactMadeAs
<1> HIDE DEF in, on
<1>3. HeaderOf(in) = protected /\ HeaderOf(on) = protected
  BY <1>1, Alone DEF HeaderOf
<1>4. ~J!Overlap(<<on.protected, on.unprotected, on.header>>)
  BY <1>1, Alone
<1>5. /\ J!IsValidJweHeader(protected) /\ protected.enc \in J!Content
      /\ CekOf(in, fresh).alg \in J!Content
      /\ J!ManageEncrypt(key, protected, fresh).error = "none"
  <2>1. /\ J!IsValidJweHeader(HeaderOf(in)) /\ HeaderOf(in).enc \in J!Content
        /\ CekOf(in, fresh).alg \in J!Content
        /\ J!ManageEncrypt(in.key, HeaderOf(in), fresh).error = "none"
    BY <1>2, MadeParts
  <2> QED
    BY <1>1, <1>3, <2>1
<1>6. J!ManageEncrypt(key, protected, again).error = "none" /\ CekOf(on, again).alg \in J!Content
  <2>1. CASE protected.alg = "dir"
    <3>1. /\ key.type # "password"
          /\ J!ManageEncrypt(key, protected, fresh) = J!Ok(<<key, J!None>>)
          /\ J!ManageEncrypt(key, protected, again) = J!Ok(<<key, J!None>>)
      BY <2>1, <1>5, ManagedAs DEF J!ManageEncrypt, J!Encryption
    <3>2. \A x : J!Ok(x).error = "none" /\ J!Ok(x).is = x
      BY DEF J!Ok
    <3>3. <<key, J!None>>[1] = key
      BY DEF J!None
    <3>4. CekOf(in, fresh) = key /\ CekOf(on, again) = key
      BY <1>1, <1>3, <3>1, <3>2, <3>3 DEF CekOf
    <3> QED
      BY <1>5, <3>1, <3>2, <3>4
  <2>2. CASE protected.alg \in J!Encryption /\ protected.alg # "dir"
    <3> DEFINE cek == J!KeyOf("jwk", protected.enc, again)
               wrapped == J!WrapKey(J!Kek(key, protected), cek)
    <3>1. /\ key.type = "password" /\ J!Salted(protected) /\ protected.p2s # "malformed"
          /\ protected.enc \in J!Content
      BY <2>2, <1>5, ManagedAs
    <3>2. J!ManageEncrypt(key, protected, again) = J!Ok(<<cek, wrapped>>)
      BY <2>2, <3>1 DEF J!ManageEncrypt
    <3>3. cek.alg = protected.enc
      BY DEF J!KeyOf
    <3> HIDE DEF cek, wrapped
    <3>4. \A x : J!Ok(x).error = "none" /\ J!Ok(x).is = x
      BY DEF J!Ok
    <3>5. <<cek, wrapped>>[1] = cek
      OBVIOUS
    <3>6. CekOf(on, again) = cek
      BY <1>1, <1>3, <3>2, <3>4, <3>5 DEF CekOf
    <3> QED
      BY <3>1, <3>2, <3>3, <3>4, <3>6
  <2>3. protected.alg = "dir" \/ protected.alg \in J!Encryption
    BY <1>5, ManagedAs
  <2> QED
    BY <2>1, <2>2, <2>3
<1>7. J!FlattenedEncrypt(on, again).error = "none"
  BY <1>1, <1>3, <1>4, <1>5, <1>6, Encrypts
<1> DEFINE sealed == J!FlattenedEncrypt(on, again)
           list == <<sealed.is.protected, sealed.is.encrypted_key, sealed.is.iv,
                     sealed.is.ciphertext, sealed.is.tag>>
<1>8. J!CompactEncrypt(protected, key, other, again) =
         IF sealed.error # "none" THEN sealed ELSE J!Ok(list)
  BY Zenon DEF J!CompactEncrypt, CompactIn, on
<1>9. J!Ok(list).error = "none"
  <2> HIDE DEF list
  <2> QED
    BY DEF J!Ok
<1> HIDE DEF list, sealed
<1> QED
  BY <1>7, <1>8, <1>9 DEF sealed

LEMMA CompactSealedSamplesHold == \A s \in J!JweSamples : J!CompactSealed(s)
<1> SUFFICES ASSUME NEW s \in J!JweSamples
             PROVE  J!CompactSealed(s)
  OBVIOUS
<1> DEFINE sealed == J!CompactEncrypt(s.total, s.key, J!Bytes("text"), "f8")
           others == J!CompactEncrypt(s.total, s.key, J!Bytes("other"), "f9")
           parts == sealed.is
           other == others.is
           in == CompactIn(s.total, s.key, J!Bytes("text"))
           on == CompactIn(s.total, s.key, J!Bytes("other"))
           made == J!FlattenedEncrypt(in, "f8").is
           mode == J!FlattenedEncrypt(on, "f9").is
           Opened(list, key) == J!CompactDecrypt(list, key, {}, "f10", J!Texts)
<1>1. s.key \in J!Keys /\ s.total \in J!Totals
  BY SampledIn
<1>2. s.key.k \notin {"f8", "f9", "f10"}
  BY <1>1, KeysAre
<1>3. "malformed" \notin DOMAIN s.total /\ s.total = [n \in DOMAIN s.total |-> s.total[n]]
  BY <1>1, SampledTotals
<1> SUFFICES ASSUME sealed.error = "none"
             PROVE  /\ Opened(parts, s.key) =
                       J!Ok([text |-> J!Bytes("text"), protected |-> s.total])
                    /\ Opened(SubSeq(parts, 1, 4) \o <<J!None, J!None>>, s.key).error # "none"
                    /\ \A key \in J!Keys \ {s.key} : Opened(parts, key).error # "none"
                    /\ \A i \in {j \in 2..5 : other[j] # parts[j]} :
                          Opened([parts EXCEPT ![i] = other[i]], s.key).error # "none"
  BY Zenon DEF J!CompactSealed
<1>4. J!FlattenedEncrypt(in, "f8").error = "none"
  BY CompactParts, Fresh8
<1>5. /\ parts = <<s.total, made.encrypted_key, made.iv, made.ciphertext, made.tag>>
      /\ made = Flat(s.total, made.encrypted_key, made.iv, made.ciphertext, made.tag)
      /\ made.encrypted_key # J!Empty /\ made.iv # J!Empty /\ made.tag # J!Empty
  BY CompactParts, Fresh8
<1>6. /\ in.protected = s.total /\ in.unprotected = <<>> /\ in.header = <<>>
      /\ in.key = s.key /\ in.aad = J!None /\ in.text = J!Bytes("text")
  BY CompactInIs
<1>7. others.error = "none"
  BY <1>3, OtherTextMade, Fresh8
<1>8. J!FlattenedEncrypt(on, "f9").error = "none"
  BY <1>7, CompactParts, Fresh8
<1>9. /\ other = <<s.total, mode.encrypted_key, mode.iv, mode.ciphertext, mode.tag>>
      /\ mode.encrypted_key # J!Empty /\ mode.iv # J!Empty /\ mode.tag # J!Empty
  BY <1>7, CompactParts, Fresh8
<1>10. mode.encrypted_key[1] = "wrapped" => mode.encrypted_key[3].k # "f8"
  <2>1. \/ mode.encrypted_key = J!None
        \/ mode.encrypted_key =
              J!WrapKey(J!Kek(on.key, HeaderOf(on)), J!KeyOf("jwk", HeaderOf(on).enc, "f9"))
    BY <1>8, MadeFor
  <2> HIDE DEF mode, on
  <2>2. CASE mode.encrypted_key = J!None
    BY <2>2 DEF J!None
  <2>3. CASE mode.encrypted_key =
                J!WrapKey(J!Kek(on.key, HeaderOf(on)), J!KeyOf("jwk", HeaderOf(on).enc, "f9"))
    <3> DEFINE cek == J!KeyOf("jwk", HeaderOf(on).enc, "f9")
               kek == J!Kek(on.key, HeaderOf(on))
               key == mode.encrypted_key
    <3>1. cek.k = "f9"
      BY DEF J!KeyOf
    <3>2. key = J!WrapKey(kek, cek)
      BY <2>3
    <3> HIDE DEF cek, kek, key
    <3>3. key[3] = cek
      BY <3>2 DEF J!WrapKey
    <3> USE DEF key
    <3> QED
      BY <3>1, <3>3
  <2> QED
    BY <2>1, <2>2, <2>3
<1> DEFINE w == made.encrypted_key
           iv == made.iv
           c == made.ciphertext
           t == made.tag
           v == mode.encrypted_key
           iw == mode.iv
           d == mode.ciphertext
           u == mode.tag
<1>11. Opened(parts, s.key) = J!Ok([text |-> J!Bytes("text"), protected |-> s.total])
  <2> DEFINE whole == [text |-> in.text, protected |-> in.protected,
                       unprotected |-> in.unprotected, header |-> in.header, aad |-> in.aad]
  <2>1. J!FlattenedDecrypt(made, in.key, {}, "f10", J!Texts) = J!Ok(whole)
    <3>1. in.text \in J!Texts
      BY <1>6 DEF J!Texts
    <3>2. in.aad # J!Empty /\ in.aad # J!Malformed /\ "malformed" \notin DOMAIN in.protected
      BY <1>3, <1>6, NoneOrEmpty
    <3> HIDE DEF in
    <3> QED
      BY <1>4, <3>1, <3>2, OwnKeyOpens, Fresh8
  <2>2. PICK opened : opened = J!FlattenedDecrypt(made, s.key, {}, "f10", J!Texts)
    OBVIOUS
  <2>3. opened = J!FlattenedDecrypt(Flat(s.total, w, iv, c, t), s.key, {}, "f10", J!Texts)
    BY <1>5, <2>2
  <2>4. opened.error = "none" /\ opened.is.text = in.text
    <3>1. opened = J!Ok(whole)
      BY <1>6, <2>1, <2>2
    <3>2. whole.text = in.text
      <4> HIDE DEF in
      <4> QED
        OBVIOUS
    <3> HIDE DEF whole
    <3>3. opened.error = "none" /\ opened.is = whole
      BY <3>1 DEF J!Ok
    <3> QED
      BY <3>2, <3>3
  <2>5. opened.is.protected = in.protected
    <3>1. opened = J!Ok(whole)
      BY <1>6, <2>1, <2>2
    <3>2. whole.protected = in.protected
      <4> HIDE DEF in
      <4> QED
        OBVIOUS
    <3> HIDE DEF whole
    <3>3. opened.is = whole
      BY <3>1 DEF J!Ok
    <3> QED
      BY <3>2, <3>3
  <2> HIDE DEF made, in, parts, sealed, whole
  <2>6. Opened(<<s.total, w, iv, c, t>>, s.key) =
           IF opened.error # "none" THEN opened
           ELSE J!Ok([text |-> opened.is.text, protected |-> opened.is.protected])
    BY <1>5, <2>3, CompactOpens
  <2> QED
    BY <1>5, <1>6, <2>4, <2>5, <2>6
<1>12. Opened(SubSeq(parts, 1, 4) \o <<J!None, J!None>>, s.key).error # "none"
  <2> HIDE DEF made, parts
  <2> QED
    BY <1>5, SixRefused
<1>13. ASSUME NEW key \in J!Keys \ {s.key}
       PROVE  Opened(parts, key).error # "none"
  <2> HIDE DEF in
  <2>1. J!FlattenedDecrypt(made, key, {}, "f10", J!Texts).error # "none"
    <3>1. CASE key.k # s.key.k
      BY <1>2, <1>4, <1>6, <3>1, OtherKeyRefused
    <3>2. CASE key.alg = "A256KW" /\ key.type # "password"
      <4>1. key.alg \notin J!Content
        BY <3>2 DEF J!Content
      <4> QED
        BY <1>2, <1>4, <1>6, <3>2, <4>1, OtherKeyRefused
    <3>3. CASE s.key.alg = "A256KW" /\ s.key.type # "password"
      <4>1. CekOf(in, "f8") = s.key
        BY <1>4, <1>6, <3>3, MadeFor
      <4>2. CekOf(in, "f8").alg \in J!Content
        BY <1>4, MadeParts
      <4> QED
        BY <3>3, <4>1, <4>2 DEF J!Content
    <3> QED
      BY <1>1, <3>1, <3>2, <3>3, KeysAre
  <2> HIDE DEF made, parts
  <2>2. J!FlattenedDecrypt(Flat(s.total, w, iv, c, t), key, {}, "f10", J!Texts).error # "none"
    BY <1>5, <2>1
  <2> QED
    BY <1>5, <2>2, CompactRefused
<1>14. ASSUME NEW i \in {j \in 2..5 : other[j] # parts[j]}
       PROVE  Opened([parts EXCEPT ![i] = other[i]], s.key).error # "none"
  <2>1. ASSUME NEW part, part \in {"encrypted_key", "iv", "ciphertext", "tag"},
               NEW value, value # made[part], part = "encrypted_key" => value = v
        PROVE  J!FlattenedDecrypt([made EXCEPT ![part] = value], s.key, {}, "f10", J!Texts).error
                   # "none"
    <3> HIDE DEF in
    <3>1. Replaces(in, "f8", part, value)
      <4>1. part # "aad" /\ part \in {"protected", "encrypted_key", "iv", "aad", "ciphertext", "tag"}
        BY <2>1
      <4>2. part = "encrypted_key" => (value[1] = "wrapped" => value[3].k # "f8")
        BY <1>10, <2>1
      <4>3. value # J!FlattenedEncrypt(in, "f8").is[part]
        BY <2>1
      <4> QED
        BY <4>1, <4>2, <4>3 DEF Replaces
    <3>2. "f10" # "f8" /\ "f10" # in.key.k
      BY <1>2, <1>6
    <3>3. J!FlattenedDecrypt([J!FlattenedEncrypt(in, "f8").is EXCEPT ![part] = value],
                             in.key, {}, "f10", J!Texts).error # "none"
      BY <1>4, <3>1, <3>2, ReplacedRefused
    <3> QED
      BY <1>6, <3>3
  <2> HIDE DEF made, mode, parts, other
  <2>2. i = 2 \/ i = 3 \/ i = 4 \/ i = 5
    OBVIOUS
  <2>3. CASE i = 2
    <3>1. v # w /\ [parts EXCEPT ![i] = other[i]] = <<s.total, v, iv, c, t>>
      BY <1>5, <1>9, <2>3
    <3>2. [made EXCEPT !["encrypted_key"] = v] = Flat(s.total, v, iv, c, t)
      <4>1. made = Flat(s.total, w, iv, c, t)
        BY <1>5
      <4> HIDE DEF w, iv, c, t, v, iw, d, u
      <4>2. [Flat(s.total, w, iv, c, t) EXCEPT !["encrypted_key"] = v] = Flat(s.total, v, iv, c, t)
        BY FlatReplacedKey
      <4> QED
        BY <4>1, <4>2
    <3>3. J!FlattenedDecrypt(Flat(s.total, v, iv, c, t), s.key, {}, "f10", J!Texts).error # "none"
      BY <2>1, <3>1, <3>2
    <3> QED
      BY <1>5, <1>9, <3>1, <3>3, CompactRefused
  <2>4. CASE i = 3
    <3>1. iw # iv /\ [parts EXCEPT ![i] = other[i]] = <<s.total, w, iw, c, t>>
      BY <1>5, <1>9, <2>4
    <3>2. [made EXCEPT !["iv"] = iw] = Flat(s.total, w, iw, c, t)
      <4>1. made = Flat(s.total, w, iv, c, t)
        BY <1>5
      <4> HIDE DEF w, iv, c, t, v, iw, d, u
      <4>2. [Flat(s.total, w, iv, c, t) EXCEPT !["iv"] = iw] = Flat(s.total, w, iw, c, t)
        BY FlatReplacedIv
      <4> QED
        BY <4>1, <4>2
    <3>3. J!FlattenedDecrypt(Flat(s.total, w, iw, c, t), s.key, {}, "f10", J!Texts).error # "none"
      BY <2>1, <3>1, <3>2
    <3> QED
      BY <1>5, <1>9, <3>1, <3>3, CompactRefused
  <2>5. CASE i = 4
    <3>1. d # c /\ [parts EXCEPT ![i] = other[i]] = <<s.total, w, iv, d, t>>
      BY <1>5, <1>9, <2>5
    <3>2. [made EXCEPT !["ciphertext"] = d] = Flat(s.total, w, iv, d, t)
      <4>1. made = Flat(s.total, w, iv, c, t)
        BY <1>5
      <4> HIDE DEF w, iv, c, t, v, iw, d, u
      <4>2. [Flat(s.total, w, iv, c, t) EXCEPT !["ciphertext"] = d] = Flat(s.total, w, iv, d, t)
        BY FlatReplacedText
      <4> QED
        BY <4>1, <4>2
    <3>3. J!FlattenedDecrypt(Flat(s.total, w, iv, d, t), s.key, {}, "f10", J!Texts).error # "none"
      BY <2>1, <3>1, <3>2
    <3> QED
      BY <1>5, <1>9, <3>1, <3>3, CompactRefused
  <2>6. CASE i = 5
    <3>1. u # t /\ [parts EXCEPT ![i] = other[i]] = <<s.total, w, iv, c, u>>
      BY <1>5, <1>9, <2>6
    <3>2. [made EXCEPT !["tag"] = u] = Flat(s.total, w, iv, c, u)
      <4>1. made = Flat(s.total, w, iv, c, t)
        BY <1>5
      <4> HIDE DEF w, iv, c, t, v, iw, d, u
      <4>2. [Flat(s.total, w, iv, c, t) EXCEPT !["tag"] = u] = Flat(s.total, w, iv, c, u)
        BY FlatReplacedTag
      <4> QED
        BY <4>1, <4>2
    <3>3. J!FlattenedDecrypt(Flat(s.total, w, iv, c, u), s.key, {}, "f10", J!Texts).error # "none"
      BY <2>1, <3>1, <3>2
    <3> QED
      BY <1>5, <1>9, <3>1, <3>3, CompactRefused
  <2> QED
    BY <2>2, <2>3, <2>4, <2>5, <2>6
<1> HIDE DEF Opened
<1> QED
  BY <1>11, <1>12, <1>13, <1>14

-----------------------------------------------------------------------------
(* WalletConnect: who can read its messages *)

XCiphertext(key, nonce, aad, text) == <<"ciphertext", key, nonce, aad, text>>
XTag(key, nonce, aad, text) == <<"tag", key, nonce, aad, text>>

LEMMA SameSealed ==
    ASSUME NEW k, NEW n, NEW a, NEW t, NEW l, NEW m, NEW b, NEW u
    PROVE  /\ XCiphertext(k, n, a, t) = XCiphertext(l, m, b, u)
                 <=> k = l /\ n = m /\ a = b /\ t = u
           /\ XTag(k, n, a, t) = XTag(l, m, b, u)
                 <=> k = l /\ n = m /\ a = b /\ t = u
  BY DEF XCiphertext, XTag

LEMMA SealedAs ==
    ASSUME NEW k, NEW n, NEW a, NEW t, NEW c, NEW g
    PROVE  J!XSeal(k, n, a, t) = <<c, g>> <=> c = XCiphertext(k, n, a, t) /\ g = XTag(k, n, a, t)
<1> DEFINE d == XCiphertext(k, n, a, t)
           h == XTag(k, n, a, t)
<1>1. J!XSeal(k, n, a, t) = <<d, h>>
  BY DEF J!XSeal, XCiphertext, XTag
<1> HIDE DEF d, h
<1>2. <<d, h>> = <<c, g>> <=> c = d /\ g = h
  OBVIOUS
<1> QED
  BY <1>1, <1>2 DEF d, h

\* What opens is what was sealed with the same key, nonce and header.
LEMMA OpenedAs ==
    ASSUME NEW k, NEW n, NEW a, NEW c, NEW g, NEW texts,
           J!XOpen(k, n, a, <<c, g>>, texts).error = "none"
    PROVE  \E t \in texts : /\ c = XCiphertext(k, n, a, t) /\ g = XTag(k, n, a, t)
                            /\ J!XOpen(k, n, a, <<c, g>>, texts).is = t
<1> DEFINE found == {t \in texts : J!XSeal(k, n, a, t) = <<c, g>>}
           is == CHOOSE t \in found : TRUE
           result == J!XOpen(k, n, a, <<c, g>>, texts)
<1>1. result = IF found = {} THEN J!Error("invalid tag") ELSE J!Ok(is)
  BY Zenon DEF J!XOpen
<1>2. result.error = "none"
  OBVIOUS
<1> HIDE DEF result
<1>3. found # {}
  <2> HIDE DEF found, is
  <2> QED
    BY <1>1, <1>2 DEF J!Error
<1>4. is \in found
  BY <1>3
<1>5. is \in texts /\ c = XCiphertext(k, n, a, is) /\ g = XTag(k, n, a, is)
  <2>1. is \in texts /\ J!XSeal(k, n, a, is) = <<c, g>>
    BY <1>4
  <2> HIDE DEF is
  <2> QED
    BY <2>1, SealedAs
<1> HIDE DEF is
<1>6. result.is = is
  BY <1>1, <1>3 DEF J!Ok
<1> QED
  BY <1>5, <1>6 DEF result

LEMMA Opens ==
    ASSUME NEW k, NEW n, NEW a, NEW texts, NEW t \in texts, NEW c, NEW g,
           c = XCiphertext(k, n, a, t), g = XTag(k, n, a, t)
    PROVE  J!XOpen(k, n, a, <<c, g>>, texts) = J!Ok(t)
<1> DEFINE found == {x \in texts : J!XSeal(k, n, a, x) = <<c, g>>}
           is == CHOOSE x \in found : TRUE
<1>1. t \in found
  BY SealedAs
<1>2. \A x \in found : x = t
  <2> TAKE x \in found
  <2>1. J!XSeal(k, n, a, x) = <<c, g>>
    OBVIOUS
  <2>2. c = XCiphertext(k, n, a, x)
    BY <2>1, SealedAs
  <2>3. XCiphertext(k, n, a, x) = XCiphertext(k, n, a, t)
    BY <2>2
  <2> HIDE DEF found
  <2> QED
    BY <2>3, SameSealed
<1>3. is = t
  BY <1>1, <1>2
<1>4. J!XOpen(k, n, a, <<c, g>>, texts) = IF found = {} THEN J!Error("invalid tag") ELSE J!Ok(is)
  BY Zenon DEF J!XOpen
<1> HIDE DEF found, is
<1> QED
  BY <1>1, <1>3, <1>4

\* Whoever opens the ciphertext or the tag of something has the key, the nonce
\* and the header it was sealed with, and both of them.
LEMMA OpenedMust ==
    ASSUME NEW l, NEW m, NEW b, NEW c, NEW g, NEW texts,
           J!XOpen(l, m, b, <<c, g>>, texts).error = "none",
           NEW k, NEW n, NEW a, NEW t,
           c = XCiphertext(k, n, a, t) \/ g = XTag(k, n, a, t)
    PROVE  /\ l = k /\ m = n /\ b = a
           /\ c = XCiphertext(k, n, a, t) /\ g = XTag(k, n, a, t)
           /\ J!XOpen(l, m, b, <<c, g>>, texts).is = t
<1>1. PICK x \in texts : /\ c = XCiphertext(l, m, b, x) /\ g = XTag(l, m, b, x)
                         /\ J!XOpen(l, m, b, <<c, g>>, texts).is = x
  BY OpenedAs
<1>2. l = k /\ m = n /\ b = a /\ x = t
  BY <1>1, SameSealed
<1> QED
  BY <1>1, <1>2

-----------------------------------------------------------------------------
\* What a DID signs is verified; what another has signed in its name is not.
LEMMA SignedIs ==
    ASSUME NEW key, NEW payload
    PROVE  /\ J!VerifyJwt(J!SignJwt(key, payload)) = J!Ok(payload)
           /\ \A by : by # key => J!VerifyJwt(J!Forged(J!SignJwt(key, payload), by)).error # "none"
<1> DEFINE kid == J!KeyId(J!DidOf(key), "0")
           header == [alg |-> "EdDSA", kid |-> kid, typ |-> "JWT"]
           Jwt(signature) == <<header, payload, signature>>
<1>1. header.kid = kid
  OBVIOUS
<1>2. J!Resolve(kid[1]).error = "none" /\ J!Resolve(kid[1]).is.id = kid
      /\ J!Resolve(kid[1]).is.key = key
  <2> DEFINE did == J!DidOf(key)
             is == [id |-> J!KeyId(did, "0"), key |-> did[2]]
  <2>1. did[1] = "did" /\ did[2] = key
    BY DEF J!DidOf
  <2> HIDE DEF did
  <2>2. kid[1] = did
    BY DEF J!KeyId, did
  <2>3. is.id = J!KeyId(did, "0") /\ is.key = key
    BY <2>1
  <2>4. J!Resolve(did) = J!Ok(is)
    BY <2>1 DEF J!Resolve
  <2> HIDE DEF is
  <2> QED
    BY <2>2, <2>3, <2>4 DEF J!Ok, did
<1> HIDE DEF kid
<1>3. \A signature : J!VerifyJwt(Jwt(signature)) =
         IF signature # <<"signature", key, header, payload>> THEN J!Error("signature")
         ELSE J!Ok(payload)
  <2> TAKE signature
  <2> HIDE DEF header
  <2>1. Jwt(signature)[1] = header /\ Jwt(signature)[2] = payload /\ Jwt(signature)[3] = signature
    OBVIOUS
  <2> HIDE DEF Jwt
  <2> QED
    BY <1>1, <1>2, <2>1 DEF J!VerifyJwt
<1>4. J!SignJwt(key, payload) = Jwt(<<"signature", key, header, payload>>)
  BY Zenon DEF J!SignJwt, kid
<1>5. ASSUME NEW by
      PROVE  J!Forged(J!SignJwt(key, payload), by) = Jwt(<<"signature", by, header, payload>>)
  <2> DEFINE jwt == Jwt(<<"signature", key, header, payload>>)
  <2> HIDE DEF header
  <2>1. jwt[1] = header /\ jwt[2] = payload
    OBVIOUS
  <2>2. \A x : [jwt EXCEPT ![3] = x] = Jwt(x)
    OBVIOUS
  <2> HIDE DEF jwt, Jwt
  <2> QED
    BY <1>4, <2>1, <2>2 DEF J!Forged, jwt
<1>6. ASSUME NEW by, by # key
      PROVE  <<"signature", by, header, payload>> # <<"signature", key, header, payload>>
  <2> HIDE DEF header
  <2> QED
    BY <1>6
<1> HIDE DEF Jwt, header
<1>7. \A by : by # key => J!VerifyJwt(J!Forged(J!SignJwt(key, payload), by)) = J!Error("signature")
  BY <1>3, <1>5, <1>6
<1> QED
  BY <1>3, <1>4, <1>7 DEF J!Error

-----------------------------------------------------------------------------
(* The request *)

RequestHeader == [alg |-> "dir", cty |-> "JWT", enc |-> "XC20P", typ |-> "JWT"]

LEMMA RequestIs ==
    ASSUME NEW jwt, NEW key, NEW nonce
    PROVE  J!EncryptAuthRequest(jwt, key, nonce) =
              <<RequestHeader, J!None, nonce, XCiphertext(key, nonce, RequestHeader, jwt),
                XTag(key, nonce, RequestHeader, jwt)>>
<1> DEFINE sealed == J!XSeal(key, nonce, RequestHeader, jwt)
           c == XCiphertext(key, nonce, RequestHeader, jwt)
           g == XTag(key, nonce, RequestHeader, jwt)
<1>1. sealed = <<c, g>>
  BY DEF J!XSeal, XCiphertext, XTag
<1>2. J!EncryptAuthRequest(jwt, key, nonce) = <<RequestHeader, J!None, nonce, sealed[1], sealed[2]>>
  BY Zenon DEF J!EncryptAuthRequest, RequestHeader
<1> HIDE DEF sealed, c, g
<1>3. sealed[1] = c /\ sealed[2] = g
  BY <1>1
<1> QED
  BY <1>2, <1>3 DEF c, g

\* The wallet reads the request with its key; whatever else has another key or
\* another part in place of its own is no request.
LEMMA RequestRead ==
    ASSUME NEW jwt, NEW key, NEW nonce, NEW jwts, jwt \in jwts
    PROVE  J!GetAuthRequest(J!EncryptAuthRequest(jwt, key, nonce), key, jwts) = J!VerifyJwt(jwt)
<1> DEFINE c == XCiphertext(key, nonce, RequestHeader, jwt)
           g == XTag(key, nonce, RequestHeader, jwt)
           h == RequestHeader
           jwe == J!EncryptAuthRequest(jwt, key, nonce)
           opened == J!DecryptAuthRequest(jwe, key, jwts)
<1>1. jwe = <<h, J!None, nonce, c, g>>
  BY RequestIs
<1>2. J!XOpen(key, nonce, h, <<c, g>>, jwts) = J!Ok(jwt)
  BY Opens
<1> HIDE DEF c, g, jwe, h
<1>3. jwe[1] = h /\ jwe[3] = nonce /\ jwe[4] = c /\ jwe[5] = g
  BY <1>1
<1>4. opened = J!Ok(jwt)
  BY <1>2, <1>3 DEF J!DecryptAuthRequest
<1> HIDE DEF opened
<1>5. J!GetAuthRequest(jwe, key, jwts) =
         IF opened.error # "none" THEN opened ELSE J!VerifyJwt(opened.is)
  BY DEF J!GetAuthRequest, opened
<1> QED
  BY <1>4, <1>5 DEF J!Ok, jwe

\* What the wallet takes for a request, having one part or more of that one.
LEMMA RequestMust ==
    ASSUME NEW jwt, NEW key, NEW nonce, NEW jwts, NEW by,
           NEW h, NEW e, NEW n, NEW c, NEW g,
           \/ c = XCiphertext(key, nonce, RequestHeader, jwt)
           \/ g = XTag(key, nonce, RequestHeader, jwt),
           J!GetAuthRequest(<<h, e, n, c, g>>, by, jwts).error = "none"
    PROVE  /\ by = key /\ n = nonce /\ h = RequestHeader
           /\ c = XCiphertext(key, nonce, RequestHeader, jwt)
           /\ g = XTag(key, nonce, RequestHeader, jwt)
           /\ J!VerifyJwt(jwt).error = "none"
<1> DEFINE jwe == <<h, e, n, c, g>>
           opened == J!DecryptAuthRequest(jwe, by, jwts)
           result == J!GetAuthRequest(jwe, by, jwts)
<1>1. result = IF opened.error # "none" THEN opened ELSE J!VerifyJwt(opened.is)
  BY DEF J!GetAuthRequest
<1>2. opened = J!XOpen(by, n, h, <<c, g>>, jwts)
  <2>1. jwe[1] = h /\ jwe[3] = n /\ jwe[4] = c /\ jwe[5] = g
    OBVIOUS
  <2> HIDE DEF jwe
  <2> QED
    BY <2>1 DEF J!DecryptAuthRequest
<1>3. result.error = "none"
  OBVIOUS
<1> HIDE DEF opened, result
<1>4. opened.error = "none" /\ J!VerifyJwt(opened.is).error = "none"
  BY <1>1, <1>3
<1>5. J!XOpen(by, n, h, <<c, g>>, jwts).error = "none"
  BY <1>2, <1>4
<1>6. /\ by = key /\ n = nonce /\ h = RequestHeader
      /\ c = XCiphertext(key, nonce, RequestHeader, jwt)
      /\ g = XTag(key, nonce, RequestHeader, jwt)
      /\ J!XOpen(by, n, h, <<c, g>>, jwts).is = jwt
  BY <1>5, OpenedMust
<1> QED
  BY <1>2, <1>4, <1>6

-----------------------------------------------------------------------------
(* The response *)

ResponseHeader(delegate) ==
    [alg |-> "dir", cty |-> "JWT", enc |-> "XC20P", typ |-> "JWT",
     kid |-> J!KeyId(J!DidOf(delegate), "0")]
Pinned(header, pin) == J!Joined(header, [pin |-> pin])

LEMMA ResponseIs ==
    ASSUME NEW jwt, NEW key, NEW delegate, NEW pin, NEW nonce
    PROVE  LET h == ResponseHeader(delegate) IN
           J!EncryptAuthResponse(jwt, key, J!KeyId(J!DidOf(delegate), "0"), pin, nonce) =
              <<h, J!None, nonce, XCiphertext(key, nonce, Pinned(h, pin), jwt),
                XTag(key, nonce, Pinned(h, pin), jwt)>>
<1> DEFINE h == ResponseHeader(delegate)
           b == Pinned(h, pin)
           sealed == J!XSeal(key, nonce, b, jwt)
           c == XCiphertext(key, nonce, b, jwt)
           g == XTag(key, nonce, b, jwt)
<1>1. sealed = <<c, g>>
  <2> HIDE DEF b
  <2> QED
    BY DEF J!XSeal, XCiphertext, XTag
<1>2. J!EncryptAuthResponse(jwt, key, J!KeyId(J!DidOf(delegate), "0"), pin, nonce) =
         <<h, J!None, nonce, sealed[1], sealed[2]>>
  BY Zenon DEF J!EncryptAuthResponse, ResponseHeader, Pinned
<1> HIDE DEF sealed, c, g
<1>3. sealed[1] = c /\ sealed[2] = g
  BY <1>1
<1> QED
  BY <1>2, <1>3 DEF c, g

\* The header names the delegate, and with the PIN it names the PIN.
LEMMA HeadersDiffer ==
    ASSUME NEW delegate
    PROVE  /\ J!Resolve(ResponseHeader(delegate).kid[1]).error = "none"
           /\ J!Resolve(ResponseHeader(delegate).kid[1]).is.key = delegate
           /\ \A pin, other : Pinned(ResponseHeader(delegate), pin) =
                              Pinned(ResponseHeader(delegate), other) => pin = other
<1> DEFINE kid == J!KeyId(J!DidOf(delegate), "0")
           h == ResponseHeader(delegate)
<1>1. J!Resolve(kid[1]).error = "none" /\ J!Resolve(kid[1]).is.key = delegate
  <2> DEFINE did == J!DidOf(delegate)
             is == [id |-> J!KeyId(did, "0"), key |-> did[2]]
  <2>1. did[1] = "did" /\ did[2] = delegate
    BY DEF J!DidOf
  <2> HIDE DEF did
  <2>2. kid[1] = did
    BY DEF J!KeyId, did
  <2>3. is.key = delegate
    BY <2>1
  <2>4. J!Resolve(did) = J!Ok(is)
    BY <2>1 DEF J!Resolve
  <2> HIDE DEF is
  <2> QED
    BY <2>2, <2>3, <2>4 DEF J!Ok, did
<1> HIDE DEF kid
<1>2. h.kid = kid /\ DOMAIN h = {"alg", "cty", "enc", "typ", "kid"}
  BY DEF ResponseHeader, kid
<1> HIDE DEF h
<1>3. ASSUME NEW pin
      PROVE  Pinned(h, pin)["pin"] = pin
  <2> DEFINE p == [pin |-> pin]
  <2>1. p["pin"] = pin /\ "pin" \in DOMAIN p /\ "pin" \notin DOMAIN h
    BY <1>2
  <2> HIDE DEF p
  <2> QED
    BY <2>1 DEF Pinned, J!Joined, p
<1> QED
  BY <1>1, <1>2, <1>3 DEF h

\* decryptAuthResponse() of any parts, and what initClient() makes of them.
LEMMA ResultIs ==
    ASSUME NEW client, NEW h, NEW e, NEW n, NEW c, NEW g, NEW pin, NEW jwts, NEW delegate,
           J!Resolve(h.kid[1]).error = "none", J!Resolve(h.kid[1]).is.key = delegate
    PROVE  LET jwe == <<h, e, n, c, g>>
               opened == J!DecryptAuthResponse(client, jwe, pin, jwts) IN
           /\ opened = J!XOpen(J!DeriveSharedKey(client, delegate), n, Pinned(h, pin),
                               <<c, g>>, jwts)
           /\ J!ClientResult(client, jwe, pin, jwts) =
                 LET verified == J!VerifyJwt(opened.is) IN
                 IF opened.error # "none" THEN opened
                 ELSE IF verified.error # "none" THEN verified
                 ELSE J!Ok([connectedDid |-> verified.is.iss,
                            delegatePortableDid |-> verified.is.delegatePortableDid])
<1> DEFINE jwe == <<h, e, n, c, g>>
<1>1. jwe[1] = h /\ jwe[3] = n /\ jwe[4] = c /\ jwe[5] = g
  OBVIOUS
<1> HIDE DEF jwe
<1>2. J!DecryptAuthResponse(client, jwe, pin, jwts) =
         J!XOpen(J!DeriveSharedKey(client, delegate), n, Pinned(h, pin), <<c, g>>, jwts)
  BY <1>1 DEF J!DecryptAuthResponse, Pinned
<1>3. J!ClientResult(client, jwe, pin, jwts) =
         LET opened == J!DecryptAuthResponse(client, jwe, pin, jwts)
             verified == J!VerifyJwt(opened.is) IN
         IF opened.error # "none" THEN opened
         ELSE IF verified.error # "none" THEN verified
         ELSE J!Ok([connectedDid |-> verified.is.iss,
                    delegatePortableDid |-> verified.is.delegatePortableDid])
  BY Zenon DEF J!ClientResult
<1> QED
  BY <1>2, <1>3, Zenon DEF jwe

\* The app reads the response made for it with the PIN of its user.
LEMMA ResultRead ==
    ASSUME NEW client, NEW delegate, NEW payload, NEW nonce, NEW pin, NEW jwts,
           J!SignJwt(delegate, payload) \in jwts
    PROVE  LET key == J!DeriveSharedKey(client, delegate)
               jwt == J!SignJwt(delegate, payload)
               h   == ResponseHeader(delegate) IN
           J!ClientResult(client, <<h, J!None, nonce, XCiphertext(key, nonce, Pinned(h, pin), jwt),
                                    XTag(key, nonce, Pinned(h, pin), jwt)>>, pin, jwts) =
              J!Ok([connectedDid |-> payload.iss,
                    delegatePortableDid |-> payload.delegatePortableDid])
<1> DEFINE key == J!DeriveSharedKey(client, delegate)
           jwt == J!SignJwt(delegate, payload)
           h == ResponseHeader(delegate)
           c == XCiphertext(key, nonce, Pinned(h, pin), jwt)
           g == XTag(key, nonce, Pinned(h, pin), jwt)
           jwe == <<h, J!None, nonce, c, g>>
           opened == J!DecryptAuthResponse(client, jwe, pin, jwts)
           result == J!ClientResult(client, jwe, pin, jwts)
           good == [connectedDid |-> payload.iss,
                    delegatePortableDid |-> payload.delegatePortableDid]
<1>1. J!Resolve(h.kid[1]).error = "none" /\ J!Resolve(h.kid[1]).is.key = delegate
  BY HeadersDiffer
<1>2. J!VerifyJwt(jwt) = J!Ok(payload)
  BY SignedIs
<1>3. J!XOpen(key, nonce, Pinned(h, pin), <<c, g>>, jwts) = J!Ok(jwt)
  <2> DEFINE a == Pinned(h, pin)
  <2> HIDE DEF a, key, jwt
  <2>1. jwt \in jwts
    BY DEF jwt
  <2> QED
    BY <2>1, Opens
<1> HIDE DEF c, g, h, jwt
<1>4. /\ opened = J!XOpen(key, nonce, Pinned(h, pin), <<c, g>>, jwts)
      /\ result = LET verified == J!VerifyJwt(opened.is) IN
                  IF opened.error # "none" THEN opened
                  ELSE IF verified.error # "none" THEN verified
                  ELSE J!Ok([connectedDid |-> verified.is.iss,
                             delegatePortableDid |-> verified.is.delegatePortableDid])
  BY <1>1, ResultIs
<1> HIDE DEF opened, result
<1>5. opened.error = "none" /\ opened.is = jwt
  BY <1>3, <1>4 DEF J!Ok
<1>6. J!VerifyJwt(jwt).error = "none" /\ J!VerifyJwt(jwt).is = payload
  BY <1>2 DEF J!Ok
<1>7. result = J!Ok(good)
  BY <1>4, <1>5, <1>6
<1> QED
  BY <1>7, Zenon DEF result, jwe, c, g, h, jwt

\* What an app takes for a response, having one part or more of that one.
LEMMA ResultMust ==
    ASSUME NEW client, NEW h, NEW e, NEW n, NEW c, NEW g, NEW pin, NEW jwts, NEW delegate,
           J!Resolve(h.kid[1]).error = "none", J!Resolve(h.kid[1]).is.key = delegate,
           NEW key, NEW nonce, NEW aad, NEW jwt,
           c = XCiphertext(key, nonce, aad, jwt) \/ g = XTag(key, nonce, aad, jwt),
           J!ClientResult(client, <<h, e, n, c, g>>, pin, jwts).error = "none"
    PROVE  /\ J!DeriveSharedKey(client, delegate) = key /\ n = nonce /\ Pinned(h, pin) = aad
           /\ c = XCiphertext(key, nonce, aad, jwt) /\ g = XTag(key, nonce, aad, jwt)
<1> DEFINE jwe == <<h, e, n, c, g>>
           opened == J!DecryptAuthResponse(client, jwe, pin, jwts)
           result == J!ClientResult(client, jwe, pin, jwts)
           good == J!Ok([connectedDid |-> J!VerifyJwt(opened.is).is.iss,
                         delegatePortableDid |-> J!VerifyJwt(opened.is).is.delegatePortableDid])
<1>1. /\ opened = J!XOpen(J!DeriveSharedKey(client, delegate), n, Pinned(h, pin), <<c, g>>, jwts)
      /\ result = IF opened.error # "none" THEN opened
                  ELSE IF J!VerifyJwt(opened.is).error # "none" THEN J!VerifyJwt(opened.is)
                  ELSE good
  BY ResultIs
<1>2. result.error = "none"
  OBVIOUS
<1> HIDE DEF opened, result, good
<1>3. opened.error = "none"
  BY <1>1, <1>2
<1>4. J!XOpen(J!DeriveSharedKey(client, delegate), n, Pinned(h, pin), <<c, g>>, jwts).error = "none"
  BY <1>1, <1>3
<1> DEFINE l == J!DeriveSharedKey(client, delegate)
           b == Pinned(h, pin)
<1> HIDE DEF l, b
<1>5. J!XOpen(l, n, b, <<c, g>>, jwts).error = "none"
  BY <1>4 DEF l, b
<1>6. /\ l = key /\ n = nonce /\ b = aad
      /\ c = XCiphertext(key, nonce, aad, jwt) /\ g = XTag(key, nonce, aad, jwt)
  BY <1>5, OpenedMust
<1> QED
  BY <1>6 DEF l, b

LEMMA SharedBy ==
    ASSUME NEW a, NEW b, NEW c, NEW d
    PROVE  J!DeriveSharedKey(a, b) = J!DeriveSharedKey(c, d) <=> {a, b} = {c, d}
<1> DEFINE p == {a, b}
           q == {c, d}
<1>1. J!DeriveSharedKey(a, b) = <<"hkdf", p>> /\ J!DeriveSharedKey(c, d) = <<"hkdf", q>>
  BY Zenon DEF J!DeriveSharedKey
<1> HIDE DEF p, q
<1>2. <<"hkdf", p>> = <<"hkdf", q>> <=> p = q
  OBVIOUS
<1> QED
  BY <1>1, <1>2 DEF p, q

-----------------------------------------------------------------------------
(* The samples *)

LEMMA RequestFor ==
    ASSUME NEW app
    PROVE  J!Request(app).client_id[2] = app
<1> DEFINE callback == J!BuildOidcUrl("server", "callback", "", "").is
           e == <<>>
<1>1. J!Request(app) = J!CreateAuthRequest(app, callback, e, app)
  BY Zenon DEF J!Request
<1> HIDE DEF callback, e
<1> DEFINE did == J!DidOf(app)
<1>2. did[2] = app
  BY DEF J!DidOf
<1> HIDE DEF did
<1>3. J!CreateAuthRequest(app, callback, e, app).client_id = did
  BY DEF J!CreateAuthRequest, did
<1> QED
  BY <1>1, <1>2, <1>3

LEMMA RequestJweIs ==
    ASSUME NEW app, NEW key
    PROVE  LET jwt == J!SignJwt(app, J!Request(app))
               k == <<"key", key>>
               n == <<"nonce", app>> IN
           J!RequestJwe(app, key) = <<RequestHeader, J!None, n, XCiphertext(k, n, RequestHeader, jwt),
                                      XTag(k, n, RequestHeader, jwt)>>
<1> DEFINE jwt == J!SignJwt(app, J!Request(app))
           k == <<"key", key>>
           n == <<"nonce", app>>
<1>1. J!RequestJwe(app, key) = J!EncryptAuthRequest(jwt, k, n)
  BY Zenon DEF J!RequestJwe
<1> HIDE DEF jwt, k, n
<1>2. J!EncryptAuthRequest(jwt, k, n) =
         <<RequestHeader, J!None, n, XCiphertext(k, n, RequestHeader, jwt),
           XTag(k, n, RequestHeader, jwt)>>
  BY RequestIs
<1> QED
  BY <1>1, <1>2 DEF jwt, k, n

ResponseJwe(app, delegate, pin) ==
    LET jwt == J!SignJwt(delegate, J!ResponseObject(app, delegate))
        key == J!DeriveSharedKey(delegate, app)
        n   == <<"nonce", delegate>>
        h   == ResponseHeader(delegate) IN
    <<h, J!None, n, XCiphertext(key, n, Pinned(h, pin), jwt), XTag(key, n, Pinned(h, pin), jwt)>>

LEMMA ResponseTo ==
    ASSUME NEW app, NEW delegate, NEW pin
    PROVE  J!Response(app, delegate, pin).id_token = ResponseJwe(app, delegate, pin)
<1> DEFINE request == J!Request(app)
           jwt == J!SignJwt(delegate, J!ResponseObject(app, delegate))
           kid == J!KeyId(J!DidOf(delegate), "0")
           n == <<"nonce", delegate>>
           token == J!EncryptAuthResponse(jwt, J!DeriveSharedKey(delegate, request.client_id[2]),
                                          kid, pin, n)
<1>1. J!Response(app, delegate, pin) =
         [to |-> request.redirect_uri, state |-> request.state, id_token |-> token]
  BY Zenon DEF J!Response, J!SubmittedResponse, J!ResponseObject
<1>2. J!Response(app, delegate, pin).id_token = token
  <2> HIDE DEF token, request
  <2> QED
    BY <1>1
<1>3. request.client_id[2] = app
  BY RequestFor
<1> DEFINE key == J!DeriveSharedKey(delegate, app)
           h == ResponseHeader(delegate)
<1>4. token = J!EncryptAuthResponse(jwt, key, kid, pin, n)
  BY <1>3
<1> HIDE DEF jwt, key, n
<1>5. J!EncryptAuthResponse(jwt, key, kid, pin, n) =
         <<h, J!None, n, XCiphertext(key, n, Pinned(h, pin), jwt),
           XTag(key, n, Pinned(h, pin), jwt)>>
  BY ResponseIs
<1> HIDE DEF token
<1> QED
  BY <1>2, <1>4, <1>5, Zenon DEF ResponseJwe, jwt, key, n, h

LEMMA ObjectIs ==
    ASSUME NEW app, NEW delegate
    PROVE  /\ J!ResponseObject(app, delegate).iss = <<"owner", delegate>>
           /\ J!ResponseObject(app, delegate).delegatePortableDid = delegate
<1> DEFINE owner == <<"owner", delegate>>
           request == J!Request(app)
<1>1. J!ResponseObject(app, delegate) = J!CreateResponseObject(owner, delegate, request, 0)
  BY Zenon DEF J!ResponseObject
<1> HIDE DEF owner, request
<1> QED
  BY <1>1 DEF J!CreateResponseObject, owner

\* A wallet whose key is another, and whose request has a part of another one.
LEMMA RequestsHold ==
    ASSUME NEW app \in J!Apps, NEW key
    PROVE  LET request == J!RequestJwe(app, key) IN
           /\ J!GetAuthRequest(request, <<"key", key>>, J!RequestJwts) = J!Ok(J!Request(app))
           /\ \A other : other # key =>
                 J!GetAuthRequest(request, <<"key", other>>, J!RequestJwts).error # "none"
           /\ \A of, by : \A i \in {j \in {1, 3, 4, 5} : request[j] # J!RequestJwe(of, by)[j]} :
                 J!GetAuthRequest([request EXCEPT ![i] = J!RequestJwe(of, by)[i]], <<"key", key>>,
                                  J!RequestJwts).error # "none"
<1> DEFINE request == J!RequestJwe(app, key)
           jwt == J!SignJwt(app, J!Request(app))
           k == <<"key", key>>
           n == <<"nonce", app>>
           h == RequestHeader
           c == XCiphertext(k, n, h, jwt)
           g == XTag(k, n, h, jwt)
<1>1. request = <<h, J!None, n, c, g>>
  BY RequestJweIs
<1>2. jwt \in J!RequestJwts
  BY DEF J!RequestJwts
<1>3. J!GetAuthRequest(request, k, J!RequestJwts) = J!Ok(J!Request(app))
  <2>1. request = J!EncryptAuthRequest(jwt, k, n)
    BY Zenon DEF J!RequestJwe
  <2>2. J!VerifyJwt(jwt) = J!Ok(J!Request(app))
    BY SignedIs
  <2> HIDE DEF request, jwt, k, n
  <2>3. J!GetAuthRequest(J!EncryptAuthRequest(jwt, k, n), k, J!RequestJwts) = J!VerifyJwt(jwt)
    BY <1>2, RequestRead
  <2> QED
    BY <2>1, <2>2, <2>3
<1>4. ASSUME NEW other, other # key
      PROVE  J!GetAuthRequest(request, <<"key", other>>, J!RequestJwts).error # "none"
  <2> DEFINE l == <<"key", other>>
  <2>1. l # k
    BY <1>4
  <2> HIDE DEF l, k, n, jwt, request, h
  <2>2. J!GetAuthRequest(<<h, J!None, n, c, g>>, l, J!RequestJwts).error # "none"
    BY <2>1, RequestMust DEF h
  <2> QED
    BY <1>1, <2>2 DEF l
<1>5. ASSUME NEW of, NEW by, NEW i \in {1, 3, 4, 5}, request[i] # J!RequestJwe(of, by)[i]
      PROVE  J!GetAuthRequest([request EXCEPT ![i] = J!RequestJwe(of, by)[i]], k,
                              J!RequestJwts).error # "none"
  <2> DEFINE other == J!RequestJwe(of, by)
             v == other[i]
  <2>1. PICK m, d, u : other = <<h, J!None, m, d, u>>
    <3> HIDE DEF h
    <3> QED
      BY RequestJweIs DEF h
  <2> HIDE DEF other, k, n, jwt, request, h
  <2> DEFINE x == c
             y == g
  <2> HIDE DEF x, y
  <2>2. request = <<h, J!None, n, x, y>>
    BY <1>1 DEF x, y
  <2>3. request[i] # v
    BY <1>5 DEF other
  <2> HIDE DEF v
  <2>4. CASE i = 1
    <3>1. v = h /\ request[1] = h
      BY <2>1, <2>2, <2>4 DEF v
    <3> QED
      BY <2>3, <2>4, <3>1
  <2>5. CASE i = 3
    <3>1. v # n /\ [request EXCEPT ![i] = v] = <<h, J!None, v, x, y>>
      BY <2>2, <2>3, <2>5
    <3>2. J!GetAuthRequest(<<h, J!None, v, x, y>>, k, J!RequestJwts).error # "none"
      BY <3>1, RequestMust DEF x, y, h
    <3> QED
      BY <3>1, <3>2 DEF v, other
  <2>6. CASE i = 4
    <3>1. v # x /\ [request EXCEPT ![i] = v] = <<h, J!None, n, v, y>>
      BY <2>2, <2>3, <2>6
    <3>2. J!GetAuthRequest(<<h, J!None, n, v, y>>, k, J!RequestJwts).error # "none"
      BY <3>1, RequestMust DEF x, y, h
    <3> QED
      BY <3>1, <3>2 DEF v, other
  <2>7. CASE i = 5
    <3>1. v # y /\ [request EXCEPT ![i] = v] = <<h, J!None, n, x, v>>
      BY <2>2, <2>3, <2>7
    <3>2. J!GetAuthRequest(<<h, J!None, n, x, v>>, k, J!RequestJwts).error # "none"
      BY <3>1, RequestMust DEF x, y, h
    <3> QED
      BY <3>1, <3>2 DEF v, other
  <2> QED
    BY <2>4, <2>5, <2>6, <2>7
<1> HIDE DEF request, jwt
<1> QED
  BY <1>3, <1>4, <1>5 DEF request

\* A request that another DID has signed.
LEMMA ForgedRefused ==
    ASSUME NEW app, NEW by, by # app, NEW key, NEW nonce, NEW jwts
    PROVE  J!GetAuthRequest(J!EncryptAuthRequest(J!Forged(J!SignJwt(app, J!Request(app)), by),
                                                 key, nonce), key, jwts).error # "none"
<1> DEFINE jwt == J!Forged(J!SignJwt(app, J!Request(app)), by)
           h == RequestHeader
           c == XCiphertext(key, nonce, h, jwt)
           g == XTag(key, nonce, h, jwt)
<1>1. J!VerifyJwt(jwt).error # "none"
  BY SignedIs
<1> HIDE DEF jwt
<1>2. J!EncryptAuthRequest(jwt, key, nonce) = <<h, J!None, nonce, c, g>>
  BY RequestIs
<1>3. J!GetAuthRequest(<<h, J!None, nonce, c, g>>, key, jwts).error # "none"
  BY <1>1, RequestMust
<1> HIDE DEF h, c, g
<1> QED
  BY <1>2, <1>3 DEF jwt

\* The app the response is for reads it, with the PIN; no other app does, none
\* with another PIN, and no app when a part is of another response.
LEMMA ResponsesHold ==
    ASSUME NEW app \in J!Apps, NEW delegate \in J!Delegates, NEW pin
    PROVE  LET response == ResponseJwe(app, delegate, pin) IN
           /\ J!ClientResult(app, response, pin, J!ResponseJwts) =
                 J!Ok([connectedDid |-> <<"owner", delegate>>, delegatePortableDid |-> delegate])
           /\ \A client \in J!Apps : \A other : client # app \/ other # pin =>
                 J!ClientResult(client, response, other, J!ResponseJwts).error # "none"
           /\ \A of \in J!Apps, by \in J!Delegates : \A other :
                 \A i \in {j \in {1, 3, 4, 5} : response[j] # ResponseJwe(of, by, other)[j]} :
                    J!ClientResult(app, [response EXCEPT ![i] = ResponseJwe(of, by, other)[i]],
                                   pin, J!ResponseJwts).error # "none"
<1> DEFINE response == ResponseJwe(app, delegate, pin)
           payload == J!ResponseObject(app, delegate)
           jwt == J!SignJwt(delegate, payload)
           k == J!DeriveSharedKey(delegate, app)
           n == <<"nonce", delegate>>
           h == ResponseHeader(delegate)
           a == Pinned(h, pin)
           c == XCiphertext(k, n, a, jwt)
           g == XTag(k, n, a, jwt)
<1>1. response = <<h, J!None, n, c, g>>
  BY Zenon DEF ResponseJwe
<1>2. jwt \in J!ResponseJwts
  BY DEF J!ResponseJwts
<1>3. k = J!DeriveSharedKey(app, delegate)
  BY SharedBy
<1>4. \A x, y : x \in J!Apps /\ y \in J!Delegates => x # y
  BY DEF J!Apps, J!Delegates
<1>5. J!ClientResult(app, response, pin, J!ResponseJwts) =
         J!Ok([connectedDid |-> <<"owner", delegate>>, delegatePortableDid |-> delegate])
  <2> HIDE DEF n, payload
  <2>1. J!ClientResult(app, <<h, J!None, n,
                              XCiphertext(J!DeriveSharedKey(app, delegate), n, Pinned(h, pin), jwt),
                              XTag(J!DeriveSharedKey(app, delegate), n, Pinned(h, pin), jwt)>>,
                       pin, J!ResponseJwts) =
           J!Ok([connectedDid |-> payload.iss, delegatePortableDid |-> payload.delegatePortableDid])
    BY <1>2, ResultRead
  <2>2. payload.iss = <<"owner", delegate>> /\ payload.delegatePortableDid = delegate
    BY ObjectIs DEF payload
  <2> HIDE DEF response
  <2> QED
    BY <1>1, <1>3, <2>1, <2>2
<1>6. ASSUME NEW client \in J!Apps, NEW other, client # app \/ other # pin
      PROVE  J!ClientResult(client, response, other, J!ResponseJwts).error # "none"
  <2>1. J!DeriveSharedKey(client, delegate) = k => client = app
    BY <1>4, SharedBy
  <2>2. Pinned(h, other) = a => other = pin
    BY HeadersDiffer
  <2>3. J!Resolve(h.kid[1]).error = "none" /\ J!Resolve(h.kid[1]).is.key = delegate
    BY HeadersDiffer
  <2> HIDE DEF h, a, k, n, jwt, response
  <2>4. J!ClientResult(client, <<h, J!None, n, c, g>>, other, J!ResponseJwts).error # "none"
    BY <1>6, <2>1, <2>2, <2>3, ResultMust
  <2> QED
    BY <1>1, <2>4
<1>7. ASSUME NEW of \in J!Apps, NEW by \in J!Delegates, NEW other, NEW i \in {1, 3, 4, 5},
             response[i] # ResponseJwe(of, by, other)[i]
      PROVE  J!ClientResult(app, [response EXCEPT ![i] = ResponseJwe(of, by, other)[i]],
                            pin, J!ResponseJwts).error # "none"
  <2> DEFINE mixed == ResponseJwe(of, by, other)
             v == mixed[i]
             b == ResponseHeader(by)
  <2>1. PICK m, d, u : mixed = <<b, J!None, m, d, u>>
    BY Zenon DEF ResponseJwe
  <2>2. J!Resolve(h.kid[1]).error = "none" /\ J!Resolve(h.kid[1]).is.key = delegate
    BY HeadersDiffer
  <2>3. J!Resolve(b.kid[1]).error = "none" /\ J!Resolve(b.kid[1]).is.key = by
    BY HeadersDiffer
  <2>4. J!DeriveSharedKey(app, by) = k => by = delegate
    BY <1>4, SharedBy
  <2>5. by = delegate => b = h
    OBVIOUS
  <2> HIDE DEF mixed, k, n, jwt, response, h, a, b
  <2> DEFINE x == c
             y == g
  <2> HIDE DEF x, y
  <2>6. response = <<h, J!None, n, x, y>>
    BY <1>1 DEF x, y
  <2>7. response[i] # v
    BY <1>7 DEF mixed
  <2> HIDE DEF v
  <2>8. CASE i = 1
    <3>1. v = b /\ v # h /\ [response EXCEPT ![i] = v] = <<b, J!None, n, x, y>>
      BY <2>1, <2>6, <2>7, <2>8 DEF v
    <3>2. by # delegate
      BY <2>5, <3>1
    <3>3. J!ClientResult(app, <<b, J!None, n, x, y>>, pin, J!ResponseJwts).error # "none"
      BY <2>3, <2>4, <3>2, ResultMust DEF x, y
    <3> QED
      BY <3>1, <3>3 DEF v, mixed
  <2>9. CASE i = 3
    <3>1. v # n /\ [response EXCEPT ![i] = v] = <<h, J!None, v, x, y>>
      BY <2>6, <2>7, <2>9
    <3>2. J!ClientResult(app, <<h, J!None, v, x, y>>, pin, J!ResponseJwts).error # "none"
      BY <2>2, <3>1, ResultMust DEF x, y
    <3> QED
      BY <3>1, <3>2 DEF v, mixed
  <2>10. CASE i = 4
    <3>1. v # x /\ [response EXCEPT ![i] = v] = <<h, J!None, n, v, y>>
      BY <2>6, <2>7, <2>10
    <3>2. J!ClientResult(app, <<h, J!None, n, v, y>>, pin, J!ResponseJwts).error # "none"
      BY <2>2, <3>1, ResultMust DEF x, y
    <3> QED
      BY <3>1, <3>2 DEF v, mixed
  <2>11. CASE i = 5
    <3>1. v # y /\ [response EXCEPT ![i] = v] = <<h, J!None, n, x, v>>
      BY <2>6, <2>7, <2>11
    <3>2. J!ClientResult(app, <<h, J!None, n, x, v>>, pin, J!ResponseJwts).error # "none"
      BY <2>2, <3>1, ResultMust DEF x, y
    <3> QED
      BY <3>1, <3>2 DEF v, mixed
  <2> QED
    BY <2>8, <2>9, <2>10, <2>11
<1> HIDE DEF response
<1> QED
  BY <1>5, <1>6, <1>7 DEF response

LEMMA ConfidentialSamplesHold == \A s \in J!OidcSamples : J!Confidential(s)
<1> SUFFICES ASSUME NEW s \in J!OidcSamples
             PROVE  J!Confidential(s)
  OBVIOUS
<1>1. s.app \in J!Apps /\ s.delegate \in J!Delegates
  BY DEF J!OidcSamples
<1> DEFINE request == J!RequestJwe(s.app, s.key)
           response == J!Response(s.app, s.delegate, s.pin).id_token
           Mixed(jwe, other) ==
               {[jwe EXCEPT ![i] = other[i]] : i \in {j \in {1, 3, 4, 5} : jwe[j] # other[j]}}
<1>2. response = ResponseJwe(s.app, s.delegate, s.pin)
  BY ResponseTo
<1>3. /\ J!GetAuthRequest(request, <<"key", s.key>>, J!RequestJwts) = J!Ok(J!Request(s.app))
      /\ \A key \in {"x1", "x2"} \ {s.key} :
            J!GetAuthRequest(request, <<"key", key>>, J!RequestJwts).error # "none"
  BY <1>1, RequestsHold
<1>4. \A app \in J!Apps, key \in {"x1", "x2"} : \A jwe \in Mixed(request, J!RequestJwe(app, key)) :
         J!GetAuthRequest(jwe, <<"key", s.key>>, J!RequestJwts).error # "none"
  BY <1>1, RequestsHold
<1>5. \A by \in J!Apps \ {s.app} :
         J!GetAuthRequest(J!EncryptAuthRequest(J!Forged(J!SignJwt(s.app, J!Request(s.app)), by),
                                               <<"key", s.key>>, <<"nonce", "n">>),
                          <<"key", s.key>>, J!RequestJwts).error # "none"
  <2> TAKE by \in J!Apps \ {s.app}
  <2> DEFINE k == <<"key", s.key>>
             n == <<"nonce", "n">>
  <2> HIDE DEF k, n
  <2>1. J!GetAuthRequest(J!EncryptAuthRequest(J!Forged(J!SignJwt(s.app, J!Request(s.app)), by), k, n),
                         k, J!RequestJwts).error # "none"
    BY ForgedRefused
  <2> QED
    BY <2>1 DEF k, n
<1>6. /\ J!ClientResult(s.app, response, s.pin, J!ResponseJwts) =
            J!Ok([connectedDid |-> <<"owner", s.delegate>>, delegatePortableDid |-> s.delegate])
      /\ \A client \in J!Apps : \A other : client # s.app \/ other # s.pin =>
            J!ClientResult(client, response, other, J!ResponseJwts).error # "none"
      /\ \A of \in J!Apps, by \in J!Delegates : \A other :
            \A i \in {j \in {1, 3, 4, 5} : response[j] # ResponseJwe(of, by, other)[j]} :
               J!ClientResult(s.app, [response EXCEPT ![i] = ResponseJwe(of, by, other)[i]],
                              s.pin, J!ResponseJwts).error # "none"
  <2> DEFINE token == ResponseJwe(s.app, s.delegate, s.pin)
  <2>1. /\ J!ClientResult(s.app, token, s.pin, J!ResponseJwts) =
              J!Ok([connectedDid |-> <<"owner", s.delegate>>, delegatePortableDid |-> s.delegate])
        /\ \A client \in J!Apps : \A other : client # s.app \/ other # s.pin =>
              J!ClientResult(client, token, other, J!ResponseJwts).error # "none"
        /\ \A of \in J!Apps, by \in J!Delegates : \A other :
              \A i \in {j \in {1, 3, 4, 5} : token[j] # ResponseJwe(of, by, other)[j]} :
                 J!ClientResult(s.app, [token EXCEPT ![i] = ResponseJwe(of, by, other)[i]],
                                s.pin, J!ResponseJwts).error # "none"
    BY <1>1, ResponsesHold
  <2>2. response = token
    BY <1>2
  <2> HIDE DEF response, token
  <2> QED
    BY <2>1, <2>2
<1>7. \A app \in J!Apps, pin \in J!Pins :
         LET result == J!ClientResult(app, response, pin, J!ResponseJwts) IN
         IF app = s.app /\ pin = s.pin
         THEN result = J!Ok([connectedDid |-> <<"owner", s.delegate>>,
                             delegatePortableDid |-> s.delegate])
         ELSE result.error # "none"
  <2> HIDE DEF response
  <2> QED
    BY <1>6
<1>8. \A app \in J!Apps, delegate \in J!Delegates, pin \in J!Pins :
         \A jwe \in Mixed(response, J!Response(app, delegate, pin).id_token) :
            J!ClientResult(s.app, jwe, s.pin, J!ResponseJwts).error # "none"
  <2> HIDE DEF response
  <2> QED
    BY <1>6, ResponseTo
<1> QED
  BY <1>3, <1>4, <1>5, <1>7, <1>8, Zenon DEF J!Confidential

-----------------------------------------------------------------------------
(* Sealed *)

\* A JWE opens to its text for who it was made for and is refused when any part
\* was changed, in its flattened and its compact form, and the messages of the
\* OIDC flow reach their reader only (jwe-flattened.ts 201-458, jwe-compact.ts
\* 140-224, oidc.ts 191-605).  Of any headers, keys, texts, apps and PINs:
\* OwnKeyOpens, OtherKeyRefused, ReplacedRefused, PasswordFails; RequestRead,
\* RequestMust, ResultRead, ResultMust.
THEOREM SealedHolds == MCSpec => []Sealed
<1>1. StillSampled => Sealed
  <2> SUFFICES ASSUME StillSampled PROVE Sealed
    OBVIOUS
  <2>1. sample.of = "jwe" => sample.input \in J!JweSamples
    BY DEF StillSampled, Sampled, Sample
  <2>2. sample.of = "oidc" => sample.input \in J!OidcSamples
    BY DEF StillSampled, Sampled, Sample
  <2> QED
    BY <2>1, <2>2, SealedSamplesHold, CompactSealedSamplesHold, ConfidentialSamplesHold
       DEF Sealed
<1> QED
  BY <1>1, SamplesStay, PTL DEF MCSpec
=============================================================================
