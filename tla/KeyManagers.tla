----------------------------- MODULE KeyManagers ------------------------------
(***************************************************************************)
(* How a key manager finds a key by the URI it gave for it:                *)
(* LocalKeyManager of the crypto package, LocalKeyManager of the agent over*)
(* DwnKeyStore, AwsKeyManager with its aliases at AWS KMS, and the         *)
(* DeterministicKeyGenerator the vault creates its DID with.               *)
(*                                                                         *)
(* A key is its name, which is also its thumbprint: computeJwkThumbprint() *)
(* takes nothing but the public members, so that a key and its public key  *)
(* have the same one.  The URI of a key is urn:jwk: and its thumbprint.    *)
(* KeyAlgorithms has what algorithm a manager picks for a key.             *)
(***************************************************************************)
EXTENDS Sequences, SequencesExt, TLC

Uri(key) == <<"urn:jwk", key>>

\* A private JWK as it is kept; without a kid it gets its thumbprint.
Kept(key, kid) == [key |-> key, kid |-> IF kid = "" THEN key ELSE kid]

\* held: what the manager stores, by URI, by AWS key id or as records; index:
\* what a URI is looked up in; given: history, the URIs handed out.
NoKeys == [held |-> {}, index |-> <<>>, given |-> {}]
Holds(st, entry) == [st EXCEPT !.held = {e \in @ : e.key # entry.key} \cup {entry}]
Indexes(st, uri, entry) == [st EXCEPT !.index = (uri :> entry) @@ @]
Gives(st, key) == [st EXCEPT !.given = @ \cup {key}]
Named(st, uri) == IF uri \in DOMAIN st.index THEN {st.index[uri]} ELSE {}

-----------------------------------------------------------------------------
(* LocalKeyManager of the crypto package: a store keyed by the URI. *)

LocalGenerateKey(st, key) == Gives(Indexes(st, Uri(key), Kept(key, "")), key)
LocalImportKey(st, key, kid, private) ==
    IF ~private THEN st ELSE Gives(Indexes(st, Uri(key), Kept(key, kid)), key)
LocalGetPrivateKey(st, uri) == Named(st, uri)

-----------------------------------------------------------------------------
(* LocalKeyManager of the agent: a record in a DWN for every key. *)

\* getAllRecords() makes the index anew, with the kid in the place of the
\* thumbprint.
GetAllRecords(st) ==
    [st EXCEPT !.index =
        [uri \in {Uri(e.kid) : e \in st.held} |-> CHOOSE e \in st.held : Uri(e.kid) = uri]]
LookupRecordId(st, uri) == IF uri \in DOMAIN st.index THEN st ELSE GetAllRecords(st)

Set(st, entry) == Gives(Indexes(Holds(st, entry), Uri(entry.key), entry), entry.key)
AgentGenerateKey(st, key) == Set(st, Kept(key, ""))
AgentImportKey(st, key, kid, private) ==
    LET looked == LookupRecordId(st, Uri(key)) IN
    IF ~private THEN st
    ELSE IF Named(looked, Uri(key)) # {} THEN looked
    ELSE Set(looked, Kept(key, kid))
AgentGetPrivateKey(st, uri) == Named(LookupRecordId(st, uri), uri)

AgentDeleteKey(st, key) ==
    LET looked == LookupRecordId(st, Uri(key)) IN
    IF Named(looked, Uri(key)) = {} THEN looked
    ELSE [held  |-> looked.held \ Named(looked, Uri(key)),
          index |-> [u \in DOMAIN looked.index \ {Uri(key)} |-> looked.index[u]],
          given |-> looked.given \ {key}]

\* The index expires, or the process is restarted.
Forgotten(st) == [st EXCEPT !.index = <<>>]

-----------------------------------------------------------------------------
(* AwsKeyManager: a KMS key, and an alias made of its URI. *)

CreateKeyAlias(st, key) == Indexes(st, Uri(key), Kept(key, ""))

\* generateKey() of its EcdsaAlgorithm; the alias may fail after the key is made.
AwsGenerateKey(st, key, aliased) ==
    LET made == Holds(st, Kept(key, "")) IN
    IF aliased THEN Gives(CreateKeyAlias(made, key), key) ELSE made
AwsGetPublicKey(st, uri) == Named(st, uri)

-----------------------------------------------------------------------------
(* DeterministicKeyGenerator: the keys it is given, one after the other. *)

AddPredefinedKeys(keys) ==
    [queue |-> FoldLeft(LAMBDA q, k : IF k \in {q[i] : i \in DOMAIN q} THEN q ELSE Append(q, k),
                        <<>>, keys),
     next  |-> 1]
NextPredefinedKey(gen) ==
    IF gen.next > Len(gen.queue) THEN {} ELSE {gen.queue[gen.next]}
PredefinedKey(gen, uri) == {gen.queue[i] : i \in {j \in DOMAIN gen.queue : Uri(gen.queue[j]) = uri}}

-----------------------------------------------------------------------------
(* Properties *)

\* Bounds: two keys, three calls.
Known == {"k1", "k2"}
Op(op, key, kid, flag) == [op |-> op, key |-> key, kid |-> kid, flag |-> flag]
Ops == {Op("generate", k, "", f) : k \in Known, f \in BOOLEAN}
    \cup {Op("import", k, kid, f) : k \in Known, kid \in {"", "other"}, f \in BOOLEAN}
    \cup {Op("delete", k, "", TRUE) : k \in Known} \cup {Op("forget", "k1", "", TRUE)}
Histories == [manager : {"local", "agent", "aws", "predefined"},
              ops : {<<a>> : a \in Ops} \cup (Ops \X Ops) \cup (Ops \X Ops \X Ops)]

\* A key is generated once; only some managers import or delete.
After(manager, st, o) ==
    IF o.op = "generate" /\ o.key \in {e.key : e \in st.held} \cup st.given THEN st
    ELSE CASE o.op = "generate" /\ manager = "local" -> LocalGenerateKey(st, o.key)
           [] o.op = "generate" /\ manager = "agent" -> AgentGenerateKey(st, o.key)
           [] o.op = "generate" /\ manager = "aws"   -> AwsGenerateKey(st, o.key, o.flag)
           [] o.op = "import" /\ manager = "local" -> LocalImportKey(st, o.key, o.kid, o.flag)
           [] o.op = "import" /\ manager = "agent" -> AgentImportKey(st, o.key, o.kid, o.flag)
           [] o.op = "delete" /\ manager = "agent" -> AgentDeleteKey(st, o.key)
           [] o.op = "forget" /\ manager = "agent" -> Forgotten(st)
           [] OTHER -> st

Find(manager, st, uri) ==
    CASE manager = "local" -> LocalGetPrivateKey(st, uri)
      [] manager = "agent" -> AgentGetPrivateKey(st, uri)
      [] OTHER -> AwsGetPublicKey(st, uri)

\* A URI that was given for a key and whose key is not deleted finds that key;
\* that of a deleted key finds none.  Exception: an agent's key with a kid that is not its
\* thumbprint is indexed under the kid as soon as the records are listed, and
\* its URI finds nothing (store-key.ts:72, local-key-manager.ts:421).
UriFindsKey(history) ==
    LET manager == history.manager
        st == FoldLeft(LAMBDA s, o : After(manager, s, o), NoKeys, history.ops)
        gen == AddPredefinedKeys([i \in DOMAIN history.ops |-> history.ops[i].key]) IN
    IF manager = "predefined"
    THEN /\ \A key \in NextPredefinedKey(gen) : PredefinedKey(gen, Uri(key)) = {key}
         /\ \A i \in DOMAIN history.ops : \E j \in DOMAIN gen.queue : gen.queue[j] = history.ops[i].key
         /\ \A i, j \in DOMAIN gen.queue : i # j => gen.queue[i] # gen.queue[j]
    ELSE \A key \in Known :
        LET found == Find(manager, st, Uri(key)) IN
        IF key \notin st.given THEN found = {}
        ELSE \/ manager = "agent" /\ \E e \in st.held : e.key = key /\ e.kid # key
             \/ {e.key : e \in found} = {key}
=============================================================================
