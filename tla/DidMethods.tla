----------------------------- MODULE DidMethods ------------------------------
(***************************************************************************)
(* The DID methods that keep no record of their own: did:key and did:jwk,  *)
(* whose identifier is the key, and did:ion, whose identifier commits to   *)
(* the first document; BearerDid's choice of a signer; and dereferencing.  *)
(*                                                                         *)
(* A key is its curve, its JOSE algorithm and its thumbprint `kid`; a      *)
(* method id is its fragment.  An optional value is a set of at most one.  *)
(* A hash commits to what is hashed, so it is modelled as that.            *)
(***************************************************************************)
EXTENDS KeyAlgorithms

\* DidVerificationRelationship, in the order the enumeration lists them.
Relationships == <<"authentication", "assertionMethod", "keyAgreement",
                   "capabilityInvocation", "capabilityDelegation">>
Unrelated == [r \in ToSet(Relationships) |-> <<>>]

\* A key of the agent's LocalKeyManager, by the name the DID method asks for.
GeneratedKey(algorithm, kid) ==
    [crv |-> Generates[algorithm].crv, alg |-> Generates[algorithm].alg, kid |-> kid]

---------------------------------------------------------------------------
(* Documents *)

IndexOf(id, resources) == SelectInSeq(resources, LAMBDA r : r.id = id)

\* The relationships of a method, getVerificationRelationshipsById().
RelationshipsOf(doc, id) ==
    SelectSeq(Relationships, LAMBDA r : id \in ToSet(doc.rel[r]))

\* getSigner(): the method asked for, or the first that asserts; its key must
\* be in JWK form and known to the key manager.
Signer(doc, wanted, kids) ==
    LET id == IF wanted # {} THEN wanted
              ELSE IF doc.rel["assertionMethod"] = <<>> THEN {}
              ELSE {Head(doc.rel["assertionMethod"])}
        i == IF id = {} THEN 0 ELSE IndexOf(CHOOSE d \in id : TRUE, doc.methods) IN
    IF i = 0 THEN {}
    ELSE {vm \in {doc.methods[i]} : vm.key # {} /\ \A k \in vm.key : k.kid \in kids}

\* dereference() of a DID URL with a fragment: the second loop, over the
\* services, runs although the first has found a method.
Dereference(doc, id) ==
    LET vm == IndexOf(id, doc.methods)
        svc == IndexOf(id, doc.services) IN
    IF svc # 0 THEN <<"service", svc>>
    ELSE IF vm # 0 THEN <<"method", vm>> ELSE <<"none", 0>>

---------------------------------------------------------------------------
(* did:jwk and did:key *)

SelfSigned(methods, id, agree) ==
    [methods |-> methods, services |-> <<>>,
     rel |-> [r \in ToSet(Relationships) |-> IF r = "keyAgreement" THEN agree ELSE <<id>>]]

\* resolve(): the key of the identifier, for every purpose its `use` allows.
ResolveJwk(key, use) ==
    LET all == SelfSigned(<<[id |-> "0", key |-> {key}]>>, "0", <<"0">>)
        drop == CASE use = "sig" -> {"keyAgreement"}
                  [] use = "enc" -> ToSet(Relationships) \ {"keyAgreement"}
                  [] OTHER -> {} IN
    [all EXCEPT !.rel = [r \in ToSet(Relationships) |-> IF r \in drop THEN <<>> ELSE @[r]]]

\* The codec of a curve; none for P-256, which publicKeyToMultibaseId() refuses
\* although the method's own table of algorithms lists it.
Codec == [Ed25519 |-> "ed25519-pub", secp256k1 |-> "secp256k1-pub", X25519 |-> "x25519-pub"]
Standard == {"JsonWebKey2020", "Ed25519VerificationKey2020"}
StandardKem == {"JsonWebKey2020", "X25519KeyAgreementKey2020"}
Formats == Standard \cup StandardKem

\* createSignatureMethod() and createEncryptionMethod(): {} is their error.
SignatureMethod(key, options) ==
    IF options.format \notin Formats THEN {}
    ELSE IF ~options.experimental /\ options.format \notin Standard THEN {}
    ELSE {[id |-> key.kid, key |-> IF options.format = "JsonWebKey2020" THEN {key} ELSE {}]}

\* deriveEncryptionKey(): only an Ed25519 key has an X25519 key derived.
EncryptionMethod(key, options) ==
    LET format == IF options.format = "Ed25519VerificationKey2020"
                  THEN "X25519KeyAgreementKey2020" ELSE "JsonWebKey2020"
        derived == [crv |-> "X25519", alg |-> "ECDH-ES+A256KW", kid |-> "x" \o key.kid] IN
    IF key.crv # "Ed25519" THEN {}
    ELSE {[id |-> derived.kid, key |-> IF format = "JsonWebKey2020" THEN {derived} ELSE {}]}

\* createDocument() of did:key; {} is a resolution error.
ResolveKey(key, options) ==
    LET sig == SignatureMethod(key, options)
        kem == IF options.derive THEN EncryptionMethod(key, options) ELSE {} IN
    IF sig = {} \/ (options.derive /\ kem = {}) THEN {}
    ELSE {SelfSigned(SetToSeq(sig) \o SetToSeq(kem), key.kid,
                     SetToSeq({m.id : m \in kem}))}

\* create() generates the key first; {} when it throws, and a DID whose
\* document is null, <<>>, when the identifier does not resolve.
CreateKey(algorithm, options) ==
    IF algorithm \notin DOMAIN Generates THEN {}
    ELSE LET key == GeneratedKey(algorithm, "key") IN
         IF key.crv \notin DOMAIN Codec THEN {}
         ELSE {SetToSeq(ResolveKey(key, options))}

---------------------------------------------------------------------------
(* did:ion *)

\* createIonDocument(): fragments, and keys without `alg` and `kid`.
IonDocument(methods, services) ==
    [keys |-> [i \in DOMAIN methods |->
                   [id |-> methods[i].id, crv |-> methods[i].key.crv,
                    material |-> methods[i].key.kid, purposes |-> methods[i].purposes]],
     services |-> services]

DefaultPurposes == <<"authentication", "assertionMethod",
                     "capabilityDelegation", "capabilityInvocation">>

\* The document create() makes the long form of the DID from.
CreateIon(options) ==
    LET given == IF options.methods = <<>>
                 THEN <<[id |-> {}, algorithm |-> "Ed25519", purposes |-> {}]>>
                 ELSE options.methods
        Of(i) == LET kid == "jkt" \o ToString(i) IN
                 [id |-> IF given[i].id = {} THEN kid ELSE CHOOSE d \in given[i].id : TRUE,
                  key |-> GeneratedKey(given[i].algorithm, kid),
                  purposes |-> IF given[i].purposes = {} THEN DefaultPurposes
                               ELSE CHOOSE p \in given[i].purposes : TRUE] IN
    IonDocument([i \in DOMAIN given |-> Of(i)], options.services)

\* External: what the gateway resolves a long form to.
IonGateway(ion) ==
    [methods |-> [i \in DOMAIN ion.keys |->
                      [id |-> ion.keys[i].id,
                       key |-> [crv |-> ion.keys[i].crv, kid |-> ion.keys[i].material]]],
     rel |-> [r \in ToSet(Relationships) |->
                  LET held == SelectSeq(ion.keys, LAMBDA k : r \in ToSet(k.purposes)) IN
                  [i \in DOMAIN held |-> held[i].id]],
     services |-> ion.services]

\* publish() makes the document of its create request from the resolved one.
PublishIon(doc) ==
    IonDocument([i \in DOMAIN doc.methods |->
                     [id |-> doc.methods[i].id, key |-> doc.methods[i].key,
                      purposes |-> RelationshipsOf(doc, doc.methods[i].id)]],
                doc.services)

---------------------------------------------------------------------------
(* Bounds of the claims *)

KeyOptions == [format : Formats, experimental : BOOLEAN, derive : BOOLEAN]
Fragments == {{}, {"a"}, {"b"}}
PurposeLists == {<<"authentication">>, <<"assertionMethod", "capabilityInvocation">>,
                 <<"keyAgreement", "authentication">>}
IonMethod == [id : Fragments, algorithm : {"Ed25519", "secp256k1"},
              purposes : {{}} \cup {{p} : p \in PurposeLists}]
IonServices == {<<>>, <<[id |-> "dwn"]>>}
IonOptions ==
    [methods : {<<>>} \cup {<<m>> : m \in IonMethod} \cup
               {ms \in IonMethod \X IonMethod : ms[1].id # ms[2].id \/ ms[1].id = {}},
     services : IonServices]

---------------------------------------------------------------------------
(* Properties *)

\* A did:key or did:jwk that create() returned can sign with the key that was
\* generated for it: its document names it as a JWK, whatever the options.  Two
\* do not: with an encryption key to derive from a key that is not Ed25519 the
\* document is null, and in a format other than JsonWebKey2020 the key is no
\* JWK (did-key.ts 339-387, 787-977, did-jwk.ts 337-409, bearer-did.ts 174-212).
CreatedSigns(algorithm, options) ==
    LET key == GeneratedKey(algorithm, "key") IN
    /\ Signer(ResolveJwk(key, "none"), {}, {"key"}) = {[id |-> "0", key |-> {key}]}
    /\ \A did \in CreateKey(algorithm, options) :
           IF did = <<>>
           THEN \/ options.derive /\ key.crv # "Ed25519"
                \/ ~options.experimental /\ options.format \notin Standard
           ELSE Signer(did[1], {}, {"key"}) = {[id |-> "key", key |-> {key}]}
                    <=> options.format = "JsonWebKey2020"

\* Publishing a did:ion DID publishes the document its identifier commits to,
\* if each method lists its purposes in the order of the enumeration: publish()
\* makes the list anew from the resolved document (did-ion.ts 569-581).
IonPublishesItself(options) ==
    LET ion == CreateIon(options) IN
    (\A k \in ToSet(ion.keys) :
         k.purposes = SelectSeq(Relationships, LAMBDA r : r \in ToSet(k.purposes)))
        => PublishIon(IonGateway(ion)) = ion
=============================================================================
