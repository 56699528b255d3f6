------------------------------- MODULE DidDht --------------------------------
(***************************************************************************)
(* did:dht (did-dht.ts): a DID document is made from the caller's options, *)
(* written as the records of a DNS packet, signed, put to a gateway and    *)
(* read back from there.                                                   *)
(*                                                                         *)
(* The text of a TXT record is modelled by what splitting it finds: a list *)
(* of values for the ones joined by commas (never an empty one: the text of*)
(* no values reads as one empty value), and a function from property names *)
(* for those of the form name=value;...  A string and a list of just that  *)
(* string are not told apart, nor are a DID and its identity key.  Chunks  *)
(* are left out: they are joined before anything else reads them.          *)
(***************************************************************************)
EXTENDS DidMethods

\* AlgorithmToKeyTypeMap and DidDhtRegisteredKeyType; a name the enumeration
\* does not have, as "P-256", gives undefined.
KeyTypeOf(name) ==
    CASE name = "Ed25519" -> "0" [] name = "secp256k1" -> "1"
      [] name = "secp256r1" -> "2" [] name = "X25519" -> "3"
      [] OTHER -> "undefined"
Listed == {"Ed25519", "ES256K", "ES256", "P-256", "secp256k1", "secp256r1", "X25519"}
CurveOf(type) ==
    CASE type = "0" -> "Ed25519" [] type = "1" -> "secp256k1"
      [] type = "2" -> "secp256r1" [] type = "3" -> "X25519"
      [] OTHER -> "undefined"
DefaultAlgorithm(type) ==
    CASE type = "0" -> "EdDSA" [] type = "1" -> "ES256K"
      [] type = "2" -> "ES256" [] type = "3" -> "ECDH-ES+A256KW"
      [] OTHER -> "undefined"
Converters == {"Ed25519", "P-256", "secp256k1", "X25519"}

---------------------------------------------------------------------------
(* create() *)

IdentityMethod == [id |-> {"0"}, algorithm |-> "Ed25519", controller |-> {},
                   purposes |-> {"authentication", "assertionMethod",
                                 "capabilityDelegation", "capabilityInvocation"}]

\* The identity key comes first, unless the caller lists a method "0".
Methods(options) ==
    IF \E m \in ToSet(options.methods) : m.id = {"0"} THEN options.methods
    ELSE <<IdentityMethod>> \o options.methods

Refused(options) ==
    \/ \E m \in ToSet(options.methods) : m.algorithm \notin Listed
    \/ \E i, j \in DOMAIN options.methods :
           i # j /\ options.methods[i].id # {} /\ options.methods[i].id = options.methods[j].id

\* The document; method "0" has the identity key, whatever its algorithm says.
Create(options) ==
    LET methods == Methods(options)
        Kid(i) == IF methods[i].id = {"0"} THEN "jkt0" ELSE "jkt" \o ToString(i)
        Algorithm(i) == IF methods[i].id = {"0"} THEN "Ed25519" ELSE methods[i].algorithm
        Id(i) == IF methods[i].id = {} THEN Kid(i) ELSE CHOOSE d \in methods[i].id : TRUE
        made == [i \in DOMAIN methods |->
                    [id |-> Id(i), controller |-> methods[i].controller,
                     key |-> {GeneratedKey(Algorithm(i), Kid(i))}]] IN
    IF Refused(options) \/ \E i \in DOMAIN methods : Algorithm(i) \notin DOMAIN Generates
    THEN {}
    ELSE {[methods |-> made, services |-> options.services,
           alsoKnownAs |-> options.alsoKnownAs, controller |-> options.controllers,
           types |-> options.types,
           rel |-> [r \in ToSet(Relationships) |->
                       LET has == SelectSeq([i \in DOMAIN methods |-> i],
                                            LAMBDA i : r \in methods[i].purposes) IN
                       [n \in DOMAIN has |-> made[has[n]].id]]]}

---------------------------------------------------------------------------
(* toDnsPacket() *)

Txt(name, at, data) == [name |-> name, at |-> at, data |-> data]
Joined(values) == IF values = <<>> THEN <<"">> ELSE values
ListRecords(name, lists) == [i \in 1..Cardinality(lists) |->
                                Txt(name, 0, Joined(CHOOSE l \in lists : TRUE))]
Optional(given, name, value) == IF given THEN [n \in {name} |-> value] ELSE [n \in {} |-> value]

\* Mutant: the algorithm of a key is never written.
KeyRecordBare(doc, i) ==
    LET vm == doc.methods[i]
        key == CHOOSE k \in vm.key : TRUE IN
    Txt("k", i - 1, [t |-> KeyTypeOf(key.crv), k |-> key.kid]
                    @@ Optional(vm.controller # {}, "c", vm.controller))

\* One key record; the id is left out when the reader can tell it.
KeyRecord(doc, i) ==
    LET vm == doc.methods[i]
        key == CHOOSE k \in vm.key : TRUE
        type == KeyTypeOf(key.crv) IN
    Txt("k", i - 1, [t |-> type, k |-> key.kid]
                    @@ Optional(vm.id # "0" /\ vm.id # key.kid, "id", vm.id)
                    @@ Optional(key.alg # DefaultAlgorithm(type), "a", key.alg)
                    @@ Optional(vm.controller # {}, "c", vm.controller))

ServiceRecord(doc, i) ==
    LET svc == doc.services[i] IN
    Txt("s", i - 1, [id |-> svc.id, t |-> svc.type, se |-> Joined(svc.serviceEndpoint),
                     more |-> svc.more])

\* The root record: for every relationship the records of its methods, looked
\* up by id in a map that keeps the last method of an id.
RootRecord(doc) ==
    LET Of(id) == CHOOSE i \in DOMAIN doc.methods :
                      /\ doc.methods[i].id = id
                      /\ \A j \in DOMAIN doc.methods : doc.methods[j].id = id => j <= i IN
    Txt("did", 0, [r \in {s \in ToSet(Relationships) : doc.rel[s] # <<>>} |->
                      [n \in DOMAIN doc.rel[r] |-> Of(doc.rel[r][n]) - 1]])

\* Keys of a curve the table does not list are refused.
ToDnsPacket(doc) ==
    ListRecords("aka", doc.alsoKnownAs) \o ListRecords("cnt", doc.controller)
        \o [i \in DOMAIN doc.methods |-> KeyRecord(doc, i)]
        \o [i \in DOMAIN doc.services |-> ServiceRecord(doc, i)]
        \o ListRecords("typ", doc.types \ {<<>>})
        \o <<RootRecord(doc)>>

---------------------------------------------------------------------------
(* fromDnsPacket() *)

Unread == [methods |-> <<>>, services |-> <<>>, alsoKnownAs |-> {}, controller |-> {},
           types |-> {}, rel |-> Unrelated]

\* A key; {} when its type has no converter.  The first record is always "0".
ReadKey(data, at) ==
    IF CurveOf(data.t) \notin Converters THEN {}
    ELSE {[id |-> IF at = 0 THEN "0" ELSE IF "id" \in DOMAIN data THEN data.id ELSE data.k,
           controller |-> IF "c" \in DOMAIN data THEN data.c ELSE {},
           key |-> {[crv |-> CurveOf(data.t), kid |-> data.k,
                     alg |-> IF "a" \in DOMAIN data THEN data.a
                             ELSE DefaultAlgorithm(data.t)]}]}

\* The root record names key records by number; ones not read yet are dropped.
ReadRoot(doc, data) ==
    LET Known(numbers) == SelectSeq(numbers, LAMBDA n : n + 1 \in DOMAIN doc.methods) IN
    [r \in ToSet(Relationships) |->
        IF r \in DOMAIN data
        THEN [n \in DOMAIN Known(data[r]) |-> doc.methods[Known(data[r])[n] + 1].id]
        ELSE doc.rel[r]]

\* One record, read into the document so far; {} once one was not readable.
Read(read, answer) ==
    UNION {LET data == answer.data IN
           CASE answer.name = "aka" -> {[doc EXCEPT !.alsoKnownAs = {data}]}
             [] answer.name = "cnt" -> {[doc EXCEPT !.controller = {data}]}
             [] answer.name = "typ" -> {[doc EXCEPT !.types = {data}]}
             [] answer.name = "k" ->
                    {[doc EXCEPT !.methods = Append(@, vm)] : vm \in ReadKey(data, answer.at)}
             [] answer.name = "s" ->
                    {[doc EXCEPT !.services =
                         Append(@, [id |-> data.id, type |-> data.t,
                                    serviceEndpoint |-> data.se, more |-> data.more])]}
             [] OTHER -> {[doc EXCEPT !.rel = ReadRoot(doc, data)]}
           : doc \in read}

FromDnsPacket(packet) == FoldLeft(Read, {Unread}, packet)

---------------------------------------------------------------------------
(* Gateways *)

\* publish(): the packet is signed by the key of method "0"; no packet without.
Publish(doc) ==
    {[key |-> k.kid, packet |-> ToDnsPacket(doc)] :
        k \in UNION {vm.key : vm \in Signer(doc, {"0"}, {"jkt0"})}}

\* resolve(): {} is an error, among them that the signature of the record is
\* not by the identity key.
Resolve(found) ==
    UNION {FromDnsPacket(record.packet) : record \in {r \in found : r.key = "jkt0"}}

---------------------------------------------------------------------------
(* Properties *)

\* What fromDnsPacket() cannot read back: a P-256 key, whose type is written
\* as undefined; a method "0" that is not the first; an empty list.
ReadableBack(doc) ==
    /\ \A i \in DOMAIN doc.methods :
           /\ \A k \in doc.methods[i].key : k.crv # "P-256"
           /\ doc.methods[i].id = "0" => i = 1
    /\ <<>> \notin doc.alsoKnownAs \cup doc.controller \cup doc.types
    /\ \A svc \in ToSet(doc.services) : svc.serviceEndpoint # <<>>

\* What the gateway returns for a DID is the document it was created with, but
\* for the cases above (did-dht.ts 509-622, 735-798, 997-1358).
ResolvesAsCreated(options) ==
    \A doc \in Create(options) :
        ReadableBack(doc) => Resolve(Publish(doc)) = {doc}

\* A verification method's URL dereferences to the method with the key that
\* was made for it, unless a service has the same id (universal-resolver.ts
\* 198-222: the services are searched although a method has been found).
DereferencesToMethod(options) ==
    \A doc \in Create(options) : \A i \in DOMAIN doc.methods :
        (\A svc \in ToSet(doc.services) : svc.id # doc.methods[i].id)
            => Dereference(doc, doc.methods[i].id) = <<"method", i>>
=============================================================================
