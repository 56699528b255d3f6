------------------------------ MODULE MCDids ---------------------------------
(* DidKeys, and beside it samples of what keys and DID methods compute: a     *)
(* behaviour either runs DidKeys or has one sample, which stays as it is, but *)
(* for a key, of which something becomes again and again.                     *)
EXTENDS DidKeys, DidDht

C == INSTANCE CryptoApis
J == INSTANCE Oidc
M == INSTANCE KeyManagers
V == INSTANCE Credentials
F == INSTANCE Formats

CONSTANTS d1, d2, k1, k2, c1, c2

\* A DID of two keys, and one that may share the second.
SharedKey == (d1 :> {k1, k2}) @@ (d2 :> {k2})
\* What portable DIDs bring: no key, one, or all.
Bring == {{}, {k2}, {k1, k2}}

\* did:dht: one method of every kind, or two of some, and one or two services.
DhtMethod == [id : {{}, {"0"}, {"a"}}, algorithm : {"Ed25519", "ES256K", "ES256", "X25519"},
              controller : {{}, {<<"c">>}},
              purposes : {{}, {"keyAgreement"}, {"authentication", "assertionMethod"}}]
DhtPair == {m \in DhtMethod : m.controller = {} /\ m.algorithm \in {"Ed25519", "ES256K"}}
DhtMethods == {<<>>} \cup {<<m>> : m \in DhtMethod} \cup (DhtPair \X DhtPair)
DhtService(id, endpoints, more) ==
    [id |-> id, type |-> "node", serviceEndpoint |-> endpoints, more |-> more]
DhtServices == {<<>>, <<DhtService("dwn", <<"u1", "u2">>, [enc |-> "e", sig |-> "s"])>>,
                <<DhtService("a", <<"u1">>, <<>>), DhtService("dwn", <<>>, <<>>)>>}
DhtLists == {{}, {<<"x", "y">>}}
DhtOptions == [methods : DhtMethods, services : DhtServices, alsoKnownAs : DhtLists \cup {{<<>>}},
               controllers : DhtLists, types : DhtLists]

VARIABLE sample

Sample(of, input) == [of |-> of, input |-> input]
Sampled ==
    \/ sample = Sample("none", <<>>)
    \/ \E l \in Lives : sample = Sample("life", l)
    \/ \E k \in Hkdf \cup Pbes2, d \in Gcm \cup Kw : sample = Sample("derive", <<k, d>>)
    \/ \E a \in DOMAIN Generates, o \in KeyOptions : sample = Sample("sign", <<a, o>>)
    \/ \E o \in IonOptions : sample = Sample("ion", o)
    \/ \E o \in DhtOptions : sample = Sample("dht", o)
    \/ \E a, b \in C!CurveKeys : sample = Sample("curve", <<a, b>>)
    \/ \E a, b \in C!SymmetricKeys : sample = Sample("symmetric", <<a, b>>)
    \/ \E i, j \in C!FixedInfos : sample = Sample("info", <<i, j>>)
    \/ \E a \in C!ApiSamples : sample = Sample("api", a)
    \/ \E d, e \in C!Derivations : sample = Sample("kdf", <<d, e>>)
    \/ \E f \in F!FormatSamples : sample = Sample("format", f)
    \/ \E h \in M!Histories : sample = Sample("uri", h)
    \/ \E j \in J!JweSamples : sample = Sample("jwe", j)
    \/ \E c \in V!CredentialSamples : sample = Sample("credential", c)
    \/ \E c \in V!ClaimSamples : sample = Sample("claims", c)
    \/ \E l \in V!ListSamples : sample = Sample("list", l)
    \/ \E p \in V!PresentationSamples : sample = Sample("presentation", p)
    \/ \E o \in J!OidcSamples : sample = Sample("oidc", o)

MCInit == Init /\ Sampled

\* Something becomes of the key of a life, as often as may be.
Changes ==
    /\ sample.of = "life"
    /\ \E key \in Changed(sample.input.algorithm, sample.input.key) :
           sample' = [sample EXCEPT !.input.key = key]
    /\ UNCHANGED vars

MCNext == (sample.of = "none" /\ Next /\ UNCHANGED sample) \/ Changes
MCSpec == MCInit /\ [][MCNext]_<<vars, sample>>

\* Safety: a key that is generated, stored as bytes, wrapped, unwrapped or
\* derived is still used with the algorithm it was made for
\* (crypto-api.ts 245-452, aes-kw.ts 158-270).
KeysKeepAlgorithm ==
    /\ sample.of = "life" => KeepsAlgorithm(sample.input)
    /\ sample.of = "derive" => DerivesAsAsked(sample.input[1], sample.input[2])

\* Safety: a key is the same key whatever package, class or interface handles
\* it: its public half, its bytes, its signatures and shared secrets, what it
\* encrypted, wrapped or derived, the URI it is found by, and the formats and
\* prefixes it is moved in, each with the exceptions its module states
\* (secp256k1.ts 122-847, aes-gcm.ts 127-377, crypto-api.ts 245-592,
\* local-key-manager.ts 201-671, convert.ts 80-443, multicodec.ts 50-168).
KeysAgree ==
    /\ sample.of = "curve" => C!CurveKeysAgree(sample.input[1], sample.input[2])
    /\ sample.of = "symmetric" => /\ C!OnlySameKeyOpens(sample.input[1], sample.input[2])
                                  /\ C!WrappedComesBack(sample.input[1], sample.input[2])
    /\ sample.of = "info" => C!FixedInfoBinds(sample.input[1], sample.input[2])
    /\ sample.of = "api" => C!ApisAgree(sample.input)
    /\ sample.of = "kdf" => C!DerivesApart(sample.input[1], sample.input[2])
    /\ sample.of = "format" => F!FormatsHold(sample.input)
    /\ sample.of = "uri" => M!UriFindsKey(sample.input)

\* Safety: a JWE opens to its text for who it was made for and is refused when
\* any part was changed, and the messages of the OIDC flow reach their reader
\* only (jwe-flattened.ts 201-458, jwe-compact.ts 140-224, oidc.ts 191-605).
Sealed ==
    /\ sample.of = "jwe" => J!Sealed(sample.input) /\ J!CompactSealed(sample.input)
    /\ sample.of = "oidc" => J!Confidential(sample.input)

\* Safety: the document of a DID says what it was created to say: a did:jwk or
\* did:key can sign with its key (did-key.ts 515-910), did:ion publishes what
\* its identifier commits to (did-ion.ts 563-628), did:dht comes back from its
\* DNS packet (did-dht.ts 997-1358) and its methods dereference to themselves
\* (universal-resolver.ts 198-237), each with the exceptions its module states.
DocumentsHold ==
    /\ sample.of = "sign" => CreatedSigns(sample.input[1], sample.input[2])
    /\ sample.of = "ion" => IonPublishesItself(sample.input)
    /\ sample.of = "dht" => /\ ResolvesAsCreated(sample.input)
                            /\ DereferencesToMethod(sample.input)

\* Safety: a credential is verified exactly in its time and as its issuer
\* signed it, a presentation with all it carries, and a status list says what
\* it was made from (verifiable-credential.ts 122-354, jwt.ts 107-240,
\* verifiable-presentation.ts 88-235, status-list-credential.ts 89-250).
CredentialsHold ==
    /\ sample.of = "credential" => V!HoldsAsIssued(sample.input)
    /\ sample.of = "claims" => V!ClaimsCarryOver(sample.input)
    /\ sample.of = "list" => V!ListsExactly(sample.input)
    /\ sample.of = "presentation" => V!PresentsAsCarried(sample.input)
=============================================================================
