------------------------------ MODULE CryptoApis -----------------------------
(***************************************************************************)
(* The four interfaces through which keys are used: AgentCryptoApi, the    *)
(* LocalKeyManager of the agent, the LocalKeyManager of the crypto package *)
(* and AwsKeyManager.  Each picks an algorithm by the names of its table   *)
(* (AlgorithmName of KeyAlgorithms) and calls it (KeyClasses, Symmetric).  *)
(* A key manager's operation takes a URI; here it has the key the URI finds*)
(* (KeyManagers).                                                          *)
(***************************************************************************)
EXTENDS KeyClasses, Symmetric

A == INSTANCE KeyAlgorithms

Member(jwk, m) == IF Has(jwk, {m}) THEN jwk[m] ELSE ""
NameOf(manager, jwk) == A!AlgorithmName(manager, Member(jwk, "alg"), Member(jwk, "crv"))
Ecdsas == {"secp256k1", "secp256r1"}

---------------------------------------------------------------------------
(* AgentCryptoApi *)

ApiName(algorithm) == A!AlgorithmName("AgentCryptoApi", algorithm, "")
ApiNameOf(jwk) == NameOf("AgentCryptoApi", jwk)

ApiBytesToPrivateKey(algorithm, bytes) ==
    LET name == ApiName(algorithm) IN
    CASE name = "Ed25519" -> AgentEdDsaBytesToPrivateKey(bytes)
      [] name \in Ecdsas -> AgentEcdsaBytesToPrivateKey(algorithm, bytes)
      [] name = "AES-GCM" -> AgentGcmBytesToPrivateKey(bytes)
      [] name = "AES-KW" -> KwBytesToPrivateKey(bytes)
      [] OTHER -> {}
ApiBytesToPublicKey(algorithm, bytes) ==
    LET name == ApiName(algorithm) IN
    CASE name = "Ed25519" -> AgentEdDsaBytesToPublicKey(bytes)
      [] name \in Ecdsas -> AgentEcdsaBytesToPublicKey(algorithm, bytes)
      [] OTHER -> {}
ApiPrivateKeyToBytes(jwk) ==
    LET name == ApiNameOf(jwk) IN
    CASE name = "Ed25519" -> AgentEdDsaPrivateKeyToBytes(jwk)
      [] name \in Ecdsas -> AgentEcdsaPrivateKeyToBytes(jwk)
      [] name = "AES-GCM" -> AgentGcmPrivateKeyToBytes(jwk)
      [] name = "AES-KW" -> KwPrivateKeyToBytes(jwk)
      [] OTHER -> {}
ApiPublicKeyToBytes(jwk) ==
    LET name == ApiNameOf(jwk) IN
    CASE name = "Ed25519" -> AgentEdDsaPublicKeyToBytes(jwk)
      [] name \in Ecdsas -> AgentEcdsaPublicKeyToBytes(jwk)
      [] OTHER -> {}
ApiGenerateKey(algorithm, secret) ==
    LET name == ApiName(algorithm) IN
    {KidUnlessGiven(jwk) : jwk \in
        CASE name = "Ed25519" -> AgentEdDsaGenerateKey(secret)
          [] name \in Ecdsas -> AgentEcdsaGenerateKey(algorithm, secret)
          [] name = "AES-GCM" -> AgentGcmAlgorithmGenerateKey(algorithm, secret)
          [] name = "AES-KW" -> KwAlgorithmGenerateKey(algorithm, secret)
          [] OTHER -> {}}
ApiGetPublicKey(jwk) ==
    LET name == ApiNameOf(jwk) IN
    CASE name = "Ed25519" -> AgentEdDsaGetPublicKey(jwk)
      [] name \in Ecdsas -> AgentEcdsaGetPublicKey(jwk)
      [] OTHER -> {}
ApiSign(jwk, data) ==
    LET name == ApiNameOf(jwk) IN
    CASE name = "Ed25519" -> AgentEdDsaSign(jwk, data)
      [] name \in Ecdsas -> AgentEcdsaSign(jwk, data)
      [] OTHER -> {}
ApiVerify(jwk, signature, data) ==
    LET name == ApiNameOf(jwk) IN
    CASE name = "Ed25519" -> AgentEdDsaVerify(jwk, signature, data)
      [] name \in Ecdsas -> AgentEcdsaVerify(jwk, signature, data)
      [] OTHER -> {}
ApiEncrypt(jwk, p, data) == IF ApiNameOf(jwk) = "AES-GCM" THEN AgentGcmEncrypt(jwk, p, data) ELSE {}
ApiDecrypt(jwk, p, cipher) == IF ApiNameOf(jwk) = "AES-GCM" THEN AgentGcmDecrypt(jwk, p, cipher) ELSE {}
ApiWrapKey(unwrapped, by) == IF ApiNameOf(by) = "AES-KW" THEN WrapKey(unwrapped, by) ELSE {}
ApiUnwrapKey(wrapped, algorithm, by) ==
    IF ApiNameOf(by) = "AES-KW" THEN UnwrapKey(wrapped, algorithm, by) ELSE {}
ApiDeriveKeyBytes(algorithm, base, salt, more, length) ==
    LET name == ApiName(algorithm) IN
    CASE name = "HKDF" -> HkdfAlgorithmDerive(algorithm, base, salt, more, length)
      [] name = "PBKDF2" -> Pbkdf2AlgorithmDerive(algorithm, base, salt, more, length)
      [] OTHER -> {}
\* The length is the first number in the name of the derived key's algorithm.
DerivedAlgorithm(algorithm, asked) ==
    CASE algorithm = "PBES2-HS256+A128KW" -> "A128KW"
      [] algorithm = "PBES2-HS384+A192KW" -> "A192KW"
      [] algorithm = "PBES2-HS512+A256KW" -> "A256KW"
      [] OTHER -> asked
ApiDeriveKey(algorithm, base, salt, more, asked) ==
    LET derived == DerivedAlgorithm(algorithm, asked) IN
    UNION {ApiBytesToPrivateKey(derived, KeyBytes(bits, A!Bits(derived))) :
               bits \in ApiDeriveKeyBytes(algorithm, base, salt, more, A!Bits(derived))}

---------------------------------------------------------------------------
(* LocalKeyManager of the agent *)

LkmNameOf(jwk) == NameOf("AgentKeyManager", jwk)
LkmGetPublicKey(jwk) ==
    LET name == LkmNameOf(jwk) IN
    CASE name = "Ed25519" -> AgentEdDsaGetPublicKey(jwk)
      [] name \in Ecdsas -> AgentEcdsaGetPublicKey(jwk)
      [] OTHER -> {}
LkmSign(jwk, data) ==
    LET name == LkmNameOf(jwk) IN
    CASE name = "Ed25519" -> AgentEdDsaSign(jwk, data)
      [] name \in Ecdsas -> AgentEcdsaSign(jwk, data)
      [] OTHER -> {}
LkmVerify(jwk, signature, data) ==
    LET name == LkmNameOf(jwk) IN
    CASE name = "Ed25519" -> AgentEdDsaVerify(jwk, signature, data)
      [] name \in Ecdsas -> AgentEcdsaVerify(jwk, signature, data)
      [] OTHER -> {}
LkmEncrypt(jwk, p, data) == IF LkmNameOf(jwk) = "AES-GCM" THEN AgentGcmEncrypt(jwk, p, data) ELSE {}
LkmDecrypt(jwk, p, cipher) == IF LkmNameOf(jwk) = "AES-GCM" THEN AgentGcmDecrypt(jwk, p, cipher) ELSE {}
LkmWrapKey(unwrapped, by) == IF LkmNameOf(by) = "AES-KW" THEN WrapKey(unwrapped, by) ELSE {}
LkmUnwrapKey(wrapped, algorithm, by) ==
    IF LkmNameOf(by) = "AES-KW" THEN UnwrapKey(wrapped, algorithm, by) ELSE {}

---------------------------------------------------------------------------
(* LocalKeyManager of the crypto package *)

LocalNameOf(jwk) == NameOf("LocalKeyManager", jwk)
LocalGetPublicKey(jwk) ==
    LET name == LocalNameOf(jwk) IN
    CASE name = "Ed25519" -> EdDsaGetPublicKey(jwk)
      [] name \in Ecdsas -> EcdsaGetPublicKey(jwk)
      [] OTHER -> {}
LocalSign(jwk, data) ==
    LET name == LocalNameOf(jwk) IN
    CASE name = "Ed25519" -> EdDsaSign(jwk, data)
      [] name \in Ecdsas -> EcdsaSign(jwk, data)
      [] OTHER -> {}
LocalVerify(jwk, signature, data) ==
    LET name == LocalNameOf(jwk) IN
    CASE name = "Ed25519" -> EdDsaVerify(jwk, signature, data)
      [] name \in Ecdsas -> EcdsaVerify(jwk, signature, data)
      [] OTHER -> {}

---------------------------------------------------------------------------
(* AwsKeyManager: a key of AWS KMS on secp256k1, and the DER its signatures have *)

AwsGetPublicKey(secret) == {WithKid(WithAlg(EcJwk("secp256k1", secret), "ES256K"))}
AwsAlgorithmSign(secret, data) ==
    LET der == {[Signature("secp256k1", secret, data, high) EXCEPT !.form = "der"] : high \in BOOLEAN} IN
    UNION {AdjustSignatureToLowS(c) : c \in UNION {ConvertDerToCompactSignature(d) : d \in der}}
AwsSign(secret, data) == AwsAlgorithmSign(secret, data)
AwsAlgorithmVerify(jwk, signature, data) ==
    IF IsEcPublicJwk(jwk) /\ jwk.crv = "secp256k1"
    THEN EcVerify("secp256k1", jwk, signature, data) ELSE {}
AwsVerify(jwk, signature, data) ==
    IF NameOf("AwsKeyManager", jwk) = "secp256k1" THEN AwsAlgorithmVerify(jwk, signature, data) ELSE {}

---------------------------------------------------------------------------
(* Properties *)

Asymmetric == {"Ed25519", "ES256K", "ES256", "secp256k1", "secp256r1"}
Aes == {GcmName[b] : b \in AesKeyLengths} \cup {KwName[b] : b \in AesKeyLengths}
ApiSamples == [algorithm : Asymmetric \cup Aes, by : {"A256KW", "A128GCM"}, same : BOOLEAN]

PublicOf(jwk) == ApiGetPublicKey(jwk) \cup LkmGetPublicKey(jwk) \cup LocalGetPublicKey(jwk)
                 \cup (IF jwk.crv = "secp256k1" THEN AwsGetPublicKey(jwk.d.secret) ELSE {})
SignaturesOf(jwk) == ApiSign(jwk, "m") \cup LkmSign(jwk, "m") \cup LocalSign(jwk, "m")
                     \cup (IF jwk.crv = "secp256k1" THEN AwsSign(jwk.d.secret, "m") ELSE {})
VerifiedBy(public, signature) ==
    UNION {ApiVerify(public, signature, "m"), LkmVerify(public, signature, "m"),
           LocalVerify(public, signature, "m"), AwsVerify(public, signature, "m")}

\* A signature of one interface verifies in every one that takes the key, and a
\* text that one encrypted or a key it wrapped is opened by the other, with the
\* key that was used and no other (crypto-api.ts 245-504, local-key-manager.ts
\* 201-553, crypto/local-key-manager.ts 293-434, crypto-aws-kms/ecdsa.ts 189-279).
ApisAgree(s) ==
    \A jwk \in ApiGenerateKey(s.algorithm, "a"),
       other \in ApiGenerateKey(s.algorithm, IF s.same THEN "a" ELSE "b") :
        IF s.algorithm \in Asymmetric
        THEN /\ \A signature \in SignaturesOf(jwk), public \in PublicOf(other) :
                    VerifiedBy(public, signature) = {s.same}
             /\ \A bytes \in ApiPrivateKeyToBytes(jwk), back \in
                    UNION {ApiBytesToPrivateKey(s.algorithm, b) : b \in ApiPrivateKeyToBytes(jwk)} :
                    Without(back, Label) = Without(jwk, Label)
             /\ \A public \in PublicOf(jwk) : \A bytes \in ApiPublicKeyToBytes(public) :
                    \A back \in ApiBytesToPublicKey(s.algorithm, bytes) :
                        Without(back, Label) = Without(public, Label)
        ELSE LET p == GcmParams(96, "aad", 128) IN
             /\ \A c \in ApiEncrypt(jwk, p, "m") \cup LkmEncrypt(jwk, p, "m") :
                    ApiDecrypt(other, p, c) = LkmDecrypt(other, p, c)
                        /\ ("m" \in ApiDecrypt(other, p, c)) = s.same
             /\ \A by \in ApiGenerateKey(s.by, "b") :
                    /\ ApiWrapKey(jwk, by) = LkmWrapKey(jwk, by)
                    /\ \A wrapped \in ApiWrapKey(jwk, by) :
                           /\ ApiUnwrapKey(wrapped, s.algorithm, by) = {jwk}
                           /\ LkmUnwrapKey(wrapped, s.algorithm, by) = {jwk}
                    /\ (ApiWrapKey(jwk, by) = {}) = (s.by = "A128GCM")

\* Two derivations give the same key if and only if they were given the same
\* password or base key, salt and rounds or info; and the key is of the kind it
\* was asked for (crypto-api.ts 286-342, hkdf.ts 25-39, pbkdf2.ts 26-42).
Derivations == [algorithm : {"HKDF-256", "HKDF-512", "PBES2-HS256+A128KW", "PBES2-HS512+A256KW"},
                base : {"x", "y"}, salt : {"s", "t"}, more : {0, 1, 2}, asked : {"A128KW", "A256GCM"}]
DerivesApart(d, e) ==
    LET Derived(x) == ApiDeriveKey(x.algorithm, x.base, x.salt, x.more, x.asked)
        As(x) == DerivedAlgorithm(x.algorithm, x.asked) IN
    /\ \A key \in Derived(d) : key.alg = As(d)
    /\ d.algorithm \in DOMAIN Pbes2Hash =>
           ApiDeriveKeyBytes(d.algorithm, d.base, d.salt, d.more, 128) =
               Pbkdf2DeriveKey(Pbes2Hash[d.algorithm], d.base, d.salt, d.more, 128)
    /\ Derived(d) = {} <=> (d.more = 0 /\ d.algorithm \in DOMAIN Pbes2Hash)
    /\ (Derived(d) = Derived(e) /\ Derived(d) # {}) =>
           [d EXCEPT !.asked = As(d)] = [e EXCEPT !.asked = As(e)]
    /\ [d EXCEPT !.asked = As(d)] = [e EXCEPT !.asked = As(e)] => Derived(d) = Derived(e)
=============================================================================
