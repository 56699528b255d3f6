--------------------------- MODULE KeyAlgorithms -----------------------------
(***************************************************************************)
(* How the key managers choose an algorithm for a key: LocalKeyManager of  *)
(* the crypto package, LocalKeyManager and AgentCryptoApi of the agent, and*)
(* AwsKeyManager each have a table of algorithms with names, and look the  *)
(* `alg` and the `crv` of a JWK up in it.  Keys are generated, converted   *)
(* to bytes and back, wrapped, derived, published; the choice made for the *)
(* result is the one made for the key it came from.                        *)
(*                                                                         *)
(* A JWK is its curve, its algorithm ("" when it has none), its length in  *)
(* bits (0 for a curve) and whether it is private.  The cryptography is    *)
(* left out.  An operation that throws gives no key, {}.                   *)
(***************************************************************************)
EXTENDS Integers, Sequences, SequencesExt, TLC

Gcm == {"A128GCM", "A192GCM", "A256GCM"}
Kw == {"A128KW", "A192KW", "A256KW"}
Hkdf == {"HKDF-256", "HKDF-384", "HKDF-512"}
Pbes2 == {"PBES2-HS256+A128KW", "PBES2-HS384+A192KW", "PBES2-HS512+A256KW"}

\* supportedAlgorithms: the tables list them in this order.
SupportedAlgorithms ==
    <<[name |-> "AES-GCM", names |-> Gcm], [name |-> "AES-KW", names |-> Kw],
      [name |-> "Ed25519", names |-> {"Ed25519"}],
      [name |-> "HKDF", names |-> Hkdf], [name |-> "PBKDF2", names |-> Pbes2],
      [name |-> "secp256k1", names |-> {"ES256K", "secp256k1"}],
      [name |-> "secp256r1", names |-> {"ES256", "secp256r1"}],
      [name |-> "SHA-256", names |-> {"SHA-256"}]>>
Signing == {"Ed25519", "secp256k1", "secp256r1"}
Supports == [LocalKeyManager |-> Signing \cup {"SHA-256"},
             AgentKeyManager |-> Signing \cup {"AES-GCM", "AES-KW", "SHA-256"},
             AgentCryptoApi  |-> Signing \cup {"AES-GCM", "AES-KW", "HKDF", "PBKDF2", "SHA-256"},
             AwsKeyManager   |-> {"secp256k1", "SHA-256"}]

\* getAlgorithmName(): the first entry that has either name; "none" throws.
Named(manager, alg, crv) ==
    {i \in DOMAIN SupportedAlgorithms :
        /\ SupportedAlgorithms[i].name \in Supports[manager]
        /\ {alg, crv} \cap SupportedAlgorithms[i].names # {}}
AlgorithmName(manager, alg, crv) ==
    LET named == Named(manager, alg, crv) IN
    IF named = {} THEN "none"
    ELSE SupportedAlgorithms[CHOOSE i \in named : \A j \in named : i <= j].name

---------------------------------------------------------------------------
(* Algorithms *)

Jwk(crv, alg, private) == [crv |-> crv, alg |-> alg, bits |-> 0, private |-> private]

\* generateKey() of EdDsaAlgorithm and EcdsaAlgorithm.
Generates == [Ed25519   |-> Jwk("Ed25519", "EdDSA", TRUE),
              ES256K    |-> Jwk("secp256k1", "ES256K", TRUE),
              secp256k1 |-> Jwk("secp256k1", "ES256K", TRUE),
              ES256     |-> Jwk("P-256", "ES256", TRUE),
              secp256r1 |-> Jwk("P-256", "ES256", TRUE)]

Bits(algorithm) == CASE algorithm \in {"A128GCM", "A128KW"} -> 128
                     [] algorithm \in {"A192GCM", "A192KW"} -> 192
                     [] algorithm \in {"A256GCM", "A256KW"} -> 256
AesKey(names, bits) == [crv |-> "", alg |-> CHOOSE n \in names : Bits(n) = bits,
                        bits |-> bits, private |-> TRUE]

\* generateKey() of a key manager.  The LocalKeyManager of the crypto package
\* and the AwsKeyManager look their own key of the table up, not a name in it;
\* in the table of AWS that key is "ES256K".
GenerateKey(manager, algorithm) ==
    LET name == CASE manager = "LocalKeyManager" ->
                         IF algorithm \in Supports[manager] THEN algorithm ELSE "none"
                  [] manager = "AwsKeyManager" ->
                         IF algorithm = "ES256K" THEN "secp256k1" ELSE "none"
                  [] OTHER -> AlgorithmName(manager, algorithm, "") IN
    CASE name \in Signing -> {Generates[algorithm]}
      [] name = "AES-GCM" -> {AesKey(Gcm, Bits(algorithm))}
      [] name = "AES-KW" -> {AesKey(Kw, Bits(algorithm))}
      [] OTHER -> {}

\* getPublicKey() of a private key: `alg` is set anew from the curve.
GetPublicKey(manager, key) ==
    IF ~key.private \/ AlgorithmName(manager, key.alg, key.crv) \notin Signing THEN {}
    ELSE CASE key.crv = "Ed25519" -> {Jwk(key.crv, "EdDSA", FALSE)}
           [] key.crv = "secp256k1" -> {Jwk(key.crv, "ES256K", FALSE)}
           [] key.crv = "P-256" -> {Jwk(key.crv, "ES256", FALSE)}
           [] OTHER -> {}

\* Mutant: the length picks the name of the other AES algorithm.
FromBytesKw(algorithm, key) ==
    CASE algorithm = "Ed25519" -> {Jwk("Ed25519", "EdDSA", key.private)}
      [] algorithm \in {"ES256K", "secp256k1"} -> {Jwk("secp256k1", "EdDSA", key.private)}
      [] algorithm \in {"ES256", "secp256r1"} -> {Jwk("P-256", "EdDSA", key.private)}
      [] algorithm \in Gcm \cup Kw -> {AesKey(Kw, key.bits)}
      [] OTHER -> {}

\* bytesToPrivateKey() and bytesToPublicKey(): EcdsaAlgorithm, too, says "EdDSA", and
\* an AES key has the name its length asks for.
FromBytes(algorithm, key) ==
    CASE algorithm = "Ed25519" -> {Jwk("Ed25519", "EdDSA", key.private)}
      [] algorithm \in {"ES256K", "secp256k1"} -> {Jwk("secp256k1", "EdDSA", key.private)}
      [] algorithm \in {"ES256", "secp256r1"} -> {Jwk("P-256", "EdDSA", key.private)}
      [] algorithm \in Gcm -> {AesKey(Gcm, key.bits)}
      [] algorithm \in Kw -> {AesKey(Kw, key.bits)}
      [] OTHER -> {}

\* privateKeyToBytes() or publicKeyToBytes(), and back under the name the key was asked for.
Convert(algorithm, key) ==
    IF AlgorithmName("AgentCryptoApi", key.alg, key.crv) = "none" THEN {}
    ELSE FromBytes(algorithm, key)

\* wrapKey() and unwrapKey(): only an AES-KW key wraps, only AES keys are
\* wrapped, and the name of the unwrapped key has the length of its bytes.
Wrap(by, key, algorithm) ==
    IF AlgorithmName("AgentCryptoApi", by.alg, by.crv) # "AES-KW" \/ key.alg \notin Gcm \cup Kw
    THEN {}
    ELSE CASE algorithm \in Gcm -> {AesKey(Gcm, key.bits)}
           [] algorithm \in Kw -> {AesKey(Kw, key.bits)}
           [] OTHER -> {}

\* deriveKey(): the bytes asked for are as many as the derived algorithm needs.
DeriveKey(algorithm, derived) ==
    LET as == CASE algorithm = "PBES2-HS256+A128KW" -> "A128KW"
                [] algorithm = "PBES2-HS384+A192KW" -> "A192KW"
                [] algorithm = "PBES2-HS512+A256KW" -> "A256KW"
                [] OTHER -> derived IN
    CASE AlgorithmName("AgentCryptoApi", algorithm, "") \notin {"HKDF", "PBKDF2"} -> {}
      [] OTHER -> FromBytes(as, AesKey(Gcm, Bits(as)))

\* A key in a did:ion document: createIonDocument() keeps neither alg nor kid.
Published(key) == {[key EXCEPT !.alg = "", !.private = FALSE]}

JoseNames == [c \in {"Ed25519", "P-256", "secp256k1"} |->
                 CASE c = "Ed25519" -> "EdDSA" [] c = "P-256" -> "ES256" [] OTHER -> "ES256K"]

\* getJoseSignatureAlgorithmFromPublicKey().
JoseAlgorithm(key) ==
    IF \E c \in DOMAIN JoseNames : JoseNames[c] = key.alg THEN {key.alg}
    ELSE {JoseNames[c] : c \in {key.crv} \cap DOMAIN JoseNames}

---------------------------------------------------------------------------
(* Lives of a key *)

\* What may become of a key that was asked for as `algorithm`.
Changed(algorithm, key) ==
    Convert(algorithm, key)
    \cup (UNION {Wrap(by, key, algorithm) : by \in GenerateKey("AgentCryptoApi", "A256KW")})
    \cup GetPublicKey("AgentCryptoApi", key)
    \cup (IF key.crv = "" THEN {} ELSE Published(key))

\* Where a life begins: who makes the key, what it is asked for as, and the key.
Asked == DOMAIN Generates \cup Gcm \cup Kw \cup {"SHA-256"}
Life(manager, algorithm, key) == [manager |-> manager, algorithm |-> algorithm, key |-> key]
Lives == UNION {{Life(m, a, key) : key \in GenerateKey(m, a)} : m \in DOMAIN Supports, a \in Asked}

---------------------------------------------------------------------------
(* Properties *)

\* Whatever becomes of a key, every manager that has its algorithm still picks
\* that algorithm for it, and a JOSE header names it.  Exceptions: a P-256 key
\* converted from bytes has the name "EdDSA", one published in did:ion has none,
\* and no table has a name "P-256"; the header for a secp256k1 key from bytes
\* names EdDSA (local-key-manager.ts
\* 624-643, ecdsa.ts 48-96, crypto-api.ts 245-258, 286-327, aes-kw.ts 158-270).
KeepsAlgorithm(life) ==
    LET entry == AlgorithmName("AgentCryptoApi", life.algorithm, "")
        key == life.key IN
    /\ \A manager \in DOMAIN Supports :
           entry \in Supports[manager] /\ ~(key.crv = "P-256" /\ key.alg # "ES256")
               => AlgorithmName(manager, key.alg, key.crv) = entry
    /\ entry \in Signing /\ ~(key.crv # "Ed25519" /\ key.alg = "EdDSA")
           => JoseAlgorithm(key) = {Generates[life.algorithm].alg}
    /\ entry \notin Signing => key.alg = life.algorithm

\* A derived key is for the algorithm asked for, whatever derives it; PBES2
\* names the algorithm itself (crypto-api.ts 286-327).
DerivesAsAsked(kdf, derived) ==
    \A key \in DeriveKey(kdf, derived) :
        LET asked == CASE kdf \in Hkdf -> derived
                       [] kdf = "PBES2-HS256+A128KW" -> "A128KW"
                       [] kdf = "PBES2-HS384+A192KW" -> "A192KW"
                       [] OTHER -> "A256KW" IN
        AlgorithmName("AgentCryptoApi", key.alg, "") = AlgorithmName("AgentCryptoApi", asked, "")
            /\ key.alg = asked
=============================================================================
