------------------------------ MODULE Symmetric ------------------------------
(***************************************************************************)
(* Symmetric keys: AES-GCM, AES-CTR and AES-KW of the crypto package and of*)
(* the agent, XChaCha20 with and without Poly1305, and what derives keys:  *)
(* HKDF, PBKDF2 and Concat KDF.                                            *)
(*                                                                         *)
(* The bytes of a key are a secret and their length in bits.  A ciphertext *)
(* is what it was made of: an authenticated one opens with the same inputs *)
(* or throws, another one decrypts to its data or to garbage.  As in       *)
(* Curves, an operation gives a set, empty when it throws.                 *)
(***************************************************************************)
EXTENDS Curves, Integers

KeyBytes(secret, bits) == [k |-> secret, bits |-> bits]
AesKeyLengths == {128, 192, 256}
AesGcmTagLengths == {96, 104, 112, 120, 128}
OctJwk(bytes) == WithKid([kty |-> "oct", k |-> bytes])
OctBytes(jwk) == IF IsOctPrivateJwk(jwk) THEN {jwk.k} ELSE {}

\* The names JOSE has for a key of each length, and lengths without one.
GcmName == (128 :> "A128GCM") @@ (192 :> "A192GCM") @@ (256 :> "A256GCM")
KwName  == (128 :> "A128KW") @@ (192 :> "A192KW") @@ (256 :> "A256KW")
CtrName == (128 :> "A128CTR") @@ (192 :> "A192CTR") @@ (256 :> "A256CTR")
Named(jwk, bits, names) == IF bits \in DOMAIN names THEN WithAlg(jwk, names[bits]) ELSE jwk
LengthOf(names, algorithm) == CHOOSE bits \in DOMAIN names : names[bits] = algorithm

\* WebCrypto: generateKey() names the key; importKey() refuses one of another name.
Generated(length, secret, names) ==
    IF length \notin AesKeyLengths THEN {} ELSE {Named(OctJwk(KeyBytes(secret, length)), length, names)}
Imported(jwk, names) ==
    {bytes \in OctBytes(jwk) : /\ bytes.bits \in AesKeyLengths
                               /\ Has(jwk, {"alg"}) => jwk.alg = names[bytes.bits]}

---------------------------------------------------------------------------
(* AES-GCM *)

GcmParams(ivBits, additionalData, tagLength) ==
    [ivBits |-> ivBits, additionalData |-> additionalData, tagLength |-> tagLength]
\* tagLength 0 is none given: 128 bits.
GcmAccepts(p) == p.ivBits = 96 /\ (p.tagLength # 0 => p.tagLength \in AesGcmTagLengths)
GcmSealed(bytes, p, data) ==
    [by |-> bytes, aad |-> p.additionalData, tag |-> IF p.tagLength = 0 THEN 128 ELSE p.tagLength,
     data |-> data]

GcmBytesToPrivateKey(bytes) == {OctJwk(bytes)}
GcmPrivateKeyToBytes(jwk) == OctBytes(jwk)
GcmGenerateKey(length, secret) == Generated(length, secret, GcmName)
GcmEncrypt(jwk, p, data) ==
    IF ~GcmAccepts(p) THEN {} ELSE {GcmSealed(bytes, p, data) : bytes \in Imported(jwk, GcmName)}
GcmDecrypt(jwk, p, cipher) ==
    IF ~GcmAccepts(p) THEN {}
    ELSE {cipher.data : bytes \in {b \in Imported(jwk, GcmName) : GcmSealed(b, p, cipher.data) = cipher}}
GcmAlgorithmGenerateKey(algorithm, secret) ==
    {WithAlg(jwk, algorithm) : jwk \in GcmGenerateKey(LengthOf(GcmName, algorithm), secret)}

\* The agent's, which names a key after the length of its bytes.
AgentGcmBytesToPrivateKey(bytes) == {Named(OctJwk(bytes), bytes.bits, GcmName)}
AgentGcmPrivateKeyToBytes(jwk) == OctBytes(jwk)
AgentGcmGenerateKey(length, secret) == Generated(length, secret, GcmName)
AgentGcmEncrypt(jwk, p, data) == GcmEncrypt(jwk, p, data)
AgentGcmDecrypt(jwk, p, cipher) == GcmDecrypt(jwk, p, cipher)
AgentGcmAlgorithmGenerateKey(algorithm, secret) ==
    {WithAlg(jwk, algorithm) : jwk \in AgentGcmGenerateKey(LengthOf(GcmName, algorithm), secret)}

---------------------------------------------------------------------------
(* AES-CTR: nothing is authenticated *)

\* The counter is 16 bytes, of which `length` bits count.
CtrAccepts(counterBits, length) == counterBits = 128 /\ length \in 1 .. 128
CtrBytesToPrivateKey(bytes) == {OctJwk(bytes)}
CtrPrivateKeyToBytes(jwk) == OctBytes(jwk)
CtrGenerateKey(length, secret) == Generated(length, secret, CtrName)
CtrEncrypt(jwk, counterBits, length, data) ==
    IF ~CtrAccepts(counterBits, length) THEN {}
    ELSE {[by |-> bytes, data |-> data] : bytes \in Imported(jwk, CtrName)}
CtrDecrypt(jwk, counterBits, length, cipher) ==
    IF ~CtrAccepts(counterBits, length) THEN {}
    ELSE {IF bytes = cipher.by THEN cipher.data ELSE "garbage" : bytes \in Imported(jwk, CtrName)}
CtrAlgorithmGenerateKey(algorithm, secret) ==
    {WithAlg(jwk, algorithm) : jwk \in CtrGenerateKey(LengthOf(CtrName, algorithm), secret)}

---------------------------------------------------------------------------
(* AES-KW *)

KwBytesToPrivateKey(bytes) == {Named(OctJwk(bytes), bytes.bits, KwName)}
KwPrivateKeyToBytes(jwk) == OctBytes(jwk)
KwGenerateKey(length, secret) == Generated(length, secret, KwName)
KwAlgorithmGenerateKey(algorithm, secret) ==
    {WithAlg(jwk, algorithm) : jwk \in KwGenerateKey(LengthOf(KwName, algorithm), secret)}
\* The names of keys that can be wrapped, by the algorithm WebCrypto imports them with.
Wrapped(alg) == IF alg \in {GcmName[b] : b \in AesKeyLengths} THEN GcmName ELSE KwName
IsKw(jwk) == Has(jwk, {"alg"}) /\ jwk.alg \in {KwName[b] : b \in AesKeyLengths}
IsWrappable(alg) == alg \in UNION {{GcmName[b], KwName[b]} : b \in AesKeyLengths}

WrapKey(unwrapped, by) ==
    IF ~IsKw(by) \/ ~Has(unwrapped, {"alg"}) THEN {}
    ELSE {[by |-> k, key |-> bytes] : k \in Imported(by, KwName),
              bytes \in IF IsWrappable(unwrapped.alg) THEN Imported(unwrapped, Wrapped(unwrapped.alg))
                        ELSE {}}
UnwrapKey(wrapped, algorithm, by) ==
    IF ~IsKw(by) \/ ~IsWrappable(algorithm) THEN {}
    ELSE {Named(OctJwk(wrapped.key), wrapped.key.bits, Wrapped(algorithm)) :
              k \in {b \in Imported(by, KwName) : b = wrapped.by}}

---------------------------------------------------------------------------
(* XChaCha20 and XChaCha20-Poly1305 *)

\* The library takes 32 bytes of key and 24 of nonce.
XChaChaKey(jwk, nonceBits) == {b \in OctBytes(jwk) : b.bits = 256 /\ nonceBits = 192}
XChaChaBytesToPrivateKey(bytes) == {OctJwk(bytes)}
XChaChaPrivateKeyToBytes(jwk) == OctBytes(jwk)
XChaChaGenerateKey(secret) == {OctJwk(KeyBytes(secret, 256))}
XChaChaEncrypt(jwk, nonceBits, data) ==
    {[by |-> b, data |-> data] : b \in XChaChaKey(jwk, nonceBits)}
XChaChaDecrypt(jwk, nonceBits, cipher) ==
    {IF b = cipher.by THEN cipher.data ELSE "garbage" : b \in XChaChaKey(jwk, nonceBits)}

PolyBytesToPrivateKey(bytes) == {OctJwk(bytes)}
PolyPrivateKeyToBytes(jwk) == OctBytes(jwk)
PolyGenerateKey(secret) == {OctJwk(KeyBytes(secret, 256))}
PolyEncrypt(jwk, nonceBits, additionalData, data) ==
    {[by |-> b, aad |-> additionalData, data |-> data] : b \in XChaChaKey(jwk, nonceBits)}
PolyDecrypt(jwk, nonceBits, additionalData, cipher) ==
    {cipher.data : b \in {k \in XChaChaKey(jwk, nonceBits) :
                              k = cipher.by /\ additionalData = cipher.aad}}

---------------------------------------------------------------------------
(* Key derivation *)

\* deriveBits() wants a whole number of bytes.
Bits(kdf, hash, base, salt, more, length) ==
    IF length % 8 # 0 THEN {} ELSE {<<kdf, hash, base, salt, more, length>>}
HkdfDeriveKeyBytes(hash, base, salt, info, length) == Bits("HKDF", hash, base, salt, <<info>>, length)
HkdfHash == ("HKDF-256" :> "SHA-256") @@ ("HKDF-384" :> "SHA-384") @@ ("HKDF-512" :> "SHA-512")
HkdfAlgorithmDerive(algorithm, base, salt, info, length) ==
    HkdfDeriveKeyBytes(HkdfHash[algorithm], base, salt, info, length)

Pbkdf2DeriveKey(hash, password, salt, iterations, length) ==
    IF iterations = 0 THEN {} ELSE Bits("PBKDF2", hash, password, salt, <<iterations>>, length)
AgentPbkdf2DeriveKeyBytes(hash, base, salt, iterations, length) ==
    IF iterations = 0 THEN {} ELSE Bits("PBKDF2", hash, base, salt, <<iterations>>, length)
Pbes2Hash == ("PBES2-HS256+A128KW" :> "SHA-256") @@ ("PBES2-HS384+A192KW" :> "SHA-384")
             @@ ("PBES2-HS512+A256KW" :> "SHA-512")
Pbkdf2AlgorithmDerive(algorithm, base, salt, iterations, length) ==
    AgentPbkdf2DeriveKeyBytes(Pbes2Hash[algorithm], base, salt, iterations, length)

\* Concat KDF.  Bytes are a sequence of 4-byte words, lengths count words, and an
\* input that is left out, <<>>, takes no room, not even for its length.
ToDataLenData(given, variableLength) ==
    IF given = <<>> THEN <<>>
    ELSE IF variableLength THEN <<Len(given[1])>> \o given[1] ELSE given
ComputeFixedInfo(i) ==
    ToDataLenData(i.algorithmId, TRUE) \o ToDataLenData(i.partyUInfo, TRUE)
        \o ToDataLenData(i.partyVInfo, TRUE) \o ToDataLenData(i.suppPubInfo, FALSE)
        \o ToDataLenData(i.suppPrivInfo, TRUE)
Rounds(keyDataLen) == (keyDataLen + 255) \div 256
ConcatKdfDeriveKey(keyDataLen, fixedInfo, sharedSecret) ==
    IF Rounds(keyDataLen) # 1 THEN {}
    ELSE {<<sharedSecret, ComputeFixedInfo(fixedInfo), keyDataLen \div 8>>}

---------------------------------------------------------------------------
(* Properties *)

\* Bounds: two secrets, the lengths of AES keys and one that is none, and the
\* parameters of a cipher, right and wrong.
SymmetricKeys == [k : Secrets, bits : AesKeyLengths \cup {64}]
GcmChoices == [ivBits : {96, 128}, additionalData : {"", "aad"}, tagLength : {0, 128, 96, 64}]
CtrChoices == {<<128, 0>>, <<128, 1>>, <<128, 128>>, <<128, 129>>, <<64, 64>>}

\* A key of bytes: as generated, where it can be, or converted.
GcmKeys(bytes) == GcmBytesToPrivateKey(bytes) \cup AgentGcmBytesToPrivateKey(bytes)
                  \cup (IF bytes.bits \notin AesKeyLengths THEN {}
                        ELSE GcmAlgorithmGenerateKey(GcmName[bytes.bits], bytes.k)
                             \cup AgentGcmGenerateKey(bytes.bits, bytes.k))
CtrKeys(bytes) == CtrBytesToPrivateKey(bytes)
                  \cup (IF bytes.bits \notin AesKeyLengths THEN {}
                        ELSE CtrAlgorithmGenerateKey(CtrName[bytes.bits], bytes.k))
ChaChaKeys(bytes) == XChaChaBytesToPrivateKey(bytes) \cup PolyBytesToPrivateKey(bytes)
                     \cup (IF bytes.bits = 256 THEN XChaChaGenerateKey(bytes.k) \cup PolyGenerateKey(bytes.k)
                           ELSE {})

\* What is sealed with one key opens with the same key and parameters, however
\* the key was made, in either package, and with no others; a cipher without a
\* tag gives its data to the same key only (aes-gcm.ts 177-292, aes-ctr.ts
\* 169-267, xchacha20.ts 122-174, xchacha20-poly1305.ts 141-202).
OnlySameKeyOpens(one, other) ==
    /\ \A p, q \in GcmChoices, a \in GcmKeys(one), b \in GcmKeys(other) :
           \A sealed \in GcmEncrypt(a, p, "m") :
               LET same == one = other /\ p.additionalData = q.additionalData /\ GcmAccepts(q)
                           /\ {p.tagLength, q.tagLength} \in {{x} : x \in 0 .. 128} \cup {{0, 128}} IN
               /\ GcmDecrypt(b, q, sealed) = IF same THEN {"m"} ELSE {}
               /\ AgentGcmDecrypt(b, q, sealed) = GcmDecrypt(b, q, sealed)
               /\ AgentGcmEncrypt(a, p, "m") = {sealed}
               /\ GcmPrivateKeyToBytes(a) = {one} /\ AgentGcmPrivateKeyToBytes(b) = {other}
    /\ \A c \in CtrChoices, a \in CtrKeys(one), b \in CtrKeys(other) :
           \A sealed \in CtrEncrypt(a, c[1], c[2], "m") :
               CtrPrivateKeyToBytes(a) = {one} /\ CtrDecrypt(b, c[1], c[2], sealed) =
                   IF other.bits \notin AesKeyLengths THEN {} ELSE {IF one = other THEN "m" ELSE "garbage"}
    /\ \A nonce \in {96, 192}, aad \in {"", "aad"}, a \in ChaChaKeys(one), b \in ChaChaKeys(other) :
           /\ XChaChaPrivateKeyToBytes(a) = {one} /\ PolyPrivateKeyToBytes(b) = {other}
           /\ \A sealed \in XChaChaEncrypt(a, nonce, "m") :
                  ("m" \in XChaChaDecrypt(b, nonce, sealed)) <=> (one = other)
           /\ \A sealed \in PolyEncrypt(a, nonce, aad, "m") :
                  ("m" \in PolyDecrypt(b, nonce, "aad", sealed)) <=> (one = other /\ aad = "aad")

\* A wrapped key comes out with its bytes, under the name asked for and the
\* length it has, and only with the key that wrapped it (aes-kw.ts 158-270).
WrappedComesBack(one, other) ==
    \A by \in KwBytesToPrivateKey(one), jwk \in AgentGcmBytesToPrivateKey(other)
                                                \cup KwBytesToPrivateKey(other) :
        /\ KwPrivateKeyToBytes(by) = {one}
        /\ WrapKey(jwk, by) # {} <=> {one.bits, other.bits} \subseteq AesKeyLengths
        /\ \A wrapped \in WrapKey(jwk, by), algorithm \in {"A128GCM", "A256KW", "A128CTR"} :
               /\ \A back \in UnwrapKey(wrapped, algorithm, by) :
                      /\ OctBytes(back) = {other} /\ back.alg = Wrapped(algorithm)[other.bits]
                      /\ back.kid = ComputeJwkThumbprint(jwk)
               /\ \A stranger \in KwGenerateKey(one.bits, Montgomery[one.k]) :
                      UnwrapKey(wrapped, algorithm, stranger) = {}

\* Bounds of Concat KDF: words 0 and 1, up to two of them in an input.
Words == {<<>>, <<0>>, <<1, 0>>}
FixedInfos == [algorithmId : {<<w>> : w \in Words}, partyUInfo : {<<w>> : w \in Words},
               partyVInfo : {<<<<>>>>, <<<<1>>>>}, suppPubInfo : {<<>>, <<0>>, <<1>>},
               suppPrivInfo : {<<>>, <<<<>>>>, <<<<0>>>>}]

\* Two parties that disagree on an input derive different keys, provided they
\* agree on which supplements there are: one that is left out takes no room, and
\* another may fill it (concat-kdf.ts 123-239).
FixedInfoBinds(i, j) ==
    (i.suppPubInfo = <<>>) = (j.suppPubInfo = <<>>) /\ (i.suppPrivInfo = <<>>) = (j.suppPrivInfo = <<>>)
        => \A bits \in {128, 256} : ConcatKdfDeriveKey(bits, i, "Z") = ConcatKdfDeriveKey(bits, j, "Z") => i = j
=============================================================================
