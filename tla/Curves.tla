------------------------------- MODULE Curves --------------------------------
(***************************************************************************)
(* Keys on elliptic curves: JWKs and their thumbprints, the classes        *)
(* Secp256k1, Secp256r1, Ed25519 and X25519, the algorithms EcdsaAlgorithm *)
(* and EdDsaAlgorithm of the crypto package and of the agent, which choose *)
(* a class by the curve, and the agent's Dsa, which chooses an algorithm   *)
(* by `alg` and `crv`.                                                     *)
(*                                                                         *)
(* The cryptography is symbolic: a secret has one point on each curve, and *)
(* a coordinate is the axis, the curve and the secret it belongs to.  A    *)
(* JWK is a function from the members it has.  An operation gives the set  *)
(* of its possible results; one that throws gives {}.                      *)
(***************************************************************************)
EXTENDS Sequences, Functions, TLC

Secrets == {"a", "b"}
\* edwardsToMontgomeryPriv(): another scalar, the same for the same secret.
Montgomery == [a |-> "ma", b |-> "mb"]
Scalars == Secrets \cup {Montgomery[s] : s \in Secrets}

EcCurves == {"secp256k1", "P-256"}
OkpCurves == {"Ed25519", "X25519"}

---------------------------------------------------------------------------
(* JWKs *)

Has(jwk, members) == members \subseteq DOMAIN jwk
Without(jwk, members) == Restrict(jwk, DOMAIN jwk \ members)

\* The members of the thumbprint: those of the public key that are there.
Thumbprinted == [EC |-> {"crv", "kty", "x", "y"}, oct |-> {"k", "kty"},
                 OKP |-> {"crv", "kty", "x"}, RSA |-> {"e", "kty", "n"}]
ComputeJwkThumbprint(jwk) == Restrict(jwk, Thumbprinted[jwk.kty] \cap DOMAIN jwk)

IsEcPrivateJwk(jwk) == Has(jwk, {"kty", "crv", "x", "d"}) /\ jwk.kty = "EC"
IsEcPublicJwk(jwk) == Has(jwk, {"kty", "crv", "x"}) /\ ~Has(jwk, {"d"}) /\ jwk.kty = "EC"
IsOkpPrivateJwk(jwk) == Has(jwk, {"kty", "crv", "x", "d"}) /\ jwk.kty = "OKP"
IsOkpPublicJwk(jwk) == Has(jwk, {"kty", "crv", "x"}) /\ ~Has(jwk, {"d"}) /\ jwk.kty = "OKP"
IsOctPrivateJwk(jwk) == Has(jwk, {"kty", "k"}) /\ jwk.kty = "oct"
IsPrivateJwk(jwk) == IF jwk.kty = "oct" THEN Has(jwk, {"k"}) ELSE Has(jwk, {"d"})
IsPublicJwk(jwk) == /\ jwk.kty # "oct" /\ ~Has(jwk, {"d"})
                    /\ Has(jwk, IF jwk.kty = "RSA" THEN {"n", "e"} ELSE {"x"})

WithKid(jwk) == ("kid" :> ComputeJwkThumbprint(jwk)) @@ jwk
\* publicKey.kid ??= ...
KidUnlessGiven(jwk) == IF Has(jwk, {"kid"}) THEN jwk ELSE WithKid(jwk)
WithAlg(jwk, alg) == ("alg" :> alg) @@ jwk

---------------------------------------------------------------------------
(* @noble/curves *)

Axis(axis, crv, secret) == <<axis, crv, secret>>
Scalar(secret) == [kind |-> "scalar", secret |-> secret]
Point(crv, secret, form) ==
    [kind |-> "point", form |-> form, x |-> Axis("x", crv, secret), y |-> Axis("y", crv, secret)]

\* ProjectivePoint.fromHex(): the secret of a point that is on the curve.
FromHex(crv, bytes) ==
    {s \in Scalars : bytes.kind = "point" /\ bytes.x = Axis("x", crv, s) /\ bytes.y = Axis("y", crv, s)}

Signature(crv, secret, data, high) ==
    [crv |-> crv, by |-> secret, data |-> data, high |-> high, form |-> "compact"]
\* sign() makes S low on secp256k1 and leaves it as it falls on P-256.
HighS(crv) == IF crv = "P-256" THEN BOOLEAN ELSE {FALSE}
SignedBy(signature, crv, secret, data) ==
    signature.crv = crv /\ signature.by = secret /\ signature.data = data

---------------------------------------------------------------------------
(* Secp256k1 *)

EcJwk(crv, secret) == [kty |-> "EC", crv |-> crv, x |-> Axis("x", crv, secret), y |-> Axis("y", crv, secret)]

\* 32 bytes are taken for a private key.
GetCurvePoint(crv, bytes) == IF bytes.kind = "scalar" THEN {bytes.secret} ELSE FromHex(crv, bytes)
EcBytesToPrivateKey(crv, bytes) ==
    {WithKid(("d" :> bytes) @@ EcJwk(crv, s)) : s \in GetCurvePoint(crv, bytes)}
EcBytesToPublicKey(crv, bytes) == {WithKid(EcJwk(crv, s)) : s \in GetCurvePoint(crv, bytes)}
EcGenerateKey(crv, secret) == {WithKid(k) : k \in EcBytesToPrivateKey(crv, Scalar(secret))}
\* The curve of the JWK is not looked at.
EcPrivateKeyToBytes(jwk) == IF IsEcPrivateJwk(jwk) THEN {jwk.d} ELSE {}
EcPublicKeyToBytes(jwk) ==
    IF IsEcPublicJwk(jwk) /\ Has(jwk, {"y"})
    THEN {[kind |-> "point", form |-> "uncompressed", x |-> jwk.x, y |-> jwk.y]} ELSE {}
EcComputePublicKey(crv, jwk) ==
    UNION {EcBytesToPublicKey(crv, bytes) : bytes \in EcPrivateKeyToBytes(jwk)}
\* Mutant: the public key is given a kid of its own.
EcGetPublicKeyRenamed(crv, jwk) ==
    IF IsEcPrivateJwk(jwk) /\ jwk.crv = crv THEN {WithKid(Without(jwk, {"d"}))} ELSE {}

EcGetPublicKey(crv, jwk) ==
    IF IsEcPrivateJwk(jwk) /\ jwk.crv = crv THEN {KidUnlessGiven(Without(jwk, {"d"}))} ELSE {}

CompressPublicKey(crv, bytes) == {Point(crv, s, "compressed") : s \in FromHex(crv, bytes)}
DecompressPublicKey(crv, bytes) == {Point(crv, s, "uncompressed") : s \in FromHex(crv, bytes)}
ConvertDerToCompactSignature(signature) ==
    IF signature.form = "der" THEN {[signature EXCEPT !.form = "compact"]} ELSE {}
AdjustSignatureToLowS(signature) ==
    IF signature.form = "compact" THEN {[signature EXCEPT !.high = FALSE]} ELSE {}
\* Every 32 bytes short of the order of the curve are a private key.
ValidatePrivateKey(bytes) == bytes.kind = "scalar"
ValidatePublicKey(crv, bytes) == FromHex(crv, bytes) # {}
EcSign(crv, jwk, data) ==
    {Signature(crv, bytes.secret, data, high) : bytes \in EcPrivateKeyToBytes(jwk), high \in HighS(crv)}
\* A point off the curve verifies nothing; a high S is accepted.
EcVerify(crv, jwk, signature, data) ==
    {\E s \in FromHex(crv, bytes) : SignedBy(signature, crv, s, data) : bytes \in EcPublicKeyToBytes(jwk)}
\* The secret of two keys, the same from either side.
EcSharedSecret(crv, jwkA, jwkB) ==
    IF Has(jwkA, {"x"}) /\ Has(jwkB, {"x"}) /\ jwkA.x = jwkB.x THEN {}
    ELSE UNION {{<<crv, {a.secret, s}>> : s \in FromHex(crv, b)} :
                    a \in EcPrivateKeyToBytes(jwkA), b \in EcPublicKeyToBytes(jwkB)}

---------------------------------------------------------------------------
(* Ed25519 *)

OkpJwk(crv, secret) == [kty |-> "OKP", crv |-> crv, x |-> Axis("x", crv, secret)]
\* The bytes of a public key are its x.
Encoded(x) == [kind |-> "x", x |-> x]

OkpBytesToPrivateKey(crv, bytes) == {WithKid(("d" :> bytes) @@ OkpJwk(crv, bytes.secret))}
OkpBytesToPublicKey(crv, bytes) == {WithKid([kty |-> "OKP", crv |-> crv, x |-> bytes.x])}
OkpGenerateKey(crv, secret) == {WithKid(k) : k \in OkpBytesToPrivateKey(crv, Scalar(secret))}
OkpPrivateKeyToBytes(jwk) == IF IsOkpPrivateJwk(jwk) THEN {jwk.d} ELSE {}
OkpPublicKeyToBytes(jwk) == IF IsOkpPublicJwk(jwk) THEN {Encoded(jwk.x)} ELSE {}
OkpComputePublicKey(crv, jwk) ==
    {WithKid(OkpJwk(crv, bytes.secret)) : bytes \in OkpPrivateKeyToBytes(jwk)}
OkpGetPublicKey(crv, jwk) ==
    IF IsOkpPrivateJwk(jwk) /\ jwk.crv = crv THEN {KidUnlessGiven(Without(jwk, {"d"}))} ELSE {}
SecretsAt(crv, x) == {s \in Scalars : x = Axis("x", crv, s)}
OkpValidatePublicKey(bytes) == SecretsAt("Ed25519", bytes.x) # {}
OkpSign(jwk, data) ==
    {Signature("Ed25519", bytes.secret, data, FALSE) : bytes \in OkpPrivateKeyToBytes(jwk)}
OkpVerify(jwk, signature, data) ==
    {\E s \in SecretsAt("Ed25519", bytes.x) : SignedBy(signature, "Ed25519", s, data) :
        bytes \in OkpPublicKeyToBytes(jwk)}

\* The private key as an X25519 key, and the public one, which must be on the curve.
ConvertPrivateKeyToX25519(jwk) ==
    UNION {OkpBytesToPrivateKey("X25519", Scalar(Montgomery[bytes.secret])) :
               bytes \in OkpPrivateKeyToBytes(jwk)}
ConvertPublicKeyToX25519(jwk) ==
    UNION {{WithKid(OkpJwk("X25519", Montgomery[s])) : s \in SecretsAt("Ed25519", bytes.x)} :
               bytes \in {b \in OkpPublicKeyToBytes(jwk) : OkpValidatePublicKey(b)}}
=============================================================================
