----------------------------- MODULE KeyClasses ------------------------------
(***************************************************************************)
(* Who uses the curves: EcdsaAlgorithm and EdDsaAlgorithm take a curve's   *)
(* class by the `crv` of a JWK and set its `alg`, those of the agent also  *)
(* convert from and to bytes, and the agent's Dsa takes an algorithm by    *)
(* the names of its table.                                                 *)
(***************************************************************************)
EXTENDS Curves

Tagged(keys, alg) == {WithAlg(jwk, alg) : jwk \in keys}

---------------------------------------------------------------------------
(* Secp256r1 *)

Secp256r1BytesToPrivateKey(bytes) == EcBytesToPrivateKey("P-256", bytes)
Secp256r1BytesToPublicKey(bytes) == EcBytesToPublicKey("P-256", bytes)
Secp256r1GenerateKey(secret) == EcGenerateKey("P-256", secret)
Secp256r1ComputePublicKey(jwk) == EcComputePublicKey("P-256", jwk)
Secp256r1GetPublicKey(jwk) == EcGetPublicKey("P-256", jwk)
Secp256r1PrivateKeyToBytes(jwk) == EcPrivateKeyToBytes(jwk)
Secp256r1PublicKeyToBytes(jwk) == EcPublicKeyToBytes(jwk)
Secp256r1CompressPublicKey(bytes) == CompressPublicKey("P-256", bytes)
Secp256r1DecompressPublicKey(bytes) == DecompressPublicKey("P-256", bytes)
Secp256r1ConvertDer(signature) == ConvertDerToCompactSignature(signature)
Secp256r1AdjustToLowS(signature) == AdjustSignatureToLowS(signature)
Secp256r1SharedSecret(jwkA, jwkB) == EcSharedSecret("P-256", jwkA, jwkB)
Secp256r1Sign(jwk, data) == EcSign("P-256", jwk, data)
Secp256r1Verify(jwk, signature, data) == EcVerify("P-256", jwk, signature, data)
Secp256r1ValidatePublicKey(bytes) == ValidatePublicKey("P-256", bytes)

---------------------------------------------------------------------------
(* X25519 *)

X25519BytesToPrivateKey(bytes) == OkpBytesToPrivateKey("X25519", bytes)
X25519BytesToPublicKey(bytes) == OkpBytesToPublicKey("X25519", bytes)
X25519GenerateKey(secret) == OkpGenerateKey("X25519", secret)
X25519ComputePublicKey(jwk) == OkpComputePublicKey("X25519", jwk)
X25519GetPublicKey(jwk) == OkpGetPublicKey("X25519", jwk)
X25519PrivateKeyToBytes(jwk) == OkpPrivateKeyToBytes(jwk)
X25519PublicKeyToBytes(jwk) == OkpPublicKeyToBytes(jwk)
X25519SharedSecret(jwkA, jwkB) ==
    IF Has(jwkA, {"x"}) /\ Has(jwkB, {"x"}) /\ jwkA.x = jwkB.x THEN {}
    ELSE UNION {{<<"X25519", {a.secret, s}>> : s \in SecretsAt("X25519", b.x)} :
                    a \in X25519PrivateKeyToBytes(jwkA), b \in X25519PublicKeyToBytes(jwkB)}

---------------------------------------------------------------------------
(* EcdsaAlgorithm and EdDsaAlgorithm of the crypto package *)

EcdsaComputePublicKey(jwk) ==
    IF ~IsEcPrivateJwk(jwk) THEN {}
    ELSE CASE jwk.crv = "secp256k1" -> Tagged(EcComputePublicKey("secp256k1", jwk), "ES256K")
           [] jwk.crv = "P-256" -> Tagged(Secp256r1ComputePublicKey(jwk), "ES256")
           [] OTHER -> {}
EcdsaGenerateKey(algorithm, secret) ==
    CASE algorithm \in {"ES256K", "secp256k1"} -> Tagged(EcGenerateKey("secp256k1", secret), "ES256K")
      [] algorithm \in {"ES256", "secp256r1"} -> Tagged(Secp256r1GenerateKey(secret), "ES256")
EcdsaGetPublicKey(jwk) ==
    IF ~IsEcPrivateJwk(jwk) THEN {}
    ELSE CASE jwk.crv = "secp256k1" -> Tagged(EcGetPublicKey("secp256k1", jwk), "ES256K")
           [] jwk.crv = "P-256" -> Tagged(Secp256r1GetPublicKey(jwk), "ES256")
           [] OTHER -> {}
EcdsaSign(jwk, data) ==
    IF ~IsEcPrivateJwk(jwk) THEN {}
    ELSE CASE jwk.crv = "secp256k1" -> EcSign("secp256k1", jwk, data)
           [] jwk.crv = "P-256" -> Secp256r1Sign(jwk, data)
           [] OTHER -> {}
EcdsaVerify(jwk, signature, data) ==
    IF ~IsEcPublicJwk(jwk) THEN {}
    ELSE CASE jwk.crv = "secp256k1" -> EcVerify("secp256k1", jwk, signature, data)
           [] jwk.crv = "P-256" -> Secp256r1Verify(jwk, signature, data)
           [] OTHER -> {}

OnEd25519(jwk, guard, result) == IF guard /\ jwk.crv = "Ed25519" THEN result ELSE {}
EdDsaComputePublicKey(jwk) ==
    OnEd25519(jwk, IsOkpPrivateJwk(jwk), Tagged(OkpComputePublicKey("Ed25519", jwk), "EdDSA"))
EdDsaGenerateKey(secret) == Tagged(OkpGenerateKey("Ed25519", secret), "EdDSA")
EdDsaGetPublicKey(jwk) ==
    OnEd25519(jwk, IsOkpPrivateJwk(jwk), Tagged(OkpGetPublicKey("Ed25519", jwk), "EdDSA"))
EdDsaSign(jwk, data) == OnEd25519(jwk, IsOkpPrivateJwk(jwk), OkpSign(jwk, data))
EdDsaVerify(jwk, signature, data) ==
    OnEd25519(jwk, IsOkpPublicJwk(jwk), OkpVerify(jwk, signature, data))

---------------------------------------------------------------------------
(* Their copies in the agent, which also convert; the one for ECDSA says "EdDSA" *)

AgentEcdsaBytesToPrivateKey(algorithm, bytes) ==
    Tagged(IF algorithm \in {"ES256K", "secp256k1"} THEN EcBytesToPrivateKey("secp256k1", bytes)
           ELSE Secp256r1BytesToPrivateKey(bytes), "EdDSA")
AgentEcdsaBytesToPublicKey(algorithm, bytes) ==
    Tagged(IF algorithm \in {"ES256K", "secp256k1"} THEN EcBytesToPublicKey("secp256k1", bytes)
           ELSE Secp256r1BytesToPublicKey(bytes), "EdDSA")
AgentEcdsaPrivateKeyToBytes(jwk) ==
    CASE jwk.crv = "secp256k1" -> EcPrivateKeyToBytes(jwk)
      [] jwk.crv = "P-256" -> Secp256r1PrivateKeyToBytes(jwk)
      [] OTHER -> {}
AgentEcdsaPublicKeyToBytes(jwk) ==
    CASE jwk.crv = "secp256k1" -> EcPublicKeyToBytes(jwk)
      [] jwk.crv = "P-256" -> Secp256r1PublicKeyToBytes(jwk)
      [] OTHER -> {}
AgentEcdsaComputePublicKey(jwk) == EcdsaComputePublicKey(jwk)
AgentEcdsaGetPublicKey(jwk) == EcdsaGetPublicKey(jwk)
AgentEcdsaGenerateKey(algorithm, secret) == EcdsaGenerateKey(algorithm, secret)
AgentEcdsaSign(jwk, data) == EcdsaSign(jwk, data)
AgentEcdsaVerify(jwk, signature, data) == EcdsaVerify(jwk, signature, data)

AgentEdDsaBytesToPrivateKey(bytes) == Tagged(OkpBytesToPrivateKey("Ed25519", bytes), "EdDSA")
AgentEdDsaBytesToPublicKey(bytes) == Tagged(OkpBytesToPublicKey("Ed25519", bytes), "EdDSA")
AgentEdDsaPrivateKeyToBytes(jwk) == OnEd25519(jwk, TRUE, OkpPrivateKeyToBytes(jwk))
AgentEdDsaPublicKeyToBytes(jwk) == OnEd25519(jwk, TRUE, OkpPublicKeyToBytes(jwk))
AgentEdDsaComputePublicKey(jwk) == EdDsaComputePublicKey(jwk)
AgentEdDsaGetPublicKey(jwk) == EdDsaGetPublicKey(jwk)
AgentEdDsaGenerateKey(secret) == EdDsaGenerateKey(secret)
AgentEdDsaSign(jwk, data) == EdDsaSign(jwk, data)
AgentEdDsaVerify(jwk, signature, data) == EdDsaVerify(jwk, signature, data)

---------------------------------------------------------------------------
(* The agent's Dsa *)

DsaNames == [EdDsa |-> {"Ed25519"}, Ecdsa |-> {"ES256K", "secp256k1", "ES256", "secp256r1"}]
\* getAlgorithmName() and getAlgorithm(): the first implementation whose names have either.
DsaFor(alg, crv) == IF {alg, crv} \cap DsaNames.EdDsa # {} THEN "EdDsa"
                    ELSE IF {alg, crv} \cap DsaNames.Ecdsa # {} THEN "Ecdsa" ELSE "none"
DsaOfKey(jwk) == DsaFor(IF Has(jwk, {"alg"}) THEN jwk.alg ELSE "", jwk.crv)
\* The operation of the implementation a key has; none throws.
OfClass(class, edDsa, ecdsa) ==
    CASE class = "EdDsa" -> edDsa [] class = "Ecdsa" -> ecdsa [] OTHER -> {}

DsaBytesToPrivateKey(algorithm, bytes) ==
    OfClass(DsaFor(algorithm, ""), AgentEdDsaBytesToPrivateKey(bytes),
            AgentEcdsaBytesToPrivateKey(algorithm, bytes))
DsaBytesToPublicKey(algorithm, bytes) ==
    CASE DsaFor(algorithm, "") = "EdDsa" -> AgentEdDsaBytesToPublicKey(bytes)
      [] DsaFor(algorithm, "") = "Ecdsa" -> AgentEcdsaBytesToPublicKey(algorithm, bytes)
      [] OTHER -> {}
DsaGenerateKey(algorithm, secret) ==
    {KidUnlessGiven(jwk) :
        jwk \in CASE DsaFor(algorithm, "") = "EdDsa" -> AgentEdDsaGenerateKey(secret)
                  [] DsaFor(algorithm, "") = "Ecdsa" -> AgentEcdsaGenerateKey(algorithm, secret)
                  [] OTHER -> {}}
DsaGetPublicKey(jwk) == OfClass(DsaOfKey(jwk), AgentEdDsaGetPublicKey(jwk), AgentEcdsaGetPublicKey(jwk))
DsaPrivateKeyToBytes(jwk) ==
    OfClass(DsaOfKey(jwk), AgentEdDsaPrivateKeyToBytes(jwk), AgentEcdsaPrivateKeyToBytes(jwk))
DsaPublicKeyToBytes(jwk) ==
    OfClass(DsaOfKey(jwk), AgentEdDsaPublicKeyToBytes(jwk), AgentEcdsaPublicKeyToBytes(jwk))
DsaSign(jwk, data) == OfClass(DsaOfKey(jwk), AgentEdDsaSign(jwk, data), AgentEcdsaSign(jwk, data))
DsaVerify(jwk, signature, data) ==
    OfClass(DsaOfKey(jwk), AgentEdDsaVerify(jwk, signature, data), AgentEcdsaVerify(jwk, signature, data))

---------------------------------------------------------------------------
(* Properties *)

\* Bounds: a key of each curve and secret, with the kid it was made with or one
\* of its owner's, and with its own alg, none or that of another curve.
KeyNames == ("secp256k1" :> "ES256K") @@ ("P-256" :> "ES256") @@ ("Ed25519" :> "Ed25519")
Made(crv, secret) ==
    CASE crv = "Ed25519" -> EdDsaGenerateKey(secret) \cup DsaGenerateKey("Ed25519", secret)
      [] crv = "X25519" -> X25519GenerateKey(secret)
      [] OTHER -> EcdsaGenerateKey(KeyNames[crv], secret) \cup DsaGenerateKey(KeyNames[crv], secret)
Relabelled(jwk, kid, alg) ==
    LET named == IF kid THEN ("kid" :> [label |-> "own"]) @@ jwk ELSE jwk IN
    CASE alg = "none" -> Without(named, {"alg"})
      [] alg = "own" -> named
      [] OTHER -> WithAlg(named, alg)
CurveKeys == {Relabelled(jwk, kid, alg) :
                 jwk \in UNION {Made(crv, s) : crv \in EcCurves \cup OkpCurves, s \in Secrets},
                 kid \in BOOLEAN, alg \in {"none", "own", "EdDSA", "ES256K"}}

GetPublic(jwk) == CASE jwk.kty = "EC" -> EcdsaGetPublicKey(jwk) \cup DsaGetPublicKey(jwk)
                    [] jwk.crv = "X25519" -> X25519GetPublicKey(jwk)
                    [] OTHER -> EdDsaGetPublicKey(jwk) \cup DsaGetPublicKey(jwk)
ComputePublic(jwk) == CASE jwk.kty = "EC" -> EcdsaComputePublicKey(jwk) \cup AgentEcdsaComputePublicKey(jwk)
                        [] jwk.crv = "X25519" -> X25519ComputePublicKey(jwk)
                        [] OTHER -> EdDsaComputePublicKey(jwk) \cup AgentEdDsaComputePublicKey(jwk)
Label == {"kid", "alg"}

\* The public key that is read off a key is the one that is computed from it,
\* keeps its kid, has the thumbprint of the private key, and nothing private
\* (secp256k1.ts 303-324, 462-477, jwk.ts 478-513).
PublicAgrees(jwk) ==
    GetPublic(jwk) # {} /\ \A got \in GetPublic(jwk), computed \in ComputePublic(jwk) :
        /\ Without(got, Label) = Without(computed, Label)
        /\ got.kid = jwk.kid /\ computed.kid = ComputeJwkThumbprint(jwk)
        /\ IsPublicJwk(got) /\ ~IsPrivateJwk(got) /\ IsPrivateJwk(jwk) /\ ~IsPublicJwk(jwk)

Compress(crv, bytes) == IF crv = "P-256" THEN Secp256r1CompressPublicKey(bytes)
                        ELSE CompressPublicKey(crv, bytes)
Decompress(crv, bytes) == IF crv = "P-256" THEN Secp256r1DecompressPublicKey(bytes)
                          ELSE DecompressPublicKey(crv, bytes)

\* What Dsa converts to bytes and back, compressed on the way or not, is the
\* same key (dsa.ts 122-150, 224-248, secp256k1.ts 267-275, 385-393).
BytesAgree(jwk) ==
    /\ \A bytes \in DsaPrivateKeyToBytes(jwk) :
           /\ ValidatePrivateKey(bytes)
           /\ \A back \in DsaBytesToPrivateKey(KeyNames[jwk.crv], bytes) :
                  Without(back, Label) = Without(jwk, Label)
    /\ \A public \in GetPublic(jwk) : \A bytes \in DsaPublicKeyToBytes(public) :
           /\ jwk.crv = "P-256" => Secp256r1ValidatePublicKey(bytes)
           /\ jwk.crv = "secp256k1" => ValidatePublicKey("secp256k1", bytes)
           /\ \A same \in IF jwk.crv \notin EcCurves THEN {bytes}
                          ELSE {bytes} \cup Compress(jwk.crv, bytes) \cup
                               UNION {Decompress(jwk.crv, b) : b \in Compress(jwk.crv, bytes)} :
                  \E back \in DsaBytesToPublicKey(KeyNames[jwk.crv], same) :
                      Without(back, Label) = Without(public, Label)

\* A signature that came as DER, with a low S.
LowS(made) ==
    LET der == [made EXCEPT !.form = "der"] IN
    IF made.crv = "P-256" THEN UNION {Secp256r1AdjustToLowS(c) : c \in Secp256r1ConvertDer(der)}
    ELSE UNION {AdjustSignatureToLowS(c) : c \in ConvertDerToCompactSignature(der)}

\* A signature, with a high S or a low one, verifies with the public key of the
\* key that made it and with no other key of the same or another curve
\* (ecdsa.ts 199-268, eddsa.ts 181-242, dsa.ts 250-278).
SignaturesAgree(jwk, other) ==
    \A made \in UNION {DsaSign(jwk, "m"), EcdsaSign(jwk, "m"), EdDsaSign(jwk, "m")} :
        \A signature \in {made} \cup LowS(made), public \in GetPublic(other) :
            LET own == {Without(public, Label) = Without(Without(jwk, {"d"}), Label)} IN
            /\ DsaVerify(public, signature, "m") \subseteq own
            /\ public.crv # "X25519" =>
                   own = EcdsaVerify(public, signature, "m") \cup EdDsaVerify(public, signature, "m")

SharedSecretOf(jwkA, jwkB) ==
    CASE jwkA.crv = "secp256k1" -> EcSharedSecret("secp256k1", jwkA, jwkB)
      [] jwkA.crv = "P-256" -> Secp256r1SharedSecret(jwkA, jwkB)
      [] OTHER -> X25519SharedSecret(jwkA, jwkB)

\* Two keys of a curve share the same secret from either side, one key shares
\* none with itself, and the X25519 keys of an Ed25519 key belong together
\* (x25519.ts 385-402, secp256k1.ts 598-617, ed25519.ts 210-284).
SecretsAgree(jwk, other) ==
    /\ jwk.crv = "X25519" => \A public \in GetPublic(jwk) :
           /\ UNION {X25519BytesToPublicKey(b) : b \in X25519PublicKeyToBytes(public)} = ComputePublic(jwk)
           /\ \A back \in UNION {X25519BytesToPrivateKey(b) : b \in X25519PrivateKeyToBytes(jwk)} :
                  Without(back, Label) = Without(jwk, Label)
    /\ jwk.crv = other.crv /\ jwk.crv # "Ed25519" =>
           \A publicA \in GetPublic(jwk), publicB \in GetPublic(other) :
               /\ SharedSecretOf(jwk, publicB) = SharedSecretOf(other, publicA)
               /\ (SharedSecretOf(jwk, publicB) = {}) <=> (jwk.x = other.x)
    /\ jwk.crv = "Ed25519" =>
           \A private \in ConvertPrivateKeyToX25519(jwk), public \in GetPublic(jwk) :
               ConvertPublicKeyToX25519(public) = X25519ComputePublicKey(private)

CurveKeysAgree(jwk, other) == /\ PublicAgrees(jwk) /\ BytesAgree(jwk)
                              /\ SignaturesAgree(jwk, other) /\ SecretsAgree(jwk, other)
=============================================================================
