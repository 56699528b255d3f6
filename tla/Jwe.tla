---------------------------------- MODULE Jwe ----------------------------------
(***************************************************************************)
(* JSON Web Encryption of the agent: JweKeyManagement, FlattenedJwe and    *)
(* CompactJwe (prototyping/crypto/jose).                                   *)
(*                                                                         *)
(* The cryptography is symbolic: what a key made is opened by the same key *)
(* and equal inputs, or not at all.  Every value is a tuple headed by its  *)
(* kind.  A base64url part of a JWE is the value it decodes to or          *)
(* Malformed, and None when it is absent.  A header is a function from the *)
(* names of its parameters; the empty one stands for no header.            *)
(***************************************************************************)
EXTENDS Integers, Sequences

None      == <<"none">>
Malformed == <<"malformed">>
Empty     == <<"bytes", "">>        \* no bytes
Bytes(x)  == <<"bytes", x>>

Content    == {"A128GCM", "A192GCM", "A256GCM"}
Encryption == {"PBES2-HS256+A128KW", "PBES2-HS384+A192KW", "PBES2-HS512+A256KW"}

\* key: a CryptoKey as a JWK, the URI of one a key manager keeps, or the bytes
\* of a password.
KeyOf(type, alg, k) == [type |-> type, alg |-> alg, k |-> k]

Ok(x)       == [error |-> "none", is |-> x]
Error(code) == [error |-> code, is |-> None]

-----------------------------------------------------------------------------
(* Ciphers *)

\* encrypt() and decrypt() of AES-GCM: the initialization vector has 12 bytes,
\* the last 16 bytes of the data are the tag.
Seal(key, iv, aad, text) ==
    <<<<"ciphertext", key.k, iv, aad, text>>, <<"tag", key.k, iv, aad, text>>>>
Encrypt(key, iv, aad, text) ==
    IF key.alg \notin Content \/ iv \in {None, Empty} THEN Error("OperationError")
    ELSE Ok(Seal(key, iv, aad, text))
Decrypt(key, iv, aad, data, texts) ==
    LET found == {t \in texts : Encrypt(key, iv, aad, t) = Ok(data)} IN
    IF found = {} THEN Error("OperationError") ELSE Ok(CHOOSE t \in found : TRUE)

\* The key encryption key of a password, and a key wrapped with it.
Kek(password, header) == <<"kek", header.alg, password.k, header.p2c, header.p2s>>
WrapKey(kek, cek) == <<"wrapped", kek, cek>>

-----------------------------------------------------------------------------
(* Key management *)

Salted(header) == {"p2c", "p2s"} \subseteq DOMAIN header /\ header.p2c # "text"

\* JweKeyManagement.encrypt(): the content encryption key, fresh unless it is
\* the key itself.  A PBES2 salt that is not base64url is a coding error.
ManageEncrypt(key, header, fresh) ==
    CASE header.alg = "dir" ->
             IF key.type = "password" THEN Error("InvalidJwe")
             ELSE Ok(<<key, None>>)
      [] header.alg \in Encryption ->
             IF ~Salted(header) \/ key.type # "password" THEN Error("InvalidJwe")
             ELSE IF header.enc \notin Content THEN Error("AlgorithmNotSupported")
             ELSE IF header.p2s = "malformed" THEN Error("EncodingError")
             ELSE LET cek == KeyOf("jwk", header.enc, fresh)
                  IN  Ok(<<cek, WrapKey(Kek(key, header), cek)>>)
      [] OTHER -> Error("AlgorithmNotSupported")

\* JweKeyManagement.decrypt(): unwrapKey() names the key after its length.
ManageDecrypt(key, encryptedKey, header) ==
    CASE header.alg = "dir" ->
             IF encryptedKey # None \/ key.type = "password" THEN Error("InvalidJwe")
             ELSE Ok(key)
      [] header.alg \in Encryption ->
             IF ~Salted(header) \/ key.type # "password" \/ encryptedKey = None
             THEN Error("InvalidJwe")
             ELSE IF header.p2s = "malformed" THEN Error("EncodingError")
             ELSE IF header.enc \notin Content THEN Error("AlgorithmNotSupported")
             ELSE IF encryptedKey[1] = "wrapped" /\ encryptedKey[2] = Kek(key, header)
             THEN Ok(encryptedKey[3])
             ELSE Error("OperationError")
      [] OTHER -> Error("AlgorithmNotSupported")

-----------------------------------------------------------------------------
(* Flattened JWE *)

\* Parameters are in one header each; alg and enc are in some.
Overlap(hs) == \E i, j \in DOMAIN hs : i # j /\ DOMAIN hs[i] \cap DOMAIN hs[j] # {}
Joined(g, h) == [n \in DOMAIN g \cup DOMAIN h |-> IF n \in DOMAIN g THEN g[n] ELSE h[n]]
JoseHeader(hs) == Joined(hs[1], Joined(hs[2], hs[3]))
IsValidJweHeader(header) == {"alg", "enc"} \subseteq DOMAIN header

\* What is authenticated beside the text; an empty aad is not kept in the JWE.
AdditionalData(protected, aad) == IF aad = None THEN <<protected>> ELSE <<protected, aad>>

\* FlattenedJwe.encrypt().
FlattenedEncrypt(in, fresh) ==
    LET hs     == <<in.protected, in.unprotected, in.header>>
        header == JoseHeader(hs)
        keys   == ManageEncrypt(in.key, header, fresh)
        iv     == IF header.enc \in Content THEN Bytes(fresh) ELSE Empty
        sealed == Encrypt(keys.is[1], iv, AdditionalData(in.protected, in.aad), in.text) IN
    IF Overlap(hs) \/ ~IsValidJweHeader(header) THEN Error("InvalidJwe")
    ELSE IF keys.error # "none" THEN keys
    ELSE IF sealed.error # "none" THEN sealed
    ELSE Ok([protected |-> in.protected, unprotected |-> in.unprotected, header |-> in.header,
             encrypted_key |-> keys.is[2], iv |-> iv,
             aad |-> IF in.aad = Empty THEN None ELSE in.aad,
             ciphertext |-> sealed.is[1], tag |-> sealed.is[2]])

\* Mutant: the failure to unwrap is told to the caller.
CekTold(key, encryptedKey, header, fresh) ==
    IF encryptedKey = Malformed THEN Error("EncodingError")
    ELSE ManageDecrypt(key, encryptedKey, header)

\* The key decrypt() goes on with: a failure to unwrap the key is answered with
\* another key, so that it ends as a wrong tag does.
Cek(key, encryptedKey, header, fresh) ==
    LET managed == IF encryptedKey = Malformed THEN Error("EncodingError")
                   ELSE ManageDecrypt(key, encryptedKey, header) IN
    IF managed.error \in {"none", "InvalidJwe", "AlgorithmNotSupported"} THEN managed
    ELSE IF header.enc \notin Content THEN Error("AlgorithmNotSupported")
    ELSE Ok(KeyOf("jwk", header.enc, fresh))

\* FlattenedJwe.decrypt().  allowed: allowedAlgValues and allowedEncValues, {}
\* when they are not given.
FlattenedDecrypt(jwe, key, allowed, fresh, texts) ==
    LET hs     == <<jwe.protected, jwe.header, jwe.unprotected>>
        header == JoseHeader(hs)
        cek    == Cek(key, jwe.encrypted_key, header, fresh)
        text   == Decrypt(cek.is, jwe.iv, AdditionalData(jwe.protected, jwe.aad),
                          <<jwe.ciphertext, jwe.tag>>, texts) IN
    IF "malformed" \in DOMAIN jwe.protected \/ Overlap(hs) \/ ~IsValidJweHeader(header)
    THEN Error("InvalidJwe")
    ELSE IF allowed # {} /\ ~({header.alg, header.enc} \subseteq allowed) THEN Error("NotAllowed")
    ELSE IF cek.error # "none" THEN cek
    ELSE IF Malformed \in {jwe.iv, jwe.tag, jwe.ciphertext, jwe.aad} THEN Error("InvalidJwe")
    ELSE IF text.error # "none" THEN text
    ELSE Ok([text |-> text.is, protected |-> jwe.protected, unprotected |-> jwe.unprotected,
             header |-> jwe.header, aad |-> jwe.aad])

-----------------------------------------------------------------------------
(* Compact JWE: five parts; an empty one is absent. *)

Absent(part) == IF part = Empty THEN None ELSE part

CompactEncrypt(protected, key, text, fresh) ==
    LET made == FlattenedEncrypt([protected |-> protected, unprotected |-> <<>>, header |-> <<>>,
                                  key |-> key, aad |-> None, text |-> text], fresh) IN
    IF made.error # "none" THEN made
    ELSE Ok(<<made.is.protected, made.is.encrypted_key, made.is.iv, made.is.ciphertext, made.is.tag>>)

CompactDecrypt(parts, key, allowed, fresh, texts) ==
    LET opened == FlattenedDecrypt(
            [protected |-> parts[1], unprotected |-> <<>>, header |-> <<>>,
             encrypted_key |-> Absent(parts[2]), iv |-> Absent(parts[3]), aad |-> None,
             ciphertext |-> parts[4], tag |-> Absent(parts[5])], key, allowed, fresh, texts) IN
    IF Len(parts) # 5 THEN Error("InvalidJwe")
    ELSE IF opened.error # "none" THEN opened
    ELSE Ok([text |-> opened.is.text, protected |-> opened.is.protected])

-----------------------------------------------------------------------------
(* Properties *)

\* Bounds: keys, total headers and the header each parameter is put in.
Keys == {KeyOf("jwk", "A256GCM", "k1"), KeyOf("jwk", "A256KW", "k1"), KeyOf("uri", "A256GCM", "k2"),
         KeyOf("password", "", "k3"), KeyOf("password", "", "k4")}
Totals == [alg : {"dir", "RSA-OAEP"}, enc : {"A256GCM", "A256CBC-HS512"}]
    \cup [alg : {"dir", "PBES2-HS512+A256KW"}, enc : {"A256GCM", "A128GCM", "A256CBC-HS512"},
          p2c : {"1", "2", "text"}, p2s : {"salt", "pepper", "malformed"}]
Only(header, names) == [n \in DOMAIN header \cap names |-> header[n]]
Without(header, names) == Only(header, DOMAIN header \ names)
Placed(header, place) ==
    CASE place = "protected" -> <<header, <<>>, <<>>>>
      [] place = "header"    -> <<<<>>, <<>>, header>>
      [] place = "split"     -> <<Only(header, {"enc"}), Only(header, {"alg"}),
                                  Without(header, {"enc", "alg"})>>
      [] place = "twice"     -> <<header, Only(header, {"alg"}), <<>>>>
Places == {"protected", "header", "split", "twice"}
JweSamples == [key : Keys, total : Totals, place : Places, aad : {None, Empty, Bytes("a")}]

In(s) == LET hs == Placed(s.total, s.place) IN
    [protected |-> hs[1], unprotected |-> hs[2], header |-> hs[3], key |-> s.key,
     aad |-> s.aad, text |-> Bytes("text")]
Texts == {Bytes("text"), Bytes("other")}

\* The values that may take the place of a part: none, a malformed one, and
\* that of a JWE with another key, text and header.
Others(part, made) ==
    LET other(key) == FlattenedEncrypt(
            [protected |-> [alg |-> IF key.type = "password" THEN "PBES2-HS512+A256KW" ELSE "dir",
                            enc |-> "A256GCM", p2c |-> "1", p2s |-> "salt"],
             unprotected |-> <<>>, header |-> <<>>, key |-> key, aad |-> Bytes("b"),
             text |-> Bytes("other")], "f9") IN
    ((IF part = "protected" THEN {<<>>, [malformed |-> "x"]} ELSE {None, Malformed})
        \cup {other(key).is[part] : key \in {k \in Keys : k.alg # "A256KW"}})
        \ {made[part]}

\* What was encrypted is decrypted with the same key and nothing else, and not
\* when any of the parts has been replaced; whoever tries a password learns only
\* that it fails, not why.  Exception: an empty additionalAuthenticatedData is
\* authenticated but not kept, so that the JWE never opens (jwe-flattened.ts
\* 201-457, jwe.ts 429-652).
Sealed(s) ==
    LET in == In(s)
        made == FlattenedEncrypt(in, "f8")
        Opened(jwe, key) == FlattenedDecrypt(jwe, key, {}, "f10", Texts)
        Replaced(part, value) == [made.is EXCEPT ![part] = value]
        Parts == {"protected", "encrypted_key", "iv", "aad", "ciphertext", "tag"} IN
    made.error = "none" =>
        /\ IF s.aad = Empty THEN Opened(made.is, s.key).error # "none"
           ELSE Opened(made.is, s.key) =
                Ok([text |-> in.text, protected |-> in.protected, unprotected |-> in.unprotected,
                    header |-> in.header, aad |-> in.aad])
        /\ \A key \in Keys \ {s.key} : Opened(made.is, key).error # "none"
        /\ \A part \in Parts : \A value \in Others(part, made.is) :
              Opened(Replaced(part, value), s.key).error # "none"
        /\ s.key.type = "password" =>
              /\ \A key \in {k \in Keys : k.type = "password"} \ {s.key} :
                    Opened(made.is, key).error = "OperationError"
              /\ \A value \in Others("encrypted_key", made.is) \ {None} :
                    Opened(Replaced("encrypted_key", value), s.key).error = "OperationError"
              /\ \A value \in Others("tag", made.is) \ {None, Malformed} :
                    Opened(Replaced("tag", value), s.key).error = "OperationError"

\* The same of a compact JWE, as the vault keeps its secrets (jwe-compact.ts
\* 140-224, hd-identity-vault.ts 414-460).
CompactSealed(s) ==
    LET made == CompactEncrypt(s.total, s.key, Bytes("text"), "f8")
        other == CompactEncrypt(s.total, s.key, Bytes("other"), "f9")
        Opened(parts, key) == CompactDecrypt(parts, key, {}, "f10", Texts) IN
    made.error = "none" =>
        /\ Opened(made.is, s.key) = Ok([text |-> Bytes("text"), protected |-> s.total])
        /\ Opened(SubSeq(made.is, 1, 4) \o <<None, None>>, s.key).error # "none"
        /\ \A key \in Keys \ {s.key} : Opened(made.is, key).error # "none"
        /\ \A i \in {j \in 2..5 : other.is[j] # made.is[j]} :
              Opened([made.is EXCEPT ![i] = other.is[i]], s.key).error # "none"
=============================================================================
