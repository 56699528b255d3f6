--------------------------------- MODULE Oidc ---------------------------------
(***************************************************************************)
(* The messages of WalletConnect (oidc.ts, connect.ts): the request an app *)
(* signs and encrypts with a key it shows the wallet, and the response the *)
(* wallet signs with the delegate's DID and encrypts for the app's DID and *)
(* a PIN the user carries over.                                            *)
(*                                                                         *)
(* WalletConnect has the protocol around them.  As in Jwe the cryptography *)
(* is symbolic; a compact JWE is its five parts, the second one empty.     *)
(***************************************************************************)
EXTENDS Jwe, FiniteSets

\* A did:jwk is its key: the URI names it and resolving needs nothing else.
DidOf(key) == <<"did", key>>
KeyId(did, fragment) == <<did, fragment>>
Resolve(did) == IF did[1] = "did" THEN Ok([id |-> KeyId(did, "0"), key |-> did[2]])
                ELSE Error("notFound")

\* Who can compute a secret: those who have both of what it is made of.
DeriveSharedKey(private, public) == <<"hkdf", {private, public}>>

XSeal(key, nonce, aad, text) ==
    <<<<"ciphertext", key, nonce, aad, text>>, <<"tag", key, nonce, aad, text>>>>
XOpen(key, nonce, aad, data, texts) ==
    LET found == {t \in texts : XSeal(key, nonce, aad, t) = data} IN
    IF found = {} THEN Error("invalid tag") ELSE Ok(CHOOSE t \in found : TRUE)

-----------------------------------------------------------------------------
(* Endpoints of the connect server *)

BuildOidcUrl(base, endpoint, authParam, tokenParam) ==
    CASE endpoint = "pushedAuthorizationRequest" -> Ok(<<base, "par">>)
      [] endpoint = "authorize" -> IF authParam = "" THEN Error("authParam")
                                   ELSE Ok(<<base, "authorize", authParam>>)
      [] endpoint = "callback"  -> Ok(<<base, "callback">>)
      [] endpoint = "token"     -> IF tokenParam = "" THEN Error("tokenParam")
                                   ELSE Ok(<<base, "token", tokenParam>>)
      [] OTHER -> Error("endpoint")

-----------------------------------------------------------------------------
(* Signed objects *)

\* signJwt(): by the first key of a DID.
SignJwt(key, payload) ==
    LET header == [alg |-> "EdDSA", kid |-> KeyId(DidOf(key), "0"), typ |-> "JWT"] IN
    <<header, payload, <<"signature", key, header, payload>>>>

\* verifyJwt(): the key is the one of the header's kid.
VerifyJwt(jwt) ==
    LET resolved == Resolve(jwt[1].kid[1]) IN
    IF resolved.error # "none" \/ resolved.is.id # jwt[1].kid THEN Error("kid")
    ELSE IF jwt[3] # <<"signature", resolved.is.key, jwt[1], jwt[2]>> THEN Error("signature")
    ELSE Ok(jwt[2])

-----------------------------------------------------------------------------
(* The request *)

\* createAuthRequest(), as initClient() fills it in.
CreateAuthRequest(client, callback, permissions, fresh) ==
    [client_id |-> DidOf(client), redirect_uri |-> callback, permissionRequests |-> permissions,
     state |-> <<"state", fresh>>, nonce |-> <<"nonce", fresh>>, response_mode |-> "direct_post"]

EncryptAuthRequest(jwt, encryptionKey, nonce) ==
    LET header == [alg |-> "dir", cty |-> "JWT", enc |-> "XC20P", typ |-> "JWT"]
        sealed == XSeal(encryptionKey, nonce, header, jwt) IN
    <<header, None, nonce, sealed[1], sealed[2]>>

DecryptAuthRequest(jwe, encryptionKey, jwts) ==
    XOpen(encryptionKey, jwe[3], jwe[1], <<jwe[4], jwe[5]>>, jwts)

\* getAuthRequest(): what the wallet makes of what request_uri holds.
GetAuthRequest(jwe, encryptionKey, jwts) ==
    LET opened == DecryptAuthRequest(jwe, encryptionKey, jwts) IN
    IF opened.error # "none" THEN opened ELSE VerifyJwt(opened.is)

-----------------------------------------------------------------------------
(* The response *)

CreateResponseObject(owner, delegate, request, now) ==
    [iss |-> owner, sub |-> DidOf(delegate), aud |-> request.client_id, nonce |-> request.nonce,
     delegatePortableDid |-> delegate, iat |-> now, exp |-> now + 600]

EncryptAuthResponse(jwt, sharedKey, kid, pin, nonce) ==
    LET header == [alg |-> "dir", cty |-> "JWT", enc |-> "XC20P", typ |-> "JWT", kid |-> kid]
        sealed == XSeal(sharedKey, nonce, Joined(header, [pin |-> pin]), jwt) IN
    <<header, None, nonce, sealed[1], sealed[2]>>

\* decryptAuthResponse(): the header names the delegate the key is shared with.
DecryptAuthResponse(client, jwe, pin, jwts) ==
    LET delegate == Resolve(jwe[1].kid[1]) IN
    IF delegate.error # "none" THEN delegate
    ELSE XOpen(DeriveSharedKey(client, delegate.is.key), jwe[3], Joined(jwe[1], [pin |-> pin]),
               <<jwe[4], jwe[5]>>, jwts)

\* The response submitAuthResponse() leaves, and where.
SubmittedResponse(owner, delegate, request, pin, now) ==
    [to |-> request.redirect_uri, state |-> request.state,
     id_token |-> EncryptAuthResponse(
         SignJwt(delegate, CreateResponseObject(owner, delegate, request, now)),
         DeriveSharedKey(delegate, request.client_id[2]), KeyId(DidOf(delegate), "0"), pin,
         <<"nonce", delegate>>)]

\* What initClient() returns of the response it has polled.
ClientResult(client, jwe, pin, jwts) ==
    LET opened == DecryptAuthResponse(client, jwe, pin, jwts)
        verified == VerifyJwt(opened.is) IN
    IF opened.error # "none" THEN opened
    ELSE IF verified.error # "none" THEN verified
    ELSE Ok([connectedDid |-> verified.is.iss,
             delegatePortableDid |-> verified.is.delegatePortableDid])

-----------------------------------------------------------------------------
(* Properties *)

\* Bounds: two apps, two wallets with a delegate each, two PINs and two
\* encryption keys; permissions are left out.
Apps == {"a1", "a2"}
Delegates == {"e1", "e2"}
Pins == {"1234", "4321"}
OidcSamples == [app : Apps, delegate : Delegates, pin : Pins, key : {"x1", "x2"}]

Request(app) ==
    CreateAuthRequest(app, BuildOidcUrl("server", "callback", "", "").is, <<>>, app)
RequestJwe(app, key) == EncryptAuthRequest(SignJwt(app, Request(app)), <<"key", key>>, <<"nonce", app>>)
Response(app, delegate, pin) == SubmittedResponse(<<"owner", delegate>>, delegate, Request(app), pin, 0)

\* Objects that may be inside, the ones another key has signed included.
Forged(jwt, by) == [jwt EXCEPT ![3] = <<"signature", by, jwt[1], jwt[2]>>]
RequestJwts == {SignJwt(a, Request(a)) : a \in Apps}
    \cup {Forged(SignJwt(a, Request(a)), b) : a, b \in Apps}
ResponseObject(app, delegate) == CreateResponseObject(<<"owner", delegate>>, delegate, Request(app), 0)
ResponseJwts == {SignJwt(e, ResponseObject(a, e)) : a \in Apps, e \in Delegates}

\* A wallet reads the request of the app whose key and request it has, an app
\* the response made for it with the PIN its user enters; with another key,
\* another app's DID, another PIN, a part of another message or a signature of
\* another DID there is no request and no result (oidc.ts 272-605, connect.ts
\* 29-132).
Confidential(s) ==
    LET request == RequestJwe(s.app, s.key)
        response == Response(s.app, s.delegate, s.pin).id_token
        Mixed(jwe, other) == {[jwe EXCEPT ![i] = other[i]] : i \in {j \in {1, 3, 4, 5} : jwe[j] # other[j]}} IN
    /\ GetAuthRequest(request, <<"key", s.key>>, RequestJwts) = Ok(Request(s.app))
    /\ \A key \in {"x1", "x2"} \ {s.key} : GetAuthRequest(request, <<"key", key>>, RequestJwts).error # "none"
    /\ \A app \in Apps, key \in {"x1", "x2"} : \A jwe \in Mixed(request, RequestJwe(app, key)) :
          GetAuthRequest(jwe, <<"key", s.key>>, RequestJwts).error # "none"
    /\ \A by \in Apps \ {s.app} :
          GetAuthRequest(EncryptAuthRequest(Forged(SignJwt(s.app, Request(s.app)), by),
                                            <<"key", s.key>>, <<"nonce", "n">>),
                         <<"key", s.key>>, RequestJwts).error # "none"
    /\ \A app \in Apps, pin \in Pins :
          LET result == ClientResult(app, response, pin, ResponseJwts) IN
          IF app = s.app /\ pin = s.pin
          THEN result = Ok([connectedDid |-> <<"owner", s.delegate>>,
                            delegatePortableDid |-> s.delegate])
          ELSE result.error # "none"
    /\ \A app \in Apps, delegate \in Delegates, pin \in Pins :
          \A jwe \in Mixed(response, Response(app, delegate, pin).id_token) :
              ClientResult(s.app, jwe, s.pin, ResponseJwts).error # "none"
=============================================================================
