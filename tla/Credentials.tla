------------------------------ MODULE Credentials ------------------------------
(***************************************************************************)
(* Verifiable credentials (packages/credentials): JWTs, credentials,       *)
(* presentations, status lists and presentation exchange.                  *)
(*                                                                         *)
(* Time is counted in half seconds, a claim of a JWT in seconds, so that   *)
(* rounding shows.  A name or text left out is "", a number left out is    *)
(* Absent; as in the code, 0 counts as left out too.  A signature names    *)
(* its key and all it covers.  An operator that throws is split in two:    *)
(* whether it accepts and what it then returns.                            *)
(***************************************************************************)
EXTENDS Integers, Sequences, SequencesExt

Absent   == -1
Given(n) == n > 0                              \* a number JavaScript holds true

\* A date: when it is and how it is written; "text" is written wrongly.
Date(at, form) == [at |-> at, form |-> form]
NoDate         == Date(0, "none")
Dated(d)       == d.form # "none"
Valid(d)       == d.form \in {"none", "xml", "rfc3339"}        \* validateTimestamp()
\* getXmlSchema112Timestamp(), and a date as a claim.
Xml(seconds) == Date(2 * seconds, "xml")
Seconds(d)   == IF d.form = "text" THEN -2 ELSE d.at \div 2
Now(now)     == now \div 2

-----------------------------------------------------------------------------
(* Jwt *)

\* What a kid dereferences to.
Method(key, alg) == [is |-> "method", key |-> key, alg |-> alg]
World == [kid \in {<<"di", "#0">>, <<"dj", "#0">>, <<"dj", "#svc">>, <<"dj", "#hex">>} |->
             CASE kid = <<"di", "#0">>   -> Method("ki", "EdDSA")
               [] kid = <<"dj", "#0">>   -> Method("kj", "")
               [] kid = <<"dj", "#svc">> -> [is |-> "service"]
               [] kid = <<"dj", "#hex">> -> Method("", "")]

\* getSigner(): the DID, the id of its method, its private key and algorithm.
Signer(uri, id, key, algorithm) == [uri |-> uri, id |-> id, key |-> key, algorithm |-> algorithm]

Jwt(header, payload, key) ==
    [shape |-> "whole", header |-> header, payload |-> payload,
     signature |-> <<key, header, payload>>]

\* sign(): a relative id of a method is completed with the DID.
SignJwt(signer, payload) ==
    LET kid == IF signer.id[1] = "" THEN <<signer.uri, signer.id[2]>> ELSE signer.id IN
    Jwt([alg |-> signer.algorithm, kid |-> kid], payload, signer.key)

\* parse(): three parts, a header and a payload that decode, alg and kid.
Parses(jwt) == jwt.shape = "whole" /\ jwt.header.alg # "" /\ jwt.header.kid[2] # ""

\* ExpiredOnTime: a JWT that ends when its last second begins.
ExpiredOnTime(payload, now) == Given(payload.exp) /\ Now(now) >= payload.exp
Expired(payload, now) == Given(payload.exp) /\ Now(now) > payload.exp

\* verify(): the kid leads to a method with a key as a JWK that, unless it
\* names none, has the algorithm of the header and made the signature.
VerifiesJwt(jwt, now) ==
    /\ Parses(jwt) /\ ~Expired(jwt.payload, now)
    /\ jwt.header.kid \in DOMAIN World
    /\ LET method == World[jwt.header.kid] IN
       /\ method.is = "method" /\ method.key # ""
       /\ method.alg # "" => method.alg = jwt.header.alg
       /\ jwt.signature = <<method.key, jwt.header, jwt.payload>>

-----------------------------------------------------------------------------
(* VerifiableCredential and SsiValidator *)

One(id, data)  == [array |-> FALSE, ids |-> <<id>>, data |-> data]
Many(ids)      == [array |-> TRUE, ids |-> ids, data |-> <<>>]
EmptySubject(subject) == IF subject.array THEN subject.ids = <<>> ELSE subject = One("", <<>>)

\* validateContext(), validateVcType() or validateVpType().
Declares(model, type) == Contains(model.context, "vc") /\ Contains(model.type, type)
\* validatePayload(), which validateCredentialPayload() repeats.
ValidVc(vc) == /\ Declares(vc, "VerifiableCredential") /\ ~EmptySubject(vc.subject)
               /\ Valid(vc.issuanceDate) /\ Valid(vc.expirationDate)

\* create(): the data may bring an id for the subject; the context of status
\* lists is there unless the status is null.
Creates(o) == /\ o.data.is = "object" /\ o.issuer \notin {"", "object"}
              /\ o.subject \notin {"", "object"}
              /\ Valid(o.issuanceDate) /\ Valid(o.expirationDate)
Create(o, now) ==
    [context |-> IF o.status = [is |-> "null"] THEN <<"vc">> ELSE <<"vc", "status">>,
     type |-> <<"VerifiableCredential">> \o o.type, id |-> "urn", issuer |-> o.issuer,
     issuanceDate |-> IF Dated(o.issuanceDate) THEN o.issuanceDate ELSE Xml(Now(now)),
     subject |-> One(IF o.data.id # "" THEN o.data.id ELSE o.subject, o.data.rest),
     expirationDate |-> o.expirationDate,
     status |-> IF o.status.is = "entry" THEN o.status ELSE [is |-> "none"],
     schema |-> o.schema]

NoClaims == [has |-> "", body |-> <<>>, iss |-> "", sub |-> "", jti |-> "",
             nbf |-> Absent, exp |-> Absent]

\* sign(): the signer is the one who issues, whatever the credential says.
SignVc(vc, signer) ==
    SignJwt(signer, [has |-> "vc", body |-> vc, iss |-> signer.uri, sub |-> vc.subject.ids[1],
                     jti |-> vc.id, nbf |-> Seconds(vc.issuanceDate),
                     exp |-> IF Dated(vc.expirationDate) THEN Seconds(vc.expirationDate)
                             ELSE Absent])

\* validateCredentialSchema(): one that can be fetched and that it satisfies.
Conforms(schema) == schema = "conforms"

\* What verify() makes of the credential: its dates are those of the claims.
Returned(p) ==
    [p.body EXCEPT !.issuanceDate   = IF Given(p.nbf) THEN Xml(p.nbf) ELSE @,
                   !.expirationDate = IF Given(p.exp) THEN Xml(p.exp) ELSE @]

\* verify(): every claim that is there agrees with the credential, which is
\* valid by now and conforms to its schema.
VerifiesVc(jwt, now) ==
    /\ VerifiesJwt(jwt, now) /\ jwt.payload.has = "vc"
    /\ LET p == jwt.payload  vc == p.body IN
       /\ Given(p.exp) /\ Dated(vc.expirationDate) => p.exp = Seconds(vc.expirationDate)
       /\ p.iss # "" /\ p.iss = vc.issuer
       /\ Given(p.nbf) => /\ p.nbf <= Now(now)
                          /\ Dated(vc.issuanceDate) => p.nbf = Seconds(vc.issuanceDate)
       /\ p.sub # "" /\ ~vc.subject.array => p.sub = vc.subject.ids[1]
       /\ p.jti # "" => p.jti = vc.id
       /\ ValidVc(Returned(p))
       /\ vc.schema # "" => Conforms(vc.schema)

\* parseJwt()
ParsesVc(jwt) == Parses(jwt) /\ jwt.payload.has = "vc" /\ ValidVc(jwt.payload.body)

-----------------------------------------------------------------------------
(* VerifiablePresentation *)

\* create(): the additional data may replace any part of the presentation.
Presents(o) == o.holder \notin {"", "object"} /\ o.more.is \in {"none", "object"}
Present(o) ==
    LET own == [context |-> <<"vc">>, type |-> <<"VerifiablePresentation">> \o o.type,
                id |-> "urn", holder |-> o.holder, vcJwts |-> o.vcJwts]
    IN  [f \in DOMAIN own |-> IF f \in DOMAIN o.more.fields THEN o.more.fields[f] ELSE own[f]]
ValidVp(vp) == Declares(vp, "VerifiablePresentation")

SignVp(vp, signer) ==
    SignJwt(signer, [NoClaims EXCEPT !.has = "vp", !.body = vp, !.iss = signer.uri,
                                     !.sub = signer.uri, !.jti = vp.id])

VerifiesVp(jwt, now) ==
    /\ VerifiesJwt(jwt, now) /\ jwt.payload.has = "vp"
    /\ ValidVp(jwt.payload.body)
    /\ \A i \in DOMAIN jwt.payload.body.vcJwts : VerifiesVc(jwt.payload.body.vcJwts[i], now)

\* parseJwt(), which does not look at the presentation.
ParsesVp(jwt) == Parses(jwt) /\ jwt.payload.has = "vp"

-----------------------------------------------------------------------------
(* StatusListCredential *)

BITSTRING_SIZE == 16 * 1024 * 8

\* statusListIndex is a text; parseInt() of one that is no number is NaN,
\* which every comparison refuses.
NaN == 1000000
Index(text, value) == [text |-> text, value |-> value]
Entry(purpose, index) == [is |-> "entry", purpose |-> purpose, index |-> index]

\* validateStatusListEntryIndexesAreAllUnique(): unique as texts.
Listable(purpose, entries) ==
    \A i \in DOMAIN entries :
        /\ entries[i].is = "entry" /\ entries[i].purpose = purpose
        /\ \A j \in 1 .. i - 1 : entries[j].index.text # entries[i].index.text
        /\ entries[i].index.value = NaN \/ entries[i].index.value \in 0 .. BITSTRING_SIZE - 1

\* generateBitString(): byte and bit of every index; there is no byte NaN.
GenerateBitString(indexes) ==
    {<<i.value \div 8, 7 - (i.value % 8)>> : i \in {j \in indexes : j.value # NaN}}
\* getBit(): a byte that is not there reads as 0.
GetBit(bits, index) == /\ index.value \in 0 .. BITSTRING_SIZE - 1
                       /\ <<index.value \div 8, 7 - (index.value % 8)>> \in bits

\* create(): nothing but the entries is validated.
StatusList(issuer, purpose, entries, now) ==
    [context |-> <<"vc", "status">>,
     type |-> <<"VerifiableCredential", "StatusList2021Credential">>,
     id |-> "list", issuer |-> issuer, issuanceDate |-> Xml(Now(now)),
     subject |-> One("list", <<purpose, GenerateBitString({entries[i].index : i \in DOMAIN entries})>>),
     expirationDate |-> NoDate, status |-> [is |-> "none"], schema |-> ""]

\* validateCredentialInStatusList(): throws unless the purposes are the same.
Checkable(entry, list) == entry.purpose # "" /\ entry.purpose = list.subject.data[1]
InStatusList(entry, list) == GetBit(list.subject.data[2], entry.index)

-----------------------------------------------------------------------------
(* PresentationExchange *)

\* The library (PEX): a definition wants a credential of each of its types.
Wanted(jwt, type) == Contains(jwt.payload.body.type, type)
Unmet(definition, jwts) ==
    {t \in ToSet(definition.wants) : ~\E jwt \in jwts : Wanted(jwt, t)}
SelectFrom(definition, jwts) ==
    {jwt \in jwts : \E t \in ToSet(definition.wants) : Wanted(jwt, t)}

\* selectCredentials(): none unless all that is wanted is there, each once.
SelectCredentials(definition, jwts) ==
    IF Unmet(definition, jwts) # {} THEN {} ELSE SelectFrom(definition, jwts)
\* satisfiesPresentationDefinition() and createPresentationFromCredentials().
Satisfies(definition, jwts) == Unmet(definition, jwts) = {}
PresentsFor(definition, jwts) == definition.valid /\ Satisfies(definition, jwts)

-----------------------------------------------------------------------------
(* Samples and what must hold of them *)

NowSigned == 8
Signers ==
    {Signer("di", <<"", "#0">>, "ki", "EdDSA"), Signer("dj", <<"dj", "#0">>, "kj", "ES256K"),
     Signer("di", <<"di", "#0">>, "ki", "ES256"),   \* its document says otherwise
     Signer("di", <<"", "#0">>, "kj", "EdDSA"),     \* its document is out of date
     Signer("dj", <<"", "#svc">>, "kj", "ES256K"), Signer("dj", <<"", "#hex">>, "kj", "ES256K"),
     Signer("dx", <<"", "#0">>, "ki", "EdDSA")}     \* it does not resolve
Trusted == {Signer("di", <<"", "#0">>, "ki", "EdDSA"), Signer("dj", <<"dj", "#0">>, "kj", "ES256K")}

Dates   == {NoDate, Date(0, "text"), Date(6, "xml"), Date(7, "rfc3339"), Date(9, "rfc3339")}
Ends    == {NoDate, Date(1, "rfc3339"), Date(6, "xml"), Date(11, "rfc3339")}
Entries == {Entry(p, i) : p \in {"revocation", "suspension"},
                          i \in {Index("0", 0), Index("7", 7), Index("07", 7), Index("8", 8),
                                 Index("131071", 131071), Index("131072", 131072),
                                 Index("-1", -1), Index("x", NaN)}}
Options ==
    [issuer : {"di", "", "object"}, subject : {"s", ""}, type : {<<>>, <<"T">>},
     data : [is : {"object", "text"}, id : {"", "other"}, rest : {<<>>}],
     issuanceDate : Dates, expirationDate : Ends,
     status : {[is |-> "none"], [is |-> "null"], Entry("revocation", Index("7", 7))},
     schema : {"", "conforms", "no list", "unreachable"}]
PlainOptions == {o \in Options : o.subject = "s" /\ o.issuer = "di" /\ o.data.is = "object"
                                 /\ o.status = [is |-> "none"] /\ o.type = <<"T">>}

\* What may happen to a JWT on its way.
Changes == {"none", "two parts", "header", "payload", "resigned"}
Changed(jwt, change) ==
    CASE change = "two parts" -> [jwt EXCEPT !.shape = "two parts"]
      [] change = "header"    -> [jwt EXCEPT !.header.alg = ""]
      [] change = "payload"   -> [jwt EXCEPT !.payload.jti = "urn:other"]
      [] change = "resigned"  -> Jwt(jwt.header, jwt.payload, "kx")
      [] OTHER                -> jwt

\* Every credential that says when it was issued, every plain one at every
\* time, every plain one changed on its way.
Various == [o : {p \in Options : p.issuanceDate = Date(7, "rfc3339")},
            signer : Trusted, change : {"none"}, now : {8}]
Timed   == [o : PlainOptions, signer : Signers, change : {"none"}, now : 5 .. 13]
Altered == [o : {p \in PlainOptions : p.schema = ""}, signer : Trusted, change : Changes, now : {8}]
CredentialSamples == Various \cup Timed \cup Altered

\* From the second its issuance date is in to the end of the second its
\* expiration date is in; the first second of 1970 counts as no date.
Holds(o, now) ==
    /\ Dated(o.issuanceDate) => o.issuanceDate.at \div 2 <= now \div 2
    /\ ~Dated(o.issuanceDate) => NowSigned \div 2 <= now \div 2
    /\ Dated(o.expirationDate) /\ o.expirationDate.at > 1
         => now \div 2 <= o.expirationDate.at \div 2
\* A credential that was created and signed is verified exactly when its
\* issuer signed it with a key of its document, nothing was changed and it is
\* in its time.  What comes back is what was signed, its dates in whole
\* seconds, and comes back unchanged from then on.
HoldsAsIssued(s) ==
    Creates(s.o) =>
        LET vc    == Create(s.o, NowSigned)
            jwt   == Changed(SignVc(vc, s.signer), s.change)
            back  == Returned(jwt.payload)
            again == SignVc(back, s.signer)
        IN  /\ VerifiesVc(jwt, s.now) <=>
                   /\ s.signer \in Trusted /\ s.signer.uri = s.o.issuer /\ s.change = "none"
                   /\ Holds(s.o, s.now) /\ s.o.schema \in {"", "conforms"}
            /\ VerifiesVc(jwt, s.now) =>
                   /\ ParsesVc(jwt)
                   /\ VerifiesVc(again, s.now) /\ Returned(again.payload) = back
                   /\ [back EXCEPT !.issuanceDate = vc.issuanceDate,
                                   !.expirationDate = vc.expirationDate] = vc

\* A payload that anyone signed: claims and a credential that may disagree.
Body(dates, subject) == [Create([issuer |-> "di", subject |-> "s", type |-> <<>>,
    data |-> [is |-> "object", id |-> "", rest |-> <<>>], issuanceDate |-> dates[1],
    expirationDate |-> dates[2], status |-> [is |-> "none"], schema |-> ""], NowSigned)
    EXCEPT !.subject = subject]
Bodies == {Body(d, s) : d \in (Dates \ {NoDate}) \X Ends,
                        s \in {One("s", <<>>), Many(<<"s", "t">>), Many(<<>>)}}
ClaimSamples ==
    [has : {"vc", "vp", ""}, body : Bodies,
     iss : {"di", "dj", ""}, sub : {"s", "t", ""}, jti : {"urn", "urn:other", ""},
     nbf : {Absent, 0, 3, 4}, exp : {Absent, 0, 3, 5}]
\* The credential that verify() returns says what the claims say: issued by its
\* issuer again it has every claim that was there.
ClaimsCarryOver(p) ==
    LET signer == CHOOSE s \in Trusted : s.uri = "di"
        jwt    == SignJwt(signer, p)
        again  == SignVc(Returned(p), signer).payload
    IN  VerifiesVc(jwt, NowSigned) =>
            /\ p.iss = again.iss
            /\ Given(p.nbf) => again.nbf = p.nbf /\ p.nbf <= NowSigned \div 2
            /\ Given(p.exp) => again.exp = p.exp /\ p.exp >= NowSigned \div 2
            /\ p.sub # "" /\ ~p.body.subject.array => again.sub = p.sub
            /\ p.jti # "" => again.jti = p.jti

ListSamples == [entries : {<<>>} \cup {<<e>> : e \in Entries} \cup (Entries \X Entries),
                entry : Entries]
\* A status list says yes to exactly the indexes it was made from, also after it
\* was signed and verified; two entries may name one index in two ways.
ListsExactly(s) ==
    Listable("revocation", s.entries) =>
        LET signer == CHOOSE t \in Trusted : t.uri = "di"
            jwt    == SignVc(StatusList("di", "revocation", s.entries, NowSigned), signer)
            list   == Returned(jwt.payload)
        IN  /\ VerifiesVc(jwt, NowSigned)
            /\ Checkable(s.entry, list) =>
                  (InStatusList(s.entry, list) <=>
                      /\ s.entry.index.value # NaN
                      /\ \E i \in DOMAIN s.entries : s.entries[i].index.value = s.entry.index.value)

VcOf(type, end, signer) ==
    SignVc(Create([issuer |-> "di", subject |-> "s", type |-> type,
        data |-> [is |-> "object", id |-> "", rest |-> <<>>], issuanceDate |-> Date(6, "xml"),
        expirationDate |-> end, status |-> [is |-> "none"], schema |-> ""], NowSigned), signer)
VcJwts == {VcOf(t, e, s) : t \in {<<>>, <<"T">>, <<"T", "U">>}, e \in {NoDate, Date(9, "rfc3339")},
                           s \in Trusted}
PresentationSamples ==
    [o : [holder : {"dj", ""}, type : {<<>>},
          vcJwts : {<<>>} \cup {<<v>> : v \in VcJwts} \cup (VcJwts \X VcJwts),
          more : {[is |-> "none", fields |-> <<>>], [is |-> "text", fields |-> <<>>],
                  [is |-> "object", fields |-> [context |-> <<"other">>]],
                  [is |-> "object", fields |-> [vcJwts |-> <<>>, holder |-> "other"]]}],
     signer : Trusted, now : {8, 12},
     definition : [valid : BOOLEAN, wants : {<<"T">>, <<"T", "U">>}]]
\* A presentation holds as long as all it carries does, and no longer; what is
\* selected for a definition satisfies it, and a presentation of it can be made.
PresentsAsCarried(s) ==
    /\ (Presents(s.o) /\ ValidVp(Present(s.o))) =>
          LET vp == Present(s.o)  jwt == SignVp(vp, s.signer) IN
          /\ ParsesVp(jwt)
          /\ VerifiesVp(jwt, s.now) <=>
                 \A i \in DOMAIN vp.vcJwts : VerifiesVc(vp.vcJwts[i], s.now)
          /\ VerifiesVp(jwt, s.now) => VerifiesVp(jwt, NowSigned)
    /\ LET some == SelectCredentials(s.definition, ToSet(s.o.vcJwts)) IN
       some # {} => /\ Satisfies(s.definition, some)
                    /\ PresentsFor(s.definition, some) = s.definition.valid
=============================================================================
