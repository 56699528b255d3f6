------------------------------ MODULE ApiProofs ------------------------------
(* Theorems about what applications use, for all values of the constants:     *)
(* Permissions (Spec), Records (Record!Spec) and, as parts of ApiSpec, Records *)
(* with TextStreams, and the browser's worker and pages.                      *)
EXTENDS MCApi, SequenceTheorems, WellFoundedInduction, TLAPS

-----------------------------------------------------------------------------
(* Permissions: the grants a delegate's calls find and list *)

\* g lets a request of this type and protocol through.
Fits(type, protocol, g) ==
    /\ MatchScope(type, protocol, g)
    /\ AsksDelegated(type) => ScopeOf[g].delegated

\* Nodes keep what they have; so what a call has found in the cache or at the
\* delegate's node is still there, and what was revoked is still revoked.
LookupInvariant ==
    /\ LookupsRight
    /\ \A type \in Type, protocol \in Protocol :
          LET g == cache[<<type, protocol>>] IN
          g # NoGrant => g \in FetchGrants("delegate") /\ Fits(type, protocol, g)
    /\ \A c \in Caller :
          /\ call[c].at = "matching" => call[c].entries \subseteq FetchGrants("delegate")
          /\ \A g \in before[c] : IsGrantRevoked("delegate", g)

\* A set of numbers has a least one.
LEMMA LeastExists ==
    ASSUME NEW S, S \subseteq Nat, S # {}
    PROVE  \E x \in S : \A y \in S : x <= y
<1> DEFINE R == OpToRel(<, Nat)
<1>1. IsWellFoundedOn(R, Nat)
  BY NatLessThanWellFounded, Zenon
<1>2. \A x, y \in Nat : y < x => <<y, x>> \in R
  BY DEF OpToRel
<1> HIDE DEF R
<1>3. \E x \in S : \A y \in S : ~(<<y, x>> \in R)
  BY <1>1, WFMin, Zenon
<1>4. PICK x \in S : \A y \in S : ~(<<y, x>> \in R)
  BY <1>3, Zenon
<1>5. ASSUME NEW y \in S PROVE ~(y < x)
  BY <1>2, <1>4, Zenon
<1>6. \A y \in S : x <= y
  BY <1>5
<1> QED
  BY <1>6

\* Of some grants one is the oldest.
LEMMA OldestIsOne ==
    ASSUME TypeOK, NEW gs, gs \subseteq Grant, gs # {}
    PROVE  Oldest(gs) \in gs
<1> DEFINE dates == {date[g] : g \in gs}
<1>1. dates \subseteq Nat /\ dates # {}
  BY DEF TypeOK
<1>2. \E x \in dates : \A y \in dates : x <= y
  BY <1>1, LeastExists
<1>3. \E g \in gs : \A h \in gs : date[g] <= date[h]
  BY <1>2
<1> QED
  BY <1>3 DEF Oldest

\* What a lookup matches is among what it was given, and fits; it matches
\* nothing only if nothing fits.
LEMMA MatchIsFirst ==
    ASSUME TypeOK, NEW type \in Type, NEW protocol \in Protocol, NEW gs, gs \subseteq Grant
    PROVE  LET g == Match(type, protocol, gs) IN
           /\ g = NoGrant => \A h \in gs : ~Fits(type, protocol, h)
           /\ g # NoGrant => g \in gs /\ Fits(type, protocol, g)
<1> DEFINE match == {g \in gs : Fits(type, protocol, g)}
<1>1. Match(type, protocol, gs) = IF match = {} THEN NoGrant ELSE Oldest(match)
  BY DEF Match, Fits
<1>2. match # {} => Oldest(match) \in match
  BY OldestIsOne
<1>3. NoGrant \notin gs
  BY PermissionAssumption
<1> HIDE DEF match
<1> QED
  BY <1>1, <1>2, <1>3 DEF match

LEMMA IdleIsCall ==
    Idle \in [at : {"idle", "matching", "found", "refused", "listing"}, type : Type,
              protocol : Protocol, entries : SUBSET Grant, grants : SUBSET Grant]
<1>1. (CHOOSE t \in Type : TRUE) \in Type /\ (CHOOSE p \in Protocol : TRUE) \in Protocol
  BY PermissionAssumption
<1> QED
  BY <1>1 DEF Idle

\* A step that leaves the calls and the cache alone, and takes nothing from a
\* node, keeps it.
LEMMA WritingKeeps ==
    ASSUME LookupInvariant, TypeOK', UNCHANGED <<cache, call, before>>,
           \A n \in Node : on[n] \subseteq on'[n]
    PROVE  LookupInvariant'
<1>1. /\ FetchGrants("delegate") \subseteq FetchGrants("delegate")'
      /\ \A g \in Grant : IsGrantRevoked("delegate", g) => IsGrantRevoked("delegate", g)'
  BY DEF FetchGrants, IsGrantRevoked, Node
<1>2. GrantFits'
  BY <1>1 DEF LookupInvariant, LookupsRight, GrantFits, MatchScope
<1>3. RefusedRightly' /\ NoRevokedListed'
  BY DEF LookupInvariant, LookupsRight, RefusedRightly, NoRevokedListed, MatchScope
<1>4. \A type \in Type, protocol \in Protocol :
          LET g == cache[<<type, protocol>>] IN
          g # NoGrant => g \in FetchGrants("delegate")' /\ Fits(type, protocol, g)
  BY <1>1 DEF LookupInvariant
<1>5. \A c \in Caller :
          /\ call[c].at = "matching" => call[c].entries \subseteq FetchGrants("delegate")'
          /\ \A g \in before[c] : IsGrantRevoked("delegate", g)'
  BY <1>1 DEF LookupInvariant, LookupsRight, TypeOK
<1> QED
  BY <1>2, <1>3, <1>4, <1>5 DEF LookupInvariant, LookupsRight, Fits

\* Records are made, sent and stored.
LEMMA RecordsKeep ==
    ASSUME LookupInvariant, NEW m \in Message,
           \/ \E n \in Node, store \in BOOLEAN : Create(n, m, store)
           \/ \E n \in Node, signed \in BOOLEAN : Deliver(n, m, signed)
    PROVE  LookupInvariant'
<1>0. TypeOK
  BY DEF LookupInvariant, LookupsRight
<1>1. ASSUME NEW n \in Node, NEW store \in BOOLEAN, Create(n, m, store)
      PROVE  TypeOK' /\ (\A x \in Node : on[x] \subseteq on'[x])
             /\ UNCHANGED <<cache, call, before>>
  <2>1. made' = made \cup {m} /\ UNCHANGED <<cache, call, before>>
    BY <1>1 DEF Create
  <2>2. on' \in [Node -> SUBSET made'] /\ \A x \in Node : on[x] \subseteq on'[x]
    BY <1>0, <1>1, <2>1 DEF Create, Stored, TypeOK
  <2>3. date' \in [Grant -> Nat] /\ granted' \in Nat
    BY <1>0, <1>1 DEF Create, TypeOK
  <2> QED
    BY <1>0, <2>1, <2>2, <2>3 DEF TypeOK
<1>2. ASSUME NEW n \in Node, NEW signed \in BOOLEAN, Deliver(n, m, signed)
      PROVE  TypeOK' /\ (\A x \in Node : on[x] \subseteq on'[x])
             /\ UNCHANGED <<cache, call, before>>
  BY <1>0, <1>2 DEF Deliver, Stored, Exists, TypeOK
<1> QED
  BY <1>1, <1>2, WritingKeeps

\* One call of the delegate takes a step.
LEMMA CallStepKeeps ==
    ASSUME LookupInvariant, NEW c \in Caller,
           UNCHANGED <<made, date, granted, on>>,
           NEW r \in [at : {"idle", "matching", "found", "refused", "listing"},
                      type : Type, protocol : Protocol,
                      entries : SUBSET Grant, grants : SUBSET Grant],
           NEW b, b \subseteq Grant,
           call' = [call EXCEPT ![c] = r], before' = [before EXCEPT ![c] = b],
           cache' \in [Key -> Grant \cup {NoGrant}],
           \A type \in Type, protocol \in Protocol :
              LET g == cache'[<<type, protocol>>] IN
              g # NoGrant => g \in FetchGrants("delegate") /\ Fits(type, protocol, g),
           \A g \in b : IsGrantRevoked("delegate", g),
           r.at = "matching" => r.entries \subseteq FetchGrants("delegate"),
           r.at = "found" => \E g \in FetchGrants("delegate") :
                                r.grants = {g} /\ Fits(r.type, r.protocol, g),
           r.at = "refused" => \A g \in r.entries : ~Fits(r.type, r.protocol, g),
           r.at = "listing" => r.grants \cap b = {}
    PROVE  LookupInvariant'
<1>0. TypeOK
  BY DEF LookupInvariant, LookupsRight
<1>1. /\ \A d \in Caller : d # c => call'[d] = call[d] /\ before'[d] = before[d]
      /\ call'[c] = r /\ before'[c] = b
      /\ call' \in [Caller -> [at : {"idle", "matching", "found", "refused", "listing"},
                               type : Type, protocol : Protocol,
                               entries : SUBSET Grant, grants : SUBSET Grant]]
      /\ before' \in [Caller -> SUBSET Grant]
  BY <1>0 DEF TypeOK
<1>2. TypeOK'
  BY <1>0, <1>1 DEF TypeOK
<1>3. FetchGrants("delegate")' = FetchGrants("delegate")
  BY DEF FetchGrants
<1>4. GrantFits'
  BY <1>1, <1>3 DEF LookupInvariant, LookupsRight, GrantFits, Fits
<1>5. RefusedRightly'
  BY <1>1 DEF LookupInvariant, LookupsRight, RefusedRightly, Fits
<1>6. NoRevokedListed'
  BY <1>1 DEF LookupInvariant, LookupsRight, NoRevokedListed
<1>7. \A d \in Caller :
          /\ call'[d].at = "matching" => call'[d].entries \subseteq FetchGrants("delegate")
          /\ \A g \in before'[d] : IsGrantRevoked("delegate", g)
  BY <1>1 DEF LookupInvariant
<1> QED
  BY <1>2, <1>3, <1>4, <1>5, <1>6, <1>7
     DEF LookupInvariant, LookupsRight, Fits, IsGrantRevoked

LEMMA LookupsKeep ==
    ASSUME LookupInvariant, NEW c \in Caller,
           \/ \E type \in Type, protocol \in Protocol, cached \in BOOLEAN :
                 GetPermission(c, type, protocol, cached)
           \/ MatchGrant(c) \/ QueryGrants(c) \/ CheckRevoked(c) \/ Return(c)
    PROVE  LookupInvariant'
<1> DEFINE Calls == [at : {"idle", "matching", "found", "refused", "listing"},
                     type : Type, protocol : Protocol,
                     entries : SUBSET Grant, grants : SUBSET Grant]
<1>0. /\ TypeOK /\ call[c] \in Calls /\ before[c] \subseteq Grant
      /\ before' = before => before' = [before EXCEPT ![c] = before[c]]
      /\ \A g \in before[c] : IsGrantRevoked("delegate", g)
      /\ FetchGrants("delegate") \subseteq Grant
  BY DEF LookupInvariant, LookupsRight, TypeOK, FetchGrants
<1>1. \A type \in Type, protocol \in Protocol :
          LET g == cache[<<type, protocol>>] IN
          g # NoGrant => g \in FetchGrants("delegate") /\ Fits(type, protocol, g)
  BY DEF LookupInvariant
<1>2. ASSUME NEW type \in Type, NEW protocol \in Protocol, NEW cached \in BOOLEAN,
             GetPermission(c, type, protocol, cached)
      PROVE  LookupInvariant'
  <2> DEFINE known == cache[<<type, protocol>>]
             asked == [Idle EXCEPT !.type = type, !.protocol = protocol]
  <2>1. /\ UNCHANGED <<made, date, granted, on, cache, before>>
        /\ \/ known # NoGrant
              /\ call' = [call EXCEPT ![c] = [asked EXCEPT !.at = "found", !.grants = {known}]]
           \/ call' = [call EXCEPT ![c] = [asked EXCEPT !.at = "matching",
                                                        !.entries = FetchGrants("delegate")]]
    BY <1>2 DEF GetPermission, CacheKey
  <2>2. asked \in Calls /\ asked.type = type /\ asked.protocol = protocol
    BY IdleIsCall
  <2>3. cache' \in [Key -> Grant \cup {NoGrant}]
    BY <1>0, <2>1 DEF TypeOK
  <2>4. CASE call' = [call EXCEPT ![c] = [asked EXCEPT !.at = "matching",
                                                       !.entries = FetchGrants("delegate")]]
    <3> DEFINE r == [asked EXCEPT !.at = "matching", !.entries = FetchGrants("delegate")]
    <3>1. r \in Calls /\ r.at = "matching" /\ r.entries = FetchGrants("delegate")
      BY <1>0, <2>2
    <3> HIDE DEF r
    <3> QED
      BY <1>0, <1>1, <2>1, <2>3, <2>4, <3>1, CallStepKeeps DEF r
  <2>5. CASE known # NoGrant
             /\ call' = [call EXCEPT ![c] = [asked EXCEPT !.at = "found", !.grants = {known}]]
    <3> DEFINE r == [asked EXCEPT !.at = "found", !.grants = {known}]
    <3>1. known \in FetchGrants("delegate") /\ Fits(type, protocol, known)
      BY <1>1, <2>5
    <3>2. /\ r \in Calls /\ r.at = "found" /\ r.grants = {known}
          /\ r.type = type /\ r.protocol = protocol
      BY <1>0, <2>2, <3>1
    <3> HIDE DEF r, known
    <3> QED
      BY <1>0, <1>1, <2>1, <2>3, <2>5, <3>1, <3>2, CallStepKeeps DEF r
  <2> QED
    BY <2>1, <2>4, <2>5
<1>3. CASE MatchGrant(c)
  <2> DEFINE type == call[c].type
             protocol == call[c].protocol
             g == Match(type, protocol, call[c].entries)
  <2>1. /\ UNCHANGED <<made, date, granted, on, before>> /\ call[c].at = "matching"
        /\ \/ /\ g = NoGrant /\ UNCHANGED cache
              /\ call' = [call EXCEPT ![c].at = "refused"]
           \/ /\ g # NoGrant
              /\ call' = [call EXCEPT ![c].at = "found", ![c].grants = {g}]
              /\ cache' = [cache EXCEPT ![<<type, protocol>>] = g]
    BY <1>3 DEF MatchGrant, CacheKey
  <2>2. /\ type \in Type /\ protocol \in Protocol /\ call[c].entries \subseteq Grant
        /\ call[c].entries \subseteq FetchGrants("delegate")
    BY <1>0, <2>1 DEF LookupInvariant
  <2>3. /\ g = NoGrant => \A h \in call[c].entries : ~Fits(type, protocol, h)
        /\ g # NoGrant => g \in call[c].entries /\ Fits(type, protocol, g)
    BY <1>0, <2>2, MatchIsFirst
  <2>4. CASE g = NoGrant
    <3> DEFINE r == [call[c] EXCEPT !.at = "refused"]
    <3>1. /\ r \in Calls /\ r.at = "refused" /\ r.entries = call[c].entries
          /\ r.type = type /\ r.protocol = protocol
          /\ call' = [call EXCEPT ![c] = r] /\ cache' = cache
      BY <1>0, <2>1, <2>4
    <3>2. cache' \in [Key -> Grant \cup {NoGrant}]
      BY <1>0, <3>1 DEF TypeOK
    <3>3. \A h \in r.entries : ~Fits(r.type, r.protocol, h)
      BY <2>3, <2>4, <3>1
    <3> HIDE DEF r, g
    <3> QED
      BY <1>0, <1>1, <2>1, <3>1, <3>2, <3>3, CallStepKeeps
  <2>5. CASE g # NoGrant
    <3> DEFINE r == [call[c] EXCEPT !.at = "found", !.grants = {g}]
    <3>1. g \in FetchGrants("delegate") /\ g \in Grant /\ Fits(type, protocol, g)
      BY <1>0, <2>2, <2>3, <2>5
    <3>2. /\ r \in Calls /\ r.at = "found" /\ r.grants = {g}
          /\ r.type = type /\ r.protocol = protocol
          /\ call' = [call EXCEPT ![c] = r]
      BY <1>0, <2>1, <2>5, <3>1
    <3>3. /\ cache' \in [Key -> Grant \cup {NoGrant}]
          /\ \A t \in Type, p \in Protocol :
                cache'[<<t, p>>] = IF t = type /\ p = protocol THEN g ELSE cache[<<t, p>>]
      <4>1. <<type, protocol>> \in Key
        BY <2>2 DEF Key
      <4>2. cache' = [cache EXCEPT ![<<type, protocol>>] = g]
        BY <2>1, <2>5
      <4>3. cache \in [Key -> Grant \cup {NoGrant}]
        BY <1>0 DEF TypeOK
      <4>4. \A t \in Type, p \in Protocol : <<t, p>> \in Key
        BY DEF Key
      <4> HIDE DEF g
      <4> QED
        BY <3>1, <4>1, <4>2, <4>3, <4>4
    <3>4. \A t \in Type, p \in Protocol :
            LET h == cache'[<<t, p>>] IN
            h # NoGrant => h \in FetchGrants("delegate") /\ Fits(t, p, h)
      BY <1>1, <3>1, <3>3
    <3> HIDE DEF r, g
    <3> QED
      BY <1>0, <2>1, <3>1, <3>2, <3>3, <3>4, CallStepKeeps
  <2> QED
    BY <2>4, <2>5
<1>4. CASE QueryGrants(c)
  <2> DEFINE r == [Idle EXCEPT !.at = "listing", !.entries = FetchGrants("delegate")]
             b == {g \in Grant : IsGrantRevoked("delegate", g)}
  <2>1. /\ r \in Calls /\ r.at = "listing" /\ r.grants = {}
        /\ b \subseteq Grant /\ \A g \in b : IsGrantRevoked("delegate", g)
    <3>1. Idle.grants = {}
      BY DEF Idle
    <3> QED
      BY <1>0, <3>1, IdleIsCall
  <2>2. /\ UNCHANGED <<made, date, granted, on, cache>>
        /\ call' = [call EXCEPT ![c] = r] /\ before' = [before EXCEPT ![c] = b]
        /\ cache' \in [Key -> Grant \cup {NoGrant}]
    BY <1>0, <1>4 DEF QueryGrants, TypeOK
  <2> HIDE DEF r, b
  <2> QED
    BY <1>1, <2>1, <2>2, CallStepKeeps
<1>5. CASE CheckRevoked(c)
  <2> DEFINE g == Oldest(call[c].entries)
             r == [call[c] EXCEPT !.entries = @ \ {g},
                                  !.grants = IF IsGrantRevoked("delegate", g) THEN @
                                             ELSE @ \cup {g}]
  <2>1. /\ UNCHANGED <<made, date, granted, on, cache, before>>
        /\ call[c].at = "listing" /\ call[c].entries # {}
        /\ call' = [call EXCEPT ![c] = r]
        /\ cache' \in [Key -> Grant \cup {NoGrant}]
    BY <1>0, <1>5 DEF CheckRevoked, TypeOK
  <2>2. g \in call[c].entries
    BY <1>0, <2>1, OldestIsOne
  <2>3. call[c].grants \cap before[c] = {}
    BY <2>1 DEF LookupInvariant, LookupsRight, NoRevokedListed
  <2>4. r \in Calls /\ r.at = "listing" /\ r.grants \cap before[c] = {}
    <3>1. call[c] \in Calls /\ g \in Grant
      BY <1>0, <2>2
    <3>2. CASE IsGrantRevoked("delegate", g)
      BY <2>1, <2>3, <3>1, <3>2
    <3>3. CASE ~IsGrantRevoked("delegate", g)
      <4>1. g \notin before[c]
        BY <1>0, <3>3
      <4> QED
        BY <2>1, <2>3, <3>1, <3>3, <4>1
    <3> QED
      BY <3>2, <3>3
  <2> HIDE DEF r
  <2> QED
    BY <1>0, <1>1, <2>1, <2>4, CallStepKeeps
<1>6. CASE Return(c)
  <2>1. /\ UNCHANGED <<made, date, granted, on, cache>>
        /\ call' = [call EXCEPT ![c] = Idle] /\ before' = [before EXCEPT ![c] = {}]
        /\ cache' \in [Key -> Grant \cup {NoGrant}] /\ Idle.at = "idle"
    BY <1>0, <1>6 DEF Return, TypeOK, Idle
  <2> QED
    BY <1>1, <2>1, IdleIsCall, CallStepKeeps
<1> QED
  BY <1>2, <1>3, <1>4, <1>5, <1>6

\* Entries of the cache expire, and clear() drops them all.
LEMMA ForgettingKeeps ==
    ASSUME LookupInvariant, Clear \/ \E key \in Key : Expire(key)
    PROVE  LookupInvariant'
<1>1. /\ UNCHANGED <<made, date, granted, on, call, before>>
      /\ cache' \in [Key -> Grant \cup {NoGrant}]
      /\ \A k \in Key : cache'[k] \in {cache[k], NoGrant}
  BY DEF Clear, Expire, LookupInvariant, LookupsRight, TypeOK
<1>2. \A type \in Type, protocol \in Protocol :
          cache'[<<type, protocol>>] \in {cache[<<type, protocol>>], NoGrant}
  BY <1>1 DEF Key
<1> QED
  BY <1>1, <1>2 DEF LookupInvariant, LookupsRight, TypeOK, GrantFits, RefusedRightly,
     NoRevokedListed, FetchGrants, IsGrantRevoked, MatchScope, Fits

\* However requests, grants and revocations travel and lookups overlap, a lookup
\* is answered with a grant at the delegate's node that fits the request, or
\* refused because none does, and a listing that leaves out what is revoked
\* does; the type invariant is part of it.
THEOREM LookupsRightHolds == Spec => []LookupsRight
<1>1. Init => LookupInvariant
  <2> SUFFICES ASSUME Init PROVE LookupInvariant
    OBVIOUS
  <2>1. \A c \in Caller : call[c] = Idle /\ Idle.at = "idle" /\ before[c] = {}
    BY DEF Init, Idle
  <2>2. \A t \in Type, p \in Protocol : cache[<<t, p>>] = NoGrant
    BY DEF Init, Key
  <2>3. TypeOK
    BY IdleIsCall DEF Init, TypeOK, Node
  <2> QED
    BY <2>1, <2>2, <2>3
       DEF LookupInvariant, LookupsRight, GrantFits, RefusedRightly, NoRevokedListed
<1>2. LookupInvariant /\ [Next]_vars => LookupInvariant'
  <2> SUFFICES ASSUME LookupInvariant, [Next]_vars PROVE LookupInvariant'
    OBVIOUS
  <2>1. CASE UNCHANGED vars
    BY <2>1 DEF vars, LookupInvariant, LookupsRight, TypeOK, GrantFits, RefusedRightly,
       NoRevokedListed, FetchGrants, IsGrantRevoked, MatchScope, Fits
  <2>2. ASSUME NEW g \in Grant PROVE \A k \in {"request", "grant", "revocation"} :
                                        Msg(k, g) \in Message
    BY DEF Msg, Message
  <2>3. ASSUME NEW g \in Grant, NEW store \in BOOLEAN,
               \/ CreateRequest(g, store) \/ GrantPermission(g, store)
               \/ GrantRequest(g, store) \/ Revoke(g, store)
        PROVE  LookupInvariant'
    <3>1. \E m \in Message, n \in Node : Create(n, m, store)
      BY <2>2, <2>3 DEF CreateRequest, GrantPermission, GrantRequest, Revoke,
         CreateGrant, CreateRevocation, Node
    <3> QED
      BY <3>1, RecordsKeep
  <2>4. ASSUME NEW g \in Grant, NEW n \in Node,
               \/ SendRequest(g, n) \/ StoreRequest(g, n)
               \/ SendGrant(g, n) \/ ImportGrant(g, n) \/ SendRevocation(g, n)
               \/ \E import \in BOOLEAN :
                     StoreGrant(g, n, import) \/ StoreRevocation(g, n, import)
        PROVE  LookupInvariant'
    <3>1. \E m \in Message, signed \in BOOLEAN : Deliver(n, m, signed)
      BY <2>2, <2>4 DEF SendRequest, StoreRequest, SendGrant, ImportGrant, SendRevocation,
         StoreGrant, StoreRevocation
    <3> QED
      BY <3>1, RecordsKeep
  <2> QED
    BY <2>1, <2>3, <2>4, LookupsKeep, ForgettingKeeps DEF Next
<1>3. LookupInvariant => LookupsRight
  BY DEF LookupInvariant
<1> QED
  BY <1>1, <1>2, <1>3, PTL DEF Spec

-----------------------------------------------------------------------------
(* Records: the objects of a record, against the two nodes *)

Objects == [at : {"none", "idle", "process", "delete", "send"},
            msg : Record!Message \cup {Record!NoMessage}, author : Record!Who,
            data : 0..MaxTime, origin : Record!Node, initial : BOOLEAN,
            initialOwned : BOOLEAN, initialStored : BOOLEAN, initialSigned : BOOLEAN,
            store : BOOLEAN, sign : BOOLEAN]

Nodes == [Record!Node -> [initial : BOOLEAN,
                          latest : Record!Message \cup {Record!NoMessage}]]

\* A node that has a message has the initial write, and somebody has made it.
NodesHold == \A n \in Record!Node :
    node[n].latest # Record!NoMessage => node[n].initial /\ clock >= 1

\* An object r knows its initial write and is right about it, which the local node
\* has or not; a delete of it has the initial write to hand, and an import that got
\* so far has stored it, unless the node refuses for reasons of its own.
ObjectHolds(r, stored) ==
    /\ r.msg.time > 1 => r.initial
    /\ r.initialStored => stored
    /\ r.initialSigned => r.initialOwned /\ r.initial
    /\ r.at # "none" => r.msg # Record!NoMessage
    /\ r.at = "delete" => r.initial
    /\ /\ "local" \notin MayRefuse
       /\ r.at = "process" /\ r.store /\ r.sign /\ r.msg.time > 1 /\ r.msg.kind = "write"
       => stored

RecordInvariant ==
    /\ Record!TypeOK /\ NodesHold
    /\ \A o \in Object :
          /\ ObjectHolds(object[o], node["local"].initial)
          /\ object[o].at # "none" => clock >= 1
    /\ Record!Backed

\* A step in which the nodes lose nothing: the local node keeps the initial
\* write, and its latest message is no older than before.
NodesGrow ==
    /\ node' \in Nodes /\ NodesHold'
    /\ node["local"].initial => node'["local"].initial
    /\ node["local"].latest.time <= node'["local"].latest.time

LEMMA RecordTypes ==
    ASSUME RecordInvariant
    PROVE  /\ object \in [Object -> Objects] /\ node \in Nodes
           /\ clock \in 0..MaxTime /\ creator \in Record!Who
           /\ MaxTime \in Nat /\ MaxTime >= 1
           /\ "local" \in Record!Node /\ "remote" \in Record!Node
BY RecordAssumption DEF RecordInvariant, Record!TypeOK, Objects, Nodes, Record!Node

LEMMA MessageTimes ==
    \A m \in Record!Message \cup {Record!NoMessage} :
        /\ m.time \in 0..MaxTime /\ m.data \in 0..MaxTime
        /\ m # Record!NoMessage => m.time >= 1
        /\ m.kind = "delete" => m.time >= 2
        /\ m.kind = "write" => m.data >= 1
        /\ m = Record!NoMessage => m.time = 0 /\ m.kind = "none"
        /\ m # Record!NoMessage => m \in Record!Message /\ m.kind \in {"write", "delete"}
<1> SUFFICES ASSUME NEW m \in Record!Message \cup {Record!NoMessage}
             PROVE  /\ m.time \in 0..MaxTime /\ m.data \in 0..MaxTime
                    /\ m # Record!NoMessage => m.time >= 1
                    /\ m.kind = "delete" => m.time >= 2
                    /\ m.kind = "write" => m.data >= 1
                    /\ m = Record!NoMessage => m.time = 0 /\ m.kind = "none"
                    /\ m # Record!NoMessage =>
                          m \in Record!Message /\ m.kind \in {"write", "delete"}
  OBVIOUS
<1>0. MaxTime \in Nat
  BY RecordAssumption
<1>1. CASE m = Record!NoMessage
  BY <1>0, <1>1 DEF Record!NoMessage
<1>2. CASE m \in Record!Message /\ m # Record!NoMessage
  <2>1. \/ m.kind = "write" /\ m.time \in 1..MaxTime /\ m.data \in 1..MaxTime
        \/ m.kind = "delete" /\ m.time \in 2..MaxTime /\ m.data = 0
    BY <1>2 DEF Record!Message
  <2> QED
    BY <1>0, <1>2, <2>1
<1> QED
  BY <1>1, <1>2

\* A node that takes a message keeps what it has, or has something newer.
LEMMA ProcessedGrows ==
    ASSUME RecordInvariant, NEW n \in Record!Node, NEW m \in Record!Message,
           NEW data \in 0..MaxTime, NEW store \in BOOLEAN, NEW answer,
           Record!Processed(n, m, data, store, answer), clock' >= 1
    PROVE  /\ NodesGrow
           /\ store /\ answer = "ok" /\ n = "local" =>
                 /\ node'["local"].initial
                 /\ m.time > 1 \/ data # 0 => node'["local"].latest = m
<1>0. /\ node \in Nodes /\ "local" \in Record!Node
      /\ \A x \in Record!Node :
            /\ node[x].latest \in Record!Message \cup {Record!NoMessage}
            /\ node[x].latest.time \in 0..MaxTime
            /\ node[x].latest # Record!NoMessage => node[x].initial
      /\ m.time \in 1..MaxTime
  <2>1. m # Record!NoMessage
    <3>1. m.kind = "write" \/ m.kind = "delete"
      BY DEF Record!Message
    <3> QED
      BY <3>1 DEF Record!NoMessage
  <2>2. m.time \in 1..MaxTime
    BY <2>1, MessageTimes, RecordAssumption
  <2>3. \A x \in Record!Node : node[x].latest \in Record!Message \cup {Record!NoMessage}
    BY RecordTypes DEF Nodes
  <2> QED
    BY <2>2, <2>3, RecordTypes, MessageTimes DEF RecordInvariant, NodesHold
<1>1. CASE UNCHANGED node /\ ~(store /\ answer = "ok")
  BY <1>0, <1>1 DEF NodesGrow, NodesHold
<1>2. CASE store /\ answer = "ok" /\ node' = Record!With(n, m, data)
  <2>1. Record!Verdict(n, m, data) = "ok"
    BY <1>2 DEF Record!Processed, Record!Answers
  <2> DEFINE has == node[n].latest
             l == IF m.time = 1 /\ data = 0 THEN has ELSE m
  <2>2. node' = [node EXCEPT ![n] = [initial |-> TRUE, latest |-> l]]
    BY <1>2 DEF Record!With
  <2>3. has.time <= l.time
    <3>1. CASE m.time = 1
      <4>1. has = Record!NoMessage
        BY <2>1, <3>1 DEF Record!Verdict
      <4> QED
        BY <1>0, <4>1, MessageTimes
    <3>2. CASE m.time # 1
      <4>1. ~(m.time <= has.time)
        BY <2>1, <3>2 DEF Record!Verdict
      <4> QED
        BY <1>0, <3>2, <4>1
    <3> QED
      BY <3>1, <3>2
  <2>4. l \in Record!Message \cup {Record!NoMessage}
    BY <1>0
  <2>5. /\ node' \in Nodes
        /\ node'[n].initial /\ node'[n].latest = l
        /\ \A x \in Record!Node : x # n => node'[x] = node[x]
    BY <1>0, <2>2, <2>4 DEF Nodes
  <2>6. m.time > 1 \/ data # 0 => l = m
    BY <1>0
  <2> HIDE DEF l
  <2> QED
    BY <1>0, <2>3, <2>5, <2>6 DEF NodesGrow, NodesHold
<1> QED
  BY <1>1, <1>2 DEF Record!Processed

\* A step of one object.
LEMMA ObjectStepKeeps ==
    ASSUME RecordInvariant, NEW o \in Object, NEW r \in Objects, NodesGrow,
           object' = [object EXCEPT ![o] = r],
           clock' \in clock..MaxTime, clock' >= 1, creator' = creator,
           sendCache' \subseteq Record!Node, draft' \ {o} = draft \ {o}, draft' \subseteq Object,
           ObjectHolds(r, node'["local"].initial),
           o \notin draft' => r.msg.time <= node'["local"].latest.time
    PROVE  RecordInvariant'
<1>1. /\ object \in [Object -> Objects] /\ clock \in 0..MaxTime /\ creator \in Record!Who
      /\ MaxTime \in Nat /\ "local" \in Record!Node /\ node \in Nodes
  BY RecordTypes
<1>2. /\ object'[o] = r /\ object' \in [Object -> Objects]
      /\ \A b \in Object : b # o => object'[b] = object[b]
  BY <1>1
<1>3. clock' \in 0..MaxTime /\ clock' >= clock
  BY <1>1
<1>4. Record!TypeOK'
  BY <1>1, <1>2, <1>3 DEF Record!TypeOK, Objects, Nodes, NodesGrow
<1>5. \A b \in Object : ObjectHolds(object'[b], node'["local"].initial)
  <2> SUFFICES ASSUME NEW b \in Object PROVE ObjectHolds(object'[b], node'["local"].initial)
    OBVIOUS
  <2>1. CASE b = o
    BY <1>2, <2>1
  <2>2. CASE b # o
    BY <1>2, <2>2 DEF RecordInvariant, ObjectHolds, NodesGrow
  <2> QED
    BY <2>1, <2>2
<1>6. Record!Backed'
  <2> SUFFICES ASSUME NEW b \in Object \ draft'
               PROVE  object'[b].msg.time <= node'["local"].latest.time
    BY DEF Record!Backed
  <2>1. CASE b = o
    BY <1>2, <2>1
  <2>2. CASE b # o
    <3>1. object[b].msg.time <= node["local"].latest.time /\ object'[b] = object[b]
      BY <1>2, <2>2 DEF RecordInvariant, Record!Backed
    <3>2. /\ object[b].msg.time \in Nat
          /\ node["local"].latest.time \in Nat /\ node'["local"].latest.time \in Nat
      BY <1>1, MessageTimes DEF Objects, Nodes, NodesGrow
    <3> QED
      BY <3>1, <3>2 DEF NodesGrow
  <2> QED
    BY <2>1, <2>2
<1> QED
  BY <1>4, <1>5, <1>6 DEF RecordInvariant, NodesGrow

LEMMA NodesSame ==
    ASSUME RecordInvariant, UNCHANGED node, clock' \in clock..MaxTime
    PROVE  NodesGrow
<1>1. /\ node \in Nodes /\ clock \in 0..MaxTime /\ MaxTime \in Nat
      /\ node["local"].latest.time \in Nat
  BY RecordTypes, MessageTimes DEF Nodes
<1> QED
  BY <1>1 DEF NodesGrow, NodesHold, RecordInvariant

\* A step of a node alone, or of the application's memory.
LEMMA NodeStepKeeps ==
    ASSUME RecordInvariant, NodesGrow, UNCHANGED <<object, creator>>,
           clock' \in clock..MaxTime, sendCache' \subseteq Record!Node,
           draft \subseteq draft', draft' \subseteq Object
    PROVE  RecordInvariant'
<1>1. /\ object \in [Object -> Objects] /\ clock \in 0..MaxTime /\ MaxTime \in Nat
      /\ node \in Nodes /\ "local" \in Record!Node
  BY RecordTypes
<1>2. Record!TypeOK'
  BY <1>1 DEF RecordInvariant, Record!TypeOK, Nodes, NodesGrow
<1>3. \A o \in Object : /\ ObjectHolds(object[o], node'["local"].initial)
                        /\ object[o].at # "none" => clock' >= 1
  BY <1>1 DEF RecordInvariant, ObjectHolds, NodesGrow
<1>4. /\ \A o \in Object : object[o].msg.time \in Nat
      /\ node["local"].latest.time \in Nat /\ node'["local"].latest.time \in Nat
  BY <1>1, MessageTimes DEF Objects, Nodes, NodesGrow
<1>5. \A o \in Object \ draft : object[o].msg.time <= node'["local"].latest.time
  BY <1>4 DEF RecordInvariant, Record!Backed, NodesGrow
<1>6. Record!Backed'
  BY <1>5 DEF Record!Backed
<1> QED
  BY <1>2, <1>3, <1>6 DEF RecordInvariant, NodesGrow

LEMMA NoObjectType == /\ Record!NoObject \in Objects
                      /\ Record!NoObject.msg = Record!NoMessage /\ Record!NoMessage.time = 0
<1>1. MaxTime \in Nat \ {0}
  BY RecordAssumption
<1> QED
  BY <1>1 DEF Objects, Record!NoObject, Record!NoMessage, Record!Who, Record!Node

\* What the invariant says of one object that the application holds.
LEMMA ObjectFacts ==
    ASSUME RecordInvariant, NEW o \in Object
    PROVE  /\ object[o] \in Objects /\ object[o].msg.time \in 0..MaxTime
           /\ ObjectHolds(object[o], node["local"].initial)
           /\ object[o].at # "none" =>
                 /\ clock >= 1
                 /\ object[o].msg \in Record!Message
                 /\ object[o].msg.kind \in {"write", "delete"} /\ object[o].msg.time >= 1
           /\ o \notin draft => object[o].msg.time <= node["local"].latest.time
           /\ Record!DataOf(o) \in 0..MaxTime
           /\ draft \subseteq Object /\ sendCache \subseteq Record!Node
           /\ clock \in 0..MaxTime /\ MaxTime \in Nat /\ creator \in Record!Who
           /\ "local" \in Record!Node /\ "remote" \in Record!Node
<1>1. /\ object[o] \in Objects
      /\ draft \subseteq Object /\ sendCache \subseteq Record!Node
      /\ clock \in 0..MaxTime /\ MaxTime \in Nat /\ creator \in Record!Who
      /\ "local" \in Record!Node /\ "remote" \in Record!Node
  BY RecordTypes DEF RecordInvariant, Record!TypeOK
<1>2. /\ ObjectHolds(object[o], node["local"].initial)
      /\ object[o].at # "none" => clock >= 1 /\ object[o].msg # Record!NoMessage
      /\ o \notin draft => object[o].msg.time <= node["local"].latest.time
  BY DEF RecordInvariant, ObjectHolds, Record!Backed
<1>3. object[o].msg \in Record!Message \cup {Record!NoMessage}
  BY <1>1 DEF Objects
<1>4. Record!DataOf(o) \in 0..MaxTime
  <2>1. object[o].data \in 0..MaxTime /\ object[o].origin \in Record!Node
    BY <1>1 DEF Objects
  <2>2. node[object[o].origin].latest.data \in 0..MaxTime
    BY <2>1, RecordTypes, MessageTimes DEF Nodes
  <2> QED
    BY <1>1, <2>1, <2>2 DEF Record!DataOf, Record!ReadRecordData
<1> QED
  BY <1>1, <1>2, <1>3, <1>4, MessageTimes

\* A step after which an object is what it was, at another step of its calls.
LEMMA SameObjectKeeps ==
    ASSUME RecordInvariant, NEW o \in Object, NEW r \in Objects, NodesGrow,
           object[o].at # "none", object' = [object EXCEPT ![o] = r],
           r.at \in {"idle", "send"}, r.msg = object[o].msg, r.initial = object[o].initial,
           r.initialStored = object[o].initialStored,
           r.initialSigned = object[o].initialSigned,
           r.initialOwned = object[o].initialOwned,
           clock' \in clock..MaxTime, creator' = creator,
           sendCache' \subseteq Record!Node, draft' = draft
    PROVE  RecordInvariant'
<1>1. ObjectHolds(r, node'["local"].initial)
  BY ObjectFacts DEF ObjectHolds, NodesGrow
<1>2. /\ node["local"].latest.time \in Nat /\ node'["local"].latest.time \in Nat
      /\ object[o].msg.time \in Nat /\ clock' >= 1
  BY RecordTypes, MessageTimes, ObjectFacts DEF Nodes, NodesGrow
<1>3. o \notin draft' => r.msg.time <= node'["local"].latest.time
  BY <1>2, ObjectFacts DEF NodesGrow
<1>4. draft' \ {o} = draft \ {o} /\ draft' \subseteq Object
  BY ObjectFacts
<1> QED
  BY <1>1, <1>2, <1>3, <1>4, ObjectStepKeeps

\* Objects are made of what a node has, and dropped.
LEMMA GetKeeps ==
    ASSUME RecordInvariant, NEW o \in Object, NEW n \in Record!Node, NEW data \in 0..MaxTime,
           node[n].latest # Record!NoMessage, Record!Get(o, n, data)
    PROVE  RecordInvariant'
<1> DEFINE m == node[n].latest
<1>0. PICK later \in BOOLEAN : later = (m.time > 1)
  <2>1. CASE m.time > 1
    <3>1. TRUE = (m.time > 1)
      BY <2>1
    <3> QED
      BY <3>1
  <2>2. CASE ~(m.time > 1)
    <3>1. FALSE = (m.time > 1)
      BY <2>2
    <3> QED
      BY <3>1
  <2> QED
    BY <2>1, <2>2
<1> DEFINE r == [Record!NoObject EXCEPT !.at = "idle", !.msg = m, !.author = m.by,
                                        !.data = data, !.origin = n, !.initial = later]
<1>1. /\ object' = [object EXCEPT ![o] = r] /\ draft' = draft \cup {o}
      /\ UNCHANGED <<creator, clock, node, sendCache>>
  BY <1>0 DEF Record!Get
<1>2. m \in Record!Message /\ m.by \in Record!Who
  BY RecordTypes, MessageTimes DEF Nodes, Record!Message
<1>3. r \in Objects
  BY <1>2, NoObjectType DEF Objects
<1>4. /\ r.at = "idle" /\ r.msg = m /\ (r.initial <=> m.time > 1)
      /\ ~r.initialStored /\ ~r.initialSigned
  BY <1>0 DEF Record!NoObject
<1>5. clock \in clock..MaxTime /\ clock >= 1
  BY RecordTypes DEF RecordInvariant, NodesHold
<1> HIDE DEF r
<1>6. ObjectHolds(r, node'["local"].initial)
  BY <1>4 DEF ObjectHolds
<1>7. draft \subseteq Object /\ sendCache \subseteq Record!Node
  BY DEF RecordInvariant, Record!TypeOK
<1>8. NodesGrow
  BY <1>1, <1>5, NodesSame
<1>9. /\ clock' \in clock..MaxTime /\ clock' >= 1 /\ creator' = creator
      /\ sendCache' \subseteq Record!Node /\ draft' \ {o} = draft \ {o}
      /\ draft' \subseteq Object /\ o \in draft'
  BY <1>1, <1>5, <1>7
<1> QED
  BY <1>1, <1>3, <1>6, <1>8, <1>9, ObjectStepKeeps

LEMMA DropKeeps ==
    ASSUME RecordInvariant, NEW o \in Object, Record!Drop(o)
    PROVE  RecordInvariant'
<1> DEFINE r == Record!NoObject
<1>1. /\ object' = [object EXCEPT ![o] = r] /\ draft' = draft \ {o}
      /\ UNCHANGED <<creator, clock, node, sendCache>> /\ object[o].at # "none"
  BY DEF Record!Drop, Record!Idle
<1>2. /\ r \in Objects /\ r.msg.time = 0
      /\ r.at = "none" /\ ~r.initialStored /\ ~r.initialSigned
  BY NoObjectType DEF Record!NoObject
<1> HIDE DEF r
<1>3. ObjectHolds(r, node'["local"].initial)
  BY <1>2 DEF ObjectHolds
<1>4. /\ clock \in clock..MaxTime /\ clock >= 1
      /\ draft \subseteq Object /\ sendCache \subseteq Record!Node
      /\ node["local"].latest.time \in Nat
  BY <1>1, RecordTypes, MessageTimes DEF RecordInvariant, Record!TypeOK, Nodes
<1>5. NodesGrow
  BY <1>1, <1>4, NodesSame
<1>6. /\ clock' \in clock..MaxTime /\ clock' >= 1 /\ creator' = creator
      /\ sendCache' \subseteq Record!Node /\ draft' \ {o} = draft \ {o} /\ draft' \subseteq Object
      /\ r.msg.time <= node'["local"].latest.time
  BY <1>1, <1>2, <1>4
<1> QED
  BY <1>1, <1>2, <1>3, <1>5, <1>6, ObjectStepKeeps

LEMMA WriteKeeps ==
    ASSUME RecordInvariant, NEW o \in Object, NEW store \in BOOLEAN, Record!Write(o, store)
    PROVE  RecordInvariant'
<1> DEFINE m == [kind |-> "write", time |-> 1, by |-> "me", owned |-> FALSE, data |-> 1]
           r == [Record!NoObject EXCEPT !.at = "idle", !.msg = m, !.data = 1]
<1>1. m \in Record!Message /\ 1 \in 0..MaxTime
  BY RecordTypes DEF Record!Message, Record!Who
<1>2. PICK answer \in Record!Answer :
          /\ Record!Processed("local", m, 1, store, answer)
          /\ object' = IF answer # "ok" THEN object ELSE [object EXCEPT ![o] = r]
          /\ draft' = IF store THEN draft ELSE draft \cup {o}
  BY DEF Record!Write
<1>3. /\ clock' \in clock..MaxTime /\ clock' >= 1 /\ UNCHANGED <<creator, sendCache>>
      /\ sendCache' \subseteq Record!Node /\ draft \subseteq Object
  BY RecordTypes DEF Record!Write, RecordInvariant, Record!TypeOK
<1>4. r \in Objects
  BY <1>1, NoObjectType DEF Objects
<1>5. /\ r.at = "idle" /\ r.msg = m /\ m.time = 1
      /\ ~r.initialStored /\ ~r.initialSigned /\ m # Record!NoMessage
  BY DEF Record!NoObject, Record!NoMessage
<1> HIDE DEF r, m
<1>6. /\ NodesGrow
      /\ store /\ answer = "ok" => node'["local"].latest = m
  BY <1>1, <1>2, <1>3, RecordTypes, ProcessedGrows
<1>7. draft \subseteq draft' /\ draft' \subseteq Object /\ draft' \ {o} = draft \ {o}
  BY <1>2, <1>3
<1>8. CASE answer # "ok"
  <2>1. UNCHANGED <<object, creator>>
    BY <1>2, <1>3, <1>8
  <2> QED
    BY <1>3, <1>6, <1>7, <2>1, NodeStepKeeps
<1>9. CASE answer = "ok"
  <2>1. ObjectHolds(r, node'["local"].initial)
    BY <1>5 DEF ObjectHolds
  <2>2. object' = [object EXCEPT ![o] = r] /\ (o \notin draft' => store)
    BY <1>2, <1>9
  <2>3. o \notin draft' => r.msg.time <= node'["local"].latest.time
    BY <1>5, <1>6, <1>9, <2>2
  <2> QED
    BY <1>3, <1>4, <1>6, <1>7, <2>1, <2>2, <2>3, ObjectStepKeeps
<1> QED
  BY <1>8, <1>9

LEMMA InitialType ==
    ASSUME NEW by \in Record!Who, NEW owned \in BOOLEAN
    PROVE  [kind |-> "write", time |-> 1, by |-> by, owned |-> owned, data |-> 1]
              \in Record!Message
<1>1. 1 \in 1..MaxTime
  BY RecordAssumption
<1> QED
  BY <1>1 DEF Record!Message

\* An object that has been updated has its initial write, and a message of its own.
LEMMA UpdateKeeps ==
    ASSUME RecordInvariant, NEW o \in Object, NEW store \in BOOLEAN, NEW newData \in BOOLEAN,
           Record!Update(o, store, newData)
    PROVE  RecordInvariant'
<1> DEFINE d == IF newData THEN clock + 1 ELSE object[o].msg.data
           m == [kind |-> "write", time |-> clock + 1, by |-> "me", owned |-> FALSE, data |-> d]
           r == Record!Updated(o, m, newData)
           offered == IF newData THEN m.data ELSE 0
<1>1. /\ object[o].at = "idle" /\ object[o].msg.kind # "delete"
      /\ clock < MaxTime /\ clock' = clock + 1 /\ UNCHANGED <<creator, sendCache>>
  BY DEF Record!Update, Record!Idle, Record!Deleted
<1>2. PICK answer \in Record!Answer :
          /\ Record!Processed("local", m, offered, store, answer)
          /\ IF answer = "ok"
             THEN /\ object' = [object EXCEPT ![o] = r]
                  /\ draft' = IF store THEN draft \ {o} ELSE draft \cup {o}
             ELSE UNCHANGED <<object, draft>>
  BY DEF Record!Update
<1>3. /\ clock >= 1 /\ clock' \in clock..MaxTime /\ clock' >= 1
      /\ object[o].msg \in Record!Message /\ object[o].msg.kind = "write"
      /\ clock + 1 \in 2..MaxTime /\ sendCache' \subseteq Record!Node /\ draft \subseteq Object
  BY <1>1, ObjectFacts
<1>4. d \in 1..MaxTime
  BY <1>3, MessageTimes, RecordTypes
<1> HIDE DEF d
<1>5. m \in Record!Message /\ offered \in 0..MaxTime
  BY <1>3, <1>4, RecordTypes DEF Record!Message, Record!Who
<1>6. r \in Objects
  <2> DEFINE owned == IF object[o].initial THEN object[o].initialOwned ELSE object[o].msg.owned
  <2>1. object[o] \in Objects /\ owned \in BOOLEAN /\ d \in 0..MaxTime
    <3>1. object[o] \in Objects /\ object[o].initialOwned \in BOOLEAN
      BY ObjectFacts DEF Objects
    <3>2. object[o].msg.owned \in BOOLEAN
      BY <1>3 DEF Record!Message
    <3>3. d \in 0..MaxTime
      BY <1>4
    <3> QED
      BY <3>1, <3>2, <3>3
  <2> HIDE DEF owned
  <2>2. \/ r = [object[o] EXCEPT !.initial = TRUE, !.initialOwned = owned, !.msg = m]
        \/ r = [object[o] EXCEPT !.initial = TRUE, !.initialOwned = owned, !.msg = m, !.data = d]
    BY <2>1 DEF Record!Updated, Objects, owned
  <2>3. CASE r = [object[o] EXCEPT !.initial = TRUE, !.initialOwned = owned, !.msg = m]
    BY <1>5, <2>1, <2>3 DEF Objects
  <2>4. CASE r = [object[o] EXCEPT !.initial = TRUE, !.initialOwned = owned, !.msg = m,
                                   !.data = d]
    BY <1>5, <2>1, <2>4 DEF Objects
  <2> QED
    BY <2>2, <2>3, <2>4
<1>7. /\ r.msg = m /\ m.time = clock + 1 /\ m # Record!NoMessage /\ r.initial
      /\ r.at = "idle" /\ r.initialStored = object[o].initialStored
      /\ r.initialSigned = object[o].initialSigned
      /\ object[o].initial => r.initialOwned = object[o].initialOwned
  BY <1>1, ObjectFacts DEF Objects, Record!Updated, Record!NoMessage
<1> HIDE DEF m, r, offered
<1>8. /\ NodesGrow
      /\ store /\ answer = "ok" => node'["local"].latest = m
  BY <1>2, <1>3, <1>5, <1>7, RecordTypes, ProcessedGrows
<1>9. CASE answer # "ok"
  <2>1. UNCHANGED <<object, creator>> /\ draft' = draft
    BY <1>1, <1>2, <1>9
  <2> QED
    BY <1>3, <1>8, <2>1, NodeStepKeeps
<1>10. CASE answer = "ok"
  <2>1. ObjectHolds(r, node'["local"].initial)
    BY <1>7, <1>8, ObjectFacts DEF ObjectHolds, NodesGrow
  <2>2. /\ object' = [object EXCEPT ![o] = r] /\ (o \notin draft' => store)
        /\ draft' \ {o} = draft \ {o} /\ draft' \subseteq Object
    BY <1>2, <1>3, <1>10
  <2>3. o \notin draft' => r.msg.time <= node'["local"].latest.time
    BY <1>3, <1>7, <1>8, <1>10, <2>2
  <2> QED
    BY <1>1, <1>3, <1>6, <1>8, <2>1, <2>2, <2>3, ObjectStepKeeps
<1> QED
  BY <1>9, <1>10

\* send() changes the target's node, and the object not at all.
LEMMA SendKeeps ==
    ASSUME RecordInvariant, NEW o \in Object,
           Record!BeginSend(o) \/ Record!Send(o) \/ Record!Throws(o)
    PROVE  RecordInvariant'
<1>1. /\ UNCHANGED <<creator, clock, draft>> /\ object[o].at # "none"
      /\ sendCache' \subseteq sendCache \cup {"remote"}
      /\ object' = [object EXCEPT ![o].at = "send"]
         \/ object' = [object EXCEPT ![o] = Record!Ended(@)]
  BY DEF Record!BeginSend, Record!Send, Record!Throws, Record!Idle
<1>2. /\ clock' \in clock..MaxTime /\ clock' >= 1 /\ sendCache' \subseteq Record!Node
      /\ object[o].msg \in Record!Message /\ Record!DataOf(o) \in 0..MaxTime
      /\ Record!InitialOf(o) \in Record!Message /\ 0 \in 0..MaxTime
  <2>1. Record!InitialOf(o) \in Record!Message
    BY ObjectFacts, InitialType DEF Objects, Record!InitialOf
  <2> QED
    BY <1>1, <2>1, ObjectFacts
<1>3. NodesGrow
  <2>1. CASE UNCHANGED node
    BY <1>2, <2>1, NodesSame
  <2>2. CASE \E answer \in Record!Answer :
                \/ Record!Processed("remote", Record!InitialOf(o), 0, TRUE, answer)
                \/ Record!Processed("remote", object[o].msg, Record!DataOf(o), TRUE, answer)
    BY <1>2, <2>2, RecordTypes, ProcessedGrows
  <2> QED
    BY <2>1, <2>2 DEF Record!BeginSend, Record!Send, Record!Throws
<1>4. PICK r \in Objects :
          /\ object' = [object EXCEPT ![o] = r] /\ r.at \in {"idle", "send"}
          /\ r.msg = object[o].msg /\ r.initial = object[o].initial
          /\ r.initialStored = object[o].initialStored
          /\ r.initialSigned = object[o].initialSigned
          /\ r.initialOwned = object[o].initialOwned
  <2>1. CASE object' = [object EXCEPT ![o].at = "send"]
    <3> DEFINE r == [object[o] EXCEPT !.at = "send"]
    <3>1. r \in Objects /\ object' = [object EXCEPT ![o] = r]
      BY <2>1, ObjectFacts DEF Objects
    <3> QED
      BY <3>1, ObjectFacts DEF Objects
  <2>2. CASE object' = [object EXCEPT ![o] = Record!Ended(@)]
    <3> DEFINE r == Record!Ended(object[o])
    <3>1. r \in Objects /\ object' = [object EXCEPT ![o] = r]
      BY <2>2, ObjectFacts DEF Objects, Record!Ended
    <3> QED
      BY <3>1, ObjectFacts DEF Objects, Record!Ended
  <2> QED
    BY <1>1, <2>1, <2>2
<1> QED
  BY <1>1, <1>2, <1>3, <1>4, SameObjectKeeps

\* A call that offers the initial write first goes on with an object whose write
\* the local node has, if it said so, or if it only refuses what it has.
LEMMA ProcessInitialKeeps ==
    ASSUME RecordInvariant, NEW o \in Object, NEW obj \in Objects,
           NEW step \in {"process", "delete"}, NEW store \in BOOLEAN, NEW sign \in BOOLEAN,
           object[o].at = "idle", obj.msg = object[o].msg,
           obj.initialStored = object[o].initialStored,
           obj.initialSigned = object[o].initialSigned,
           object[o].initial => obj.initial /\ obj.initialOwned = object[o].initialOwned,
           step = "delete" => obj.initial,
           Record!ProcessInitial(o, obj, step, store, sign)
    PROVE  RecordInvariant'
<1> DEFINE owned == obj.initialOwned \/ sign
           m == [Record!InitialOf(o) EXCEPT !.owned = owned]
           goes == [obj EXCEPT !.at = step, !.store = store, !.sign = sign]
           done == Record!InitialProcessed(goes, store, sign)
<1>1. /\ UNCHANGED <<creator, clock, sendCache, draft>>
      /\ clock' \in clock..MaxTime /\ clock' >= 1 /\ sendCache' \subseteq Record!Node
      /\ draft' \ {o} = draft \ {o} /\ draft' \subseteq Object
  BY ObjectFacts DEF Record!ProcessInitial
<1>2. /\ goes \in Objects /\ goes.at = step /\ goes.store = store /\ goes.sign = sign
      /\ goes.msg = obj.msg /\ goes.initial = obj.initial
      /\ goes.initialStored = obj.initialStored /\ goes.initialSigned = obj.initialSigned
      /\ goes.initialOwned = obj.initialOwned
  BY DEF Objects
<1> HIDE DEF goes
<1>3. /\ done \in Objects /\ done.msg = obj.msg /\ done.initial = obj.initial
      /\ done.at = step /\ done.store = store /\ done.sign = sign
      /\ done.initialStored => obj.initialStored \/ store
      /\ done.initialSigned => obj.initialSigned \/ sign
      /\ obj.initialOwned \/ sign => done.initialOwned
  <2>1. ASSUME NEW a \in BOOLEAN, NEW b \in BOOLEAN PROVE (a \/ b) \in BOOLEAN
    OBVIOUS
  <2> DEFINE kept == obj.initialStored \/ store
             signed == obj.initialSigned \/ sign
  <2>2. kept \in BOOLEAN /\ signed \in BOOLEAN /\ owned \in BOOLEAN
    BY <2>1 DEF Objects
  <2>3. done = [goes EXCEPT !.initialStored = kept, !.initialSigned = signed,
                            !.initialOwned = owned]
    BY <1>2 DEF Record!InitialProcessed
  <2>4. /\ kept => obj.initialStored \/ store
        /\ signed => obj.initialSigned \/ sign
        /\ obj.initialOwned \/ sign => owned
    OBVIOUS
  <2> HIDE DEF kept, signed, owned, done
  <2>5. done \in Objects
    <3> DEFINE e == [goes EXCEPT !.initialStored = kept]
    <3>1. e \in Objects
      BY <1>2, <2>2 DEF Objects
    <3>2. done = [e EXCEPT !.initialSigned = signed, !.initialOwned = owned]
      BY <2>3
    <3> HIDE DEF e
    <3> QED
      BY <2>2, <3>1, <3>2 DEF Objects
  <2>6. /\ done.msg = obj.msg /\ done.initial = obj.initial
        /\ done.at = step /\ done.store = store /\ done.sign = sign
        /\ done.initialStored = kept /\ done.initialSigned = signed
        /\ done.initialOwned = owned
    BY <1>2, <2>3 DEF Objects
  <2> QED
    BY <2>4, <2>5, <2>6
<1>4. m \in Record!Message /\ m.time = 1 /\ (m.owned <=> obj.initialOwned \/ sign)
  BY ObjectFacts, InitialType DEF Record!InitialOf, Objects
<1> HIDE DEF m, done, owned
<1>5. ASSUME NEW r \in {goes, done}, NodesGrow, object' = [object EXCEPT ![o] = r],
             ObjectHolds(r, node'["local"].initial)
      PROVE  RecordInvariant'
  <2>1. /\ node["local"].latest.time \in Nat /\ node'["local"].latest.time \in Nat
        /\ object[o].msg.time \in Nat /\ r.msg = object[o].msg /\ r \in Objects
    <3>1. r.msg = object[o].msg /\ r \in Objects
      BY <1>2, <1>3
    <3> QED
      BY <1>5, <3>1, RecordTypes, MessageTimes, ObjectFacts DEF Nodes, NodesGrow
  <2>2. o \notin draft' => r.msg.time <= node'["local"].latest.time
    BY <1>1, <1>5, <2>1, ObjectFacts DEF NodesGrow
  <2> QED
    BY <1>1, <1>5, <2>1, <2>2, ObjectStepKeeps
<1>6. ObjectHolds(object[o], node["local"].initial) /\ object[o].msg # Record!NoMessage
  BY ObjectFacts DEF ObjectHolds
<1>7. CASE ~Record!NeedsInitial(obj, store, sign)
  <2>1. object' = [object EXCEPT ![o] = goes] /\ UNCHANGED node
    BY <1>7 DEF Record!ProcessInitial, goes
  <2>2. NodesGrow
    BY <1>1, <2>1, NodesSame
  <2>3. store /\ sign /\ obj.initial => obj.initialStored
    BY <1>7 DEF Record!NeedsInitial
  <2>4. ObjectHolds(goes, node'["local"].initial)
    BY <1>2, <1>6, <2>1, <2>3 DEF ObjectHolds
  <2> QED
    BY <1>5, <2>1, <2>2, <2>4
<1>8. CASE Record!NeedsInitial(obj, store, sign)
  <2>1. PICK answer \in Record!Answer :
            /\ Record!Processed("local", m, 0, store, answer)
            /\ object' = [object EXCEPT ![o] = IF answer = "ok" THEN done ELSE goes]
    BY <1>8 DEF Record!ProcessInitial, m, goes, done, owned
  <2>2. /\ NodesGrow
        /\ store /\ answer = "ok" => node'["local"].initial
    BY <1>1, <1>4, <2>1, RecordTypes, ProcessedGrows
  <2>3. obj.initial
    BY <1>8 DEF Record!NeedsInitial
  <2>4. CASE answer = "ok"
    <3>1. ObjectHolds(done, node'["local"].initial)
      BY <1>3, <1>6, <2>2, <2>3, <2>4 DEF ObjectHolds, NodesGrow
    <3> QED
      BY <1>5, <2>1, <2>2, <2>4, <3>1
  <2>5. CASE answer # "ok"
    <3>1. "local" \notin MayRefuse /\ store /\ sign => node["local"].initial
      <4> SUFFICES ASSUME "local" \notin MayRefuse, store, sign PROVE node["local"].initial
        OBVIOUS
      <4>1. Record!Verdict("local", m, 0) # "ok"
        BY <2>1, <2>5 DEF Record!Processed, Record!Answers
      <4>2. Record!Authorized("local", m)
        BY <1>4 DEF Record!Authorized
      <4>3. ASSUME node["local"].latest = Record!NoMessage, ~node["local"].initial
            PROVE  FALSE
        BY <1>4, <4>1, <4>2, <4>3 DEF Record!Verdict
      <4> QED
        BY <4>3, RecordTypes DEF RecordInvariant, NodesHold
    <3>2. ObjectHolds(goes, node'["local"].initial)
      BY <1>2, <1>6, <2>2, <2>3, <3>1 DEF ObjectHolds, NodesGrow
    <3> QED
      BY <1>5, <2>1, <2>2, <2>5, <3>2
  <2> QED
    BY <2>4, <2>5
<1> QED
  BY <1>7, <1>8

LEMMA BeginKeeps ==
    ASSUME RecordInvariant, NEW o \in Object, NEW store \in BOOLEAN, NEW sign \in BOOLEAN,
           Record!BeginProcess(o, store, sign) \/ Record!BeginDelete(o, store, sign)
    PROVE  RecordInvariant'
<1>1. object[o].at = "idle" /\ object[o] \in Objects
  BY ObjectFacts DEF Record!BeginProcess, Record!BeginDelete, Record!Idle
<1>2. CASE Record!BeginProcess(o, store, sign)
  <2>1. Record!ProcessInitial(o, object[o], "process", store, sign)
    BY <1>2 DEF Record!BeginProcess
  <2> QED
    BY <1>1, <2>1, ProcessInitialKeeps
<1>3. CASE Record!BeginDelete(o, store, sign)
  <2> DEFINE known == [object[o] EXCEPT !.initial = TRUE,
                                        !.initialOwned = object[o].msg.owned]
  <2>1. CASE object[o].initial
    <3>1. Record!ProcessInitial(o, object[o], "delete", store, sign)
      BY <1>3, <2>1 DEF Record!BeginDelete
    <3> QED
      BY <1>1, <2>1, <3>1, ProcessInitialKeeps
  <2>2. CASE ~object[o].initial
    <3>1. Record!ProcessInitial(o, known, "delete", store, sign)
      BY <1>3, <2>2 DEF Record!BeginDelete
    <3>2. object[o].msg.owned \in BOOLEAN
      BY <1>1, ObjectFacts DEF Record!Message
    <3>3. /\ known \in Objects /\ known.msg = object[o].msg /\ known.initial
          /\ known.initialStored = object[o].initialStored
          /\ known.initialSigned = object[o].initialSigned
      BY <1>1, <3>2 DEF Objects
    <3> HIDE DEF known
    <3> QED
      BY <1>1, <2>2, <3>1, <3>3, ProcessInitialKeeps
  <2> QED
    BY <2>1, <2>2
<1> QED
  BY <1>2, <1>3

\* The end of store(), import() and delete(): an object that stays as it is, or
\* takes the message m that it has offered the local node.
Ending(o, r, m, data, store, answer) ==
    /\ o \in Object /\ r \in Objects /\ m \in Record!Message /\ data \in 0..MaxTime
    /\ store \in BOOLEAN
    /\ Record!Processed("local", m, data, store, answer)
    /\ object[o].at # "none" /\ (m.time > 1 => object[o].initial)
    /\ m.time > 1 \/ data # 0
    /\ object' = [object EXCEPT ![o] = r]
    /\ r.msg = IF answer = "ok" THEN m ELSE object[o].msg
    /\ r.at = "idle" /\ r.initial = object[o].initial
    /\ r.initialStored = object[o].initialStored
    /\ r.initialSigned = object[o].initialSigned
    /\ r.initialOwned = object[o].initialOwned
    /\ clock' \in clock..MaxTime /\ UNCHANGED <<creator, sendCache>>
    /\ draft' \ {o} = draft \ {o} /\ draft' \subseteq Object
    /\ o \notin draft' =>
          \/ answer = "ok" /\ store
          \/ o \notin draft /\ r.msg.time = object[o].msg.time

LEMMA EndKeeps ==
    ASSUME RecordInvariant, NEW o, NEW r, NEW m, NEW data, NEW store, NEW answer,
           Ending(o, r, m, data, store, answer)
    PROVE  RecordInvariant'
<1> USE DEF Ending
<1>1. clock' >= 1 /\ sendCache' \subseteq Record!Node
  BY ObjectFacts
<1>2. /\ NodesGrow
      /\ store /\ answer = "ok" => node'["local"].latest = m
  BY <1>1, RecordTypes, ProcessedGrows
<1>3. m # Record!NoMessage /\ m.time \in Nat
  <2>1. m.kind = "write" \/ m.kind = "delete"
    BY DEF Record!Message
  <2> QED
    BY <2>1, MessageTimes DEF Record!NoMessage
<1>4. ObjectHolds(r, node'["local"].initial)
  BY <1>2, <1>3, ObjectFacts DEF ObjectHolds, NodesGrow
<1>5. /\ node["local"].latest.time \in Nat /\ node'["local"].latest.time \in Nat
      /\ object[o].msg.time \in Nat
  BY <1>2, RecordTypes, MessageTimes, ObjectFacts DEF Nodes, NodesGrow
<1>6. o \notin draft' => r.msg.time <= node'["local"].latest.time
  BY <1>2, <1>3, <1>5, ObjectFacts DEF NodesGrow
<1> QED
  BY <1>1, <1>2, <1>4, <1>6, ObjectStepKeeps

LEMMA EndedObject ==
    ASSUME NEW r \in Objects
    PROVE  /\ Record!Ended(r) \in Objects
           /\ Record!Ended(r).at = "idle" /\ Record!Ended(r).msg = r.msg
           /\ Record!Ended(r).initial = r.initial
           /\ Record!Ended(r).initialStored = r.initialStored
           /\ Record!Ended(r).initialSigned = r.initialSigned
           /\ Record!Ended(r).initialOwned = r.initialOwned
BY DEF Objects, Record!Ended

\* store() and import() end with the object's own message, signed or not.
LEMMA ProcessKeeps ==
    ASSUME RecordInvariant, NEW o \in Object, Record!Process(o)
    PROVE  RecordInvariant'
<1> DEFINE m == Record!ToProcess(o)
           data == Record!DataOf(o)
           store == object[o].store
<1>1. /\ object[o].at = "process"
      /\ object[o].msg.kind = "delete" \/ data # 0
      /\ UNCHANGED <<creator, clock, sendCache>>
  BY DEF Record!Process, Record!Deleted
<1>2. PICK answer \in Record!Answer :
          /\ Record!Processed("local", m, data, store, answer)
          /\ object' = [object EXCEPT ![o] =
                IF answer = "ok" THEN [Record!Ended(object[o]) EXCEPT !.msg = m]
                ELSE Record!Ended(object[o])]
          /\ draft' = IF answer = "ok" /\ store THEN draft \ {o} ELSE draft
  BY DEF Record!Process
<1>3. /\ object[o] \in Objects /\ store \in BOOLEAN /\ data \in 0..MaxTime
      /\ object[o].msg \in Record!Message /\ draft \subseteq Object
      /\ clock' \in clock..MaxTime /\ object[o].sign \in BOOLEAN
  BY <1>1, ObjectFacts DEF Objects
<1>4. m \in Record!Message /\ m.time = object[o].msg.time /\ m.kind = object[o].msg.kind
  <2>1. CASE object[o].msg.kind = "delete"
    <3>1. m = [object[o].msg EXCEPT !.owned = FALSE]
      <4>1. object[o].msg.owned = FALSE
        BY <1>3, <2>1 DEF Record!Message
      <4> QED
        BY <2>1, <4>1 DEF Record!ToProcess, Record!Deleted
    <3> QED
      BY <1>3, <2>1, <3>1 DEF Record!Message
  <2>2. CASE object[o].msg.kind # "delete"
    <3>1. PICK owned \in BOOLEAN : m = [object[o].msg EXCEPT !.owned = owned]
      <4>1. m = [object[o].msg EXCEPT !.owned = object[o].msg.owned \/ object[o].sign]
        BY <2>2 DEF Record!ToProcess, Record!Deleted
      <4>2. object[o].msg.owned \in BOOLEAN
        BY <1>3 DEF Record!Message
      <4>3. ASSUME NEW a \in BOOLEAN, NEW b \in BOOLEAN PROVE (a \/ b) \in BOOLEAN
        OBVIOUS
      <4>4. (object[o].msg.owned \/ object[o].sign) \in BOOLEAN
        BY <1>3, <4>2, <4>3
      <4> QED
        BY <4>1, <4>4
    <3> QED
      BY <1>3, <2>2, <3>1 DEF Record!Message
  <2> QED
    BY <2>1, <2>2
<1>5. /\ m.time > 1 => object[o].initial
      /\ m.time > 1 \/ data # 0
  <2>1. object[o].msg.kind = "delete" => object[o].msg.time >= 2
    BY <1>3, MessageTimes
  <2>2. object[o].msg.time > 1 => object[o].initial
    BY ObjectFacts DEF ObjectHolds
  <2> QED
    BY <1>1, <1>4, <2>1, <2>2, ObjectFacts
<1> DEFINE r == IF answer = "ok" THEN [Record!Ended(object[o]) EXCEPT !.msg = m]
                ELSE Record!Ended(object[o])
<1> HIDE DEF m, data, store
<1>6. /\ r \in Objects /\ object' = [object EXCEPT ![o] = r]
      /\ r.msg = (IF answer = "ok" THEN m ELSE object[o].msg)
      /\ r.at = "idle" /\ r.initial = object[o].initial
      /\ r.initialStored = object[o].initialStored
      /\ r.initialSigned = object[o].initialSigned
      /\ r.initialOwned = object[o].initialOwned
  <2>1. CASE answer = "ok"
    BY <1>2, <1>3, <1>4, <2>1, EndedObject DEF Objects
  <2>2. CASE answer # "ok"
    BY <1>2, <1>3, <2>2, EndedObject
  <2> QED
    BY <2>1, <2>2
<1> HIDE DEF r
<1>7. /\ draft' \ {o} = draft \ {o} /\ draft' \subseteq Object
      /\ o \notin draft' =>
            \/ answer = "ok" /\ store
            \/ o \notin draft /\ r.msg.time = object[o].msg.time
  BY <1>2, <1>3, <1>4, <1>6
<1>8. UNCHANGED <<creator, sendCache>> /\ object[o].at # "none"
  BY <1>1
<1>9. Record!Processed("local", m, data, store, answer)
  BY <1>2
<1>10. Ending(o, r, m, data, store, answer)
  BY <1>3, <1>4, <1>5, <1>6, <1>7, <1>8, <1>9 DEF Ending
<1> QED
  BY <1>10, EndKeeps

\* delete() ends with the message of a delete, a new one or its own.
LEMMA DeleteKeeps ==
    ASSUME RecordInvariant, NEW o \in Object, Record!Delete(o)
    PROVE  RecordInvariant'
<1> DEFINE obj == object[o]
           new == [kind |-> "delete", time |-> clock + 1, by |-> "me",
                   owned |-> FALSE, data |-> 0]
           m == IF Record!Deleted(o) THEN obj.msg ELSE new
           store == obj.store
           r == [Record!Ended(obj) EXCEPT !.msg = m, !.author = m.by, !.data = 0]
<1>1. /\ obj.at = "delete"
      /\ Record!Deleted(o) \/ clock < MaxTime
      /\ clock' = IF Record!Deleted(o) THEN clock ELSE clock + 1
      /\ UNCHANGED <<creator, sendCache>>
  BY DEF Record!Delete
<1>2. PICK answer \in Record!Answer :
          /\ Record!Processed("local", m, 0, store, answer)
          /\ object' = [object EXCEPT ![o] = IF answer = "ok" THEN r ELSE Record!Ended(obj)]
          /\ draft' = IF answer # "ok" THEN draft
                      ELSE IF store THEN draft \ {o} ELSE draft \cup {o}
  BY DEF Record!Delete
<1>3. /\ obj \in Objects /\ store \in BOOLEAN /\ 0 \in 0..MaxTime
      /\ obj.msg \in Record!Message /\ draft \subseteq Object /\ clock >= 1
      /\ clock' \in clock..MaxTime /\ obj.initial
  <2>1. obj.initial
    BY <1>1, ObjectFacts DEF ObjectHolds
  <2> QED
    BY <1>1, <2>1, ObjectFacts DEF Objects
<1>4. m \in Record!Message /\ m.time > 1 /\ m.by \in Record!Who
  <2>1. CASE Record!Deleted(o)
    <3>1. m = obj.msg /\ m.kind = "delete"
      BY <2>1 DEF Record!Deleted
    <3>2. obj.msg.by \in Record!Who
      BY <1>3 DEF Record!Message
    <3>3. m.time >= 2 /\ m.time \in 0..MaxTime
      BY <1>3, <3>1, MessageTimes
    <3> QED
      BY <1>3, <3>1, <3>2, <3>3, ObjectFacts
  <2>2. CASE ~Record!Deleted(o)
    <3>1. clock + 1 \in 2..MaxTime
      BY <1>1, <1>3, <2>2, ObjectFacts
    <3>2. new \in Record!Message
      BY <3>1 DEF Record!Message, Record!Who
    <3> QED
      BY <2>2, <3>1, <3>2 DEF Record!Who
  <2> QED
    BY <2>1, <2>2
<1> HIDE DEF m
<1>5. /\ r \in Objects /\ r.msg = m /\ r.at = "idle" /\ r.initial = obj.initial
      /\ r.initialStored = obj.initialStored /\ r.initialSigned = obj.initialSigned
      /\ r.initialOwned = obj.initialOwned
  <2> DEFINE e == Record!Ended(obj)
  <2>1. /\ e \in Objects /\ e.msg = obj.msg /\ e.at = "idle" /\ e.initial = obj.initial
        /\ e.initialStored = obj.initialStored /\ e.initialSigned = obj.initialSigned
        /\ e.initialOwned = obj.initialOwned
    BY <1>3, EndedObject
  <2> HIDE DEF e
  <2>2. r = [e EXCEPT !.msg = m, !.author = m.by, !.data = 0]
    BY DEF e
  <2> QED
    BY <1>3, <1>4, <2>1, <2>2 DEF Objects
<1> DEFINE s == IF answer = "ok" THEN r ELSE Record!Ended(obj)
<1> HIDE DEF r
<1>6. /\ s \in Objects /\ object' = [object EXCEPT ![o] = s]
      /\ s.msg = (IF answer = "ok" THEN m ELSE obj.msg)
      /\ s.at = "idle" /\ s.initial = obj.initial
      /\ s.initialStored = obj.initialStored /\ s.initialSigned = obj.initialSigned
      /\ s.initialOwned = obj.initialOwned
  BY <1>2, <1>3, <1>5, EndedObject
<1> HIDE DEF s
<1>7. /\ draft' \ {o} = draft \ {o} /\ draft' \subseteq Object
      /\ o \notin draft' =>
            \/ answer = "ok" /\ store
            \/ o \notin draft /\ s.msg.time = obj.msg.time
  BY <1>2, <1>3, <1>6
<1>8. UNCHANGED <<creator, sendCache>> /\ obj.at # "none"
  BY <1>1
<1>9. Record!Processed("local", m, 0, store, answer)
  BY <1>2
<1>10. Ending(o, s, m, 0, store, answer)
  BY <1>3, <1>4, <1>6, <1>7, <1>8, <1>9 DEF Ending
<1> QED
  BY <1>10, EndKeeps

\* Deletes by the record's id, and what others do at the remote node.
LEMMA ElsewhereKeeps ==
    ASSUME RecordInvariant, Record!Elsewhere \/ \E n \in Record!Node : Record!DeleteById(n)
    PROVE  RecordInvariant'
<1>1. /\ clock \in 0..MaxTime /\ MaxTime \in Nat /\ node \in Nodes
      /\ "local" \in Record!Node /\ "remote" \in Record!Node
      /\ sendCache \subseteq Record!Node /\ draft \subseteq Object
  BY RecordTypes DEF RecordInvariant, Record!TypeOK
<1>2. /\ UNCHANGED <<object, creator, sendCache, draft>>
      /\ clock' = clock + 1 /\ clock < MaxTime
  <2>1. CASE Record!Elsewhere
    BY <2>1 DEF Record!Elsewhere
  <2>2. CASE \E n \in Record!Node : Record!DeleteById(n)
    BY <1>1, <2>2 DEF Record!DeleteById
  <2> QED
    BY <2>1, <2>2
<1>3. /\ clock' \in clock..MaxTime /\ clock' >= 1 /\ clock' \in 1..MaxTime
      /\ clock >= 1 => clock' \in 2..MaxTime
  BY <1>1, <1>2
<1>4. ASSUME NEW n \in Record!Node, Record!DeleteById(n) PROVE NodesGrow
  <2> DEFINE m == [kind |-> "delete", time |-> clock + 1, by |-> "me",
                   owned |-> FALSE, data |-> 0]
  <2>1. clock >= 1
    BY <1>4 DEF Record!DeleteById
  <2>2. m \in Record!Message /\ 0 \in 0..MaxTime
    BY <1>1, <1>2, <1>3, <2>1 DEF Record!Message, Record!Who
  <2>3. PICK answer \in Record!Answer : Record!Processed(n, m, 0, TRUE, answer)
    BY <1>4 DEF Record!DeleteById
  <2> HIDE DEF m
  <2> QED
    BY <1>3, <2>2, <2>3, ProcessedGrows
<1>5. ASSUME Record!Elsewhere PROVE NodesGrow
  <2>1. PICK kind \in {"write", "delete"}, by \in Record!Who :
            /\ clock = 0 => kind = "write"
            /\ node' = [node EXCEPT !["remote"] =
                  [initial |-> TRUE,
                   latest |-> [kind |-> kind, time |-> clock', by |-> by, owned |-> FALSE,
                               data |-> IF kind = "write" THEN clock' ELSE 0]]]
    BY <1>5 DEF Record!Elsewhere
  <2> DEFINE m == [kind |-> kind, time |-> clock', by |-> by, owned |-> FALSE,
                   data |-> IF kind = "write" THEN clock' ELSE 0]
  <2>2. m \in Record!Message
    <3>1. CASE kind = "write"
      BY <1>3, <3>1 DEF Record!Message
    <3>2. CASE kind = "delete"
      <4>1. clock' \in 2..MaxTime
        BY <1>1, <1>3, <2>1, <3>2
      <4> QED
        BY <3>2, <4>1 DEF Record!Message
    <3> QED
      BY <3>1, <3>2
  <2> HIDE DEF m
  <2>3. /\ node' \in Nodes /\ node'["remote"].initial
        /\ \A n \in Record!Node : n # "remote" => node'[n] = node[n]
    BY <1>1, <2>1, <2>2 DEF Nodes, m
  <2>4. node'["local"] = node["local"] /\ node["local"].latest.time \in Nat
    BY <1>1, <2>3, MessageTimes DEF Nodes
  <2> QED
    BY <1>1, <1>3, <2>3, <2>4 DEF NodesGrow, NodesHold, RecordInvariant
<1>6. NodesGrow
  BY <1>4, <1>5
<1>7. UNCHANGED <<object, creator>> /\ sendCache' \subseteq Record!Node
  BY <1>1, <1>2
<1>8. draft \subseteq draft' /\ draft' \subseteq Object
  BY <1>1, <1>2
<1> QED
  BY <1>3, <1>6, <1>7, <1>8, NodeStepKeeps

LEMMA RecordInitHolds ==
    ASSUME Record!Init
    PROVE  RecordInvariant
<1>1. MaxTime \in Nat /\ "local" \in Record!Node
  BY RecordAssumption DEF Record!Node
<1>2. /\ \A n \in Record!Node : node[n] = [initial |-> FALSE, latest |-> Record!NoMessage]
      /\ \A o \in Object : object[o] = Record!NoObject
  BY DEF Record!Init
<1>3. Record!TypeOK
  <2>1. object \in [Object -> Objects]
    BY <1>2, NoObjectType DEF Record!Init
  <2> QED
    BY <1>1, <2>1 DEF Record!Init, Record!TypeOK, Objects
<1>4. /\ ~Record!NoObject.initialStored /\ ~Record!NoObject.initialSigned
      /\ Record!NoObject.at = "none"
  BY DEF Record!NoObject
<1> QED
  BY <1>1, <1>2, <1>3, <1>4, NoObjectType
     DEF RecordInvariant, NodesHold, ObjectHolds, Record!Backed

LEMMA RecordStepKeeps ==
    ASSUME RecordInvariant, [Record!Next]_(Record!vars)
    PROVE  RecordInvariant'
<1>1. CASE UNCHANGED Record!vars
  BY <1>1 DEF Record!vars, RecordInvariant, Record!TypeOK, NodesHold, ObjectHolds,
     Record!Backed
<1>2. ASSUME NEW o \in Object, NEW n \in Record!Node,
             Record!Read(o, n) \/ Record!Query(o, n) \/ Record!Subscribe(o, n)
      PROVE  RecordInvariant'
  <2>1. PICK data \in 0..MaxTime : node[n].latest # Record!NoMessage /\ Record!Get(o, n, data)
    <3>1. node[n].latest.data \in 0..MaxTime /\ 0 \in 0..MaxTime
      BY RecordTypes, MessageTimes DEF Nodes
    <3> QED
      BY <1>2, <3>1 DEF Record!Read, Record!Query, Record!Subscribe, Record!NoMessage
  <2> QED
    BY <2>1, GetKeeps
<1>3. ASSUME NEW n \in Record!Node, Record!Evict(n) PROVE RecordInvariant'
  <2>1. /\ UNCHANGED <<object, creator, clock, node, draft>>
        /\ sendCache' \subseteq Record!Node /\ draft \subseteq Object
        /\ clock' \in clock..MaxTime
    BY <1>3, RecordTypes DEF Record!Evict, RecordInvariant, Record!TypeOK
  <2> QED
    BY <2>1, NodesSame, NodeStepKeeps
<1> QED
  BY <1>1, <1>2, <1>3, DropKeeps, ProcessKeeps, DeleteKeeps, SendKeeps, WriteKeeps,
     UpdateKeeps, BeginKeeps, ElsewhereKeeps DEF Record!Next

LEMMA RecordInvariantHolds == Record!Spec => []RecordInvariant
<1>1. Record!Init => RecordInvariant
  BY RecordInitHolds
<1>2. RecordInvariant /\ [Record!Next]_(Record!vars) => RecordInvariant'
  BY RecordStepKeeps
<1> QED
  BY <1>1, <1>2, PTL DEF Record!Spec

\* An object whose state is not the initial write always has that write and is
\* right about whether it is stored and signed, and where the local node refuses
\* nothing for reasons of its own, it is offered no import that it refuses for
\* want of a signature or of the initial write.
THEOREM ImportAcceptedHolds == "local" \notin MayRefuse => (Record!Spec => []ImportAccepted)
<1> SUFFICES ASSUME "local" \notin MayRefuse PROVE Record!Spec => []ImportAccepted
  OBVIOUS
<1>1. RecordInvariant => ImportAccepted
  <2> SUFFICES ASSUME RecordInvariant PROVE ImportAccepted
    OBVIOUS
  <2>1. Record!TypeOK /\ Record!InitialKnown /\ Record!FlagsTrue
    BY DEF RecordInvariant, ObjectHolds, Record!InitialKnown, Record!FlagsTrue
  <2>2. ASSUME NEW o \in Object, object[o].at = "process", object[o].store, object[o].sign,
               ~Record!Deleted(o)
        PROVE  Record!Verdict("local", Record!ToProcess(o), Record!DataOf(o))
                  \notin {"unauthorized", "noInitial"}
    <3>1. Record!ToProcess(o) = [object[o].msg EXCEPT !.owned = TRUE]
      BY <2>2 DEF Record!ToProcess
    <3>2. /\ object[o].msg \in Record!Message /\ object[o].msg.kind = "write"
          /\ object[o].msg.time \in Nat /\ object[o].msg.time >= 1
      BY <2>2, ObjectFacts DEF Record!Deleted
    <3>3. Record!ToProcess(o).owned /\ Record!ToProcess(o).time = object[o].msg.time
      BY <3>1, <3>2 DEF Record!Message
    <3>4. Record!Authorized("local", Record!ToProcess(o))
      BY <3>3 DEF Record!Authorized
    <3>5. object[o].msg.time = 1 \/ node["local"].initial
      BY <2>2, <3>2, ObjectFacts DEF ObjectHolds
    <3> QED
      BY <3>3, <3>4, <3>5 DEF Record!Verdict
  <2>3. Record!ImportAccepted
    BY <2>2 DEF Record!ImportAccepted
  <2> QED
    BY <2>1, <2>3 DEF ImportAccepted
<1> QED
  BY <1>1, RecordInvariantHolds, PTL

\* What an application has updated, deleted or stored with success stays on the
\* local node, or something newer: no later step of it, of another device or of
\* another object of the record takes it away.
THEOREM BackedHolds == Record!Spec => []Record!Backed
<1>1. RecordInvariant => Record!Backed
  BY DEF RecordInvariant
<1> QED
  BY <1>1, RecordInvariantHolds, PTL

-----------------------------------------------------------------------------
(* TextStreams: what streams are read to *)

\* Functions over 1..m and 1..n are sequences, and appended pointwise.
LEMMA Appended ==
    ASSUME NEW m \in Nat, NEW n \in Nat, NEW f, NEW g,
           f = [i \in 1..m |-> f[i]], g = [i \in 1..n |-> g[i]]
    PROVE  f \o g = [i \in 1..m + n |-> IF i <= m THEN f[i] ELSE g[i - m]]
<1> DEFINE S == {f[i] : i \in 1..m} \cup {g[i] : i \in 1..n}
           h == [i \in 1..m + n |-> IF i <= m THEN f[i] ELSE g[i - m]]
<1>1. f \in [1..m -> S] /\ g \in [1..n -> S] /\ h \in [1..m + n -> S]
  OBVIOUS
<1> HIDE DEF S, h
<1>2. f \in Seq(S) /\ g \in Seq(S) /\ h \in Seq(S) /\ Len(f) = m /\ Len(g) = n /\ Len(h) = m + n
  BY <1>1
<1> USE DEF h
<1>3. f \o g \in Seq(S) /\ Len(f \o g) = m + n
  BY <1>2
<1>4. ASSUME NEW i \in 1..m + n PROVE (f \o g)[i] = h[i]
  BY <1>2, ConcatProperties
<1> HIDE DEF h
<1>5. f \o g = h
  BY <1>2, <1>3, <1>4, SeqEqual
<1> QED
  BY <1>5 DEF h

\* The bytes of a text up to the n-th, and from there to the m-th.
LEMMA Parts ==
    ASSUME NEW s \in Seq(Text!Byte), NEW n \in 0..Len(s), NEW m \in n..Len(s)
    PROVE  /\ SubSeq(s, 1, n) = [i \in 1..n |-> s[i]]
           /\ SubSeq(s, n + 1, m) = [i \in 1..m - n |-> s[n + i]]
           /\ Len(SubSeq(s, 1, n)) = n /\ Len(SubSeq(s, n + 1, m)) = m - n
           /\ SubSeq(s, 1, n) \o SubSeq(s, n + 1, m) = SubSeq(s, 1, m)
<1>1. \A k \in 0..Len(s) : \A l \in k..Len(s) :
         /\ SubSeq(s, k + 1, l) = [i \in 1..l - k |-> s[k + i]]
         /\ Len(SubSeq(s, k + 1, l)) = l - k
  OBVIOUS
<1>2. SubSeq(s, 1, n) = [i \in 1..n |-> s[i]] /\ Len(SubSeq(s, 1, n)) = n
  BY <1>1
<1>3. SubSeq(s, 1, n) \o SubSeq(s, n + 1, m) = SubSeq(s, 1, m)
  BY ConcatAdjacentSubSeq
<1> QED
  BY <1>1, <1>2, <1>3

\* Wherever a text is cut, what its first bytes and then the others give is what
\* all of them give, if the decoder comes to the others as the first left it.
LEMMA DecodedInParts ==
    ASSUME NEW s \in Seq(Text!Byte), NEW n \in 0..Len(s), NEW m \in n + 1..Len(s), NEW from
    PROVE  LET a == SubSeq(s, 1, n)
               b == SubSeq(s, n + 1, m)
               c == SubSeq(s, 1, m)
           IN /\ Text!Decode(from, c) = Text!Decode(from, a) \o Text!Decode(Text!Kept(from, a), b)
              /\ Text!Kept(from, c) = Text!Kept(Text!Kept(from, a), b)
              /\ Text!Kept(from, c) = Text!HalfAfter(s[m])
<1> DEFINE a == SubSeq(s, 1, n)
           b == SubSeq(s, n + 1, m)
           c == SubSeq(s, 1, m)
<1>1. /\ n \in Nat /\ m \in Nat /\ m >= 1 /\ n < m
      /\ a = [i \in 1..n |-> s[i]] /\ Len(a) = n
      /\ b = [i \in 1..m - n |-> s[n + i]] /\ Len(b) = m - n
      /\ c = [i \in 1..m |-> s[i]] /\ Len(c) = m
  <2>1. n \in 0..Len(s) /\ m \in n..Len(s) /\ m \in 0..Len(s)
    OBVIOUS
  <2> QED
    BY <2>1, Parts
<1> HIDE DEF a, b, c
<1>2. b # <<>> /\ c # <<>> /\ (a = <<>> <=> n = 0)
  <2>1. Len(<<>>) = 0
    OBVIOUS
  <2>2. n = 0 => a = <<>>
    BY SubSeqEmpty DEF a
  <2>3. Len(b) # 0 /\ Len(c) # 0 /\ (n # 0 => Len(a) # 0)
    BY <1>1
  <2> QED
    BY <2>1, <2>2, <2>3
<1>3. b[Len(b)] = s[m] /\ c[Len(c)] = s[m] /\ (n # 0 => a[Len(a)] = s[n])
  BY <1>1
<1>4. /\ Text!Kept(from, c) = Text!HalfAfter(s[m])
      /\ \A half1 : Text!Kept(half1, b) = Text!HalfAfter(s[m])
      /\ Text!Kept(from, a) = IF n = 0 THEN from ELSE Text!HalfAfter(s[n])
  BY <1>2, <1>3 DEF Text!Kept
<1> DEFINE first == Text!Decode(from, a)
           then == Text!Decode(Text!Kept(from, a), b)
           all == Text!Decode(from, c)
           Before(i) == IF i = 1 THEN from ELSE Text!HalfAfter(s[i - 1])
<1>5. first = [i \in 1..n |-> Text!DecodeByte(Before(i), s[i])]
  BY <1>1 DEF Text!Decode
<1>6. all = [i \in 1..m |-> Text!DecodeByte(Before(i), s[i])]
  BY <1>1 DEF Text!Decode
<1>7. then = [i \in 1..m - n |-> Text!DecodeByte(Before(n + i), s[n + i])]
  <2>1. ASSUME NEW i \in 1..m - n
        PROVE  (IF i = 1 THEN Text!Kept(from, a) ELSE Text!HalfAfter(b[i - 1])) = Before(n + i)
    <3>1. i \in Nat /\ i >= 1 /\ (i = 1 \/ i - 1 \in 1..m - n)
      BY <1>1
    <3>2. i # 1 => b[i - 1] = s[n + i - 1] /\ n + i # 1
      BY <1>1, <3>1
    <3>3. i = 1 => n + i - 1 = n /\ (n + i = 1) = (n = 0)
      BY <1>1
    <3>4. CASE i = 1
      BY <1>4, <3>3, <3>4
    <3>5. CASE i # 1
      BY <3>2, <3>5
    <3> QED
      BY <3>4, <3>5
  <2>2. \A i \in 1..m - n : b[i] = s[n + i]
    BY <1>1
  <2>3. then = [i \in 1..m - n |-> Text!DecodeByte(IF i = 1 THEN Text!Kept(from, a)
                                                  ELSE Text!HalfAfter(b[i - 1]), b[i])]
    BY <1>1 DEF Text!Decode
  <2> HIDE DEF Before, then
  <2> QED
    BY <2>1, <2>2, <2>3
<1> HIDE DEF first, then, all, Before
<1>8. first \o then = [i \in 1..n + (m - n) |-> IF i <= n THEN first[i] ELSE then[i - n]]
  <2>1. first = [i \in 1..n |-> first[i]] /\ then = [i \in 1..m - n |-> then[i]]
    BY <1>5, <1>7
  <2>2. m - n \in Nat
    BY <1>1
  <2> QED
    BY <1>1, <2>1, <2>2, Appended
<1>9. first \o then = all
  <2>1. n + (m - n) = m
    BY <1>1
  <2>2. ASSUME NEW i \in 1..m PROVE (IF i <= n THEN first[i] ELSE then[i - n]) = all[i]
    <3>1. i <= n => first[i] = all[i]
      BY <1>1, <1>5, <1>6
    <3>2. i > n => i - n \in 1..m - n /\ n + (i - n) = i
      BY <1>1
    <3>3. i > n => then[i - n] = all[i]
      BY <3>2, <1>6, <1>7
    <3> QED
      BY <1>1, <3>1, <3>3
  <2>3. all = [i \in 1..m |-> all[i]]
    BY <1>6
  <2> QED
    BY <1>8, <2>1, <2>2, <2>3
<1> QED
  BY <1>4, <1>9 DEF first, then, all, a, b, c

LEMMA NothingDecoded ==
    ASSUME NEW from
    PROVE  /\ Text!Decode(from, <<>>) = <<>>
           /\ Text!DecodeLast(from, <<>>) = Text!Flush(from)
<1>1. Text!Decode(from, <<>>) = <<>>
  BY DEF Text!Decode
<1>2. Text!Kept(from, <<>>) = from
  BY DEF Text!Kept
<1>3. Text!Flush(from) \in Seq({Text!Broken(from)})
  <2> DEFINE b == Text!Broken(from)
  <2> HIDE DEF b
  <2>1. <<>> \in Seq({b}) /\ <<b>> \in Seq({b})
    OBVIOUS
  <2> QED
    BY <2>1 DEF Text!Flush, b
<1> QED
  BY <1>1, <1>2, <1>3 DEF Text!DecodeLast

\* The bytes of r that have come.
Come(r) == SubSeq(read[r].bytes, 1, read[r].taken)

\* A read that has met no half of another has what the bytes that came say, and
\* the decoder holds for it what they leave, or nothing.
TextHolds(r) ==
    /\ DOMAIN read[r] = {"at", "op", "bytes", "taken", "got"}
    /\ read[r].at \in {"new", "done", "failed"} /\ read[r].op \in Text!Op
    /\ read[r].bytes \in Source /\ read[r].taken \in 0..Len(read[r].bytes)
    /\ r \in holder => read[r].op = "text"
    /\ r \in mixed => read[r].op # "bytes"
    /\ r \notin mixed /\ read[r].at = "new" /\ read[r].op # "whole" =>
          IF read[r].op = "text"
          THEN /\ read[r].got = Text!Decode(Text!NoHalf, Come(r))
               /\ Text!Kept(Text!NoHalf, Come(r)) = IF r \in holder THEN half ELSE Text!NoHalf
          ELSE read[r].got = Come(r)
    /\ r \notin mixed /\ read[r].at = "done" => Text!Right(r)

TextInvariant ==
    /\ DOMAIN read = Reader /\ mixed \subseteq Reader /\ holder \subseteq Reader
    /\ half = Text!NoHalf <=> holder = {}
    /\ \A r \in Reader : TextHolds(r)

\* A call of the decoder by one read: another that has not met it was not
\* holding anything.
LEMMA OthersKeep ==
    ASSUME TextInvariant, NEW r \in Reader, NEW byte,
           Text!Leaves(r, byte), Text!Meets(r),
           NEW q \in Reader, q # r, read'[q] = read[q]
    PROVE  TextHolds(q)'
<1>1. /\ mixed \subseteq mixed' /\ holder' \subseteq {r}
      /\ mixed' \subseteq mixed \cup holder \cup {r}
      /\ q \notin mixed' => q \notin holder
  BY DEF Text!Leaves, Text!Meets
<1>2. TextHolds(q)
  BY DEF TextInvariant
<1>3. q \notin holder'
  BY <1>1
<1>4. q \in mixed' => q \in mixed \/ read[q].op = "text"
  BY <1>1, <1>2 DEF TextHolds
<1>5. q \notin mixed' => q \notin mixed /\ q \notin holder
  BY <1>1
<1>6. Come(q)' = Come(q) /\ (Text!Right(q))' = Text!Right(q)
  BY DEF Come, Text!Right
<1> QED
  BY <1>2, <1>3, <1>4, <1>5, <1>6 DEF TextHolds

LEMMA DecoderTypes ==
    ASSUME TextInvariant, NEW r \in Reader, NEW byte,
           Text!Leaves(r, byte), Text!Meets(r)
    PROVE  /\ mixed' \subseteq Reader /\ holder' \subseteq Reader
           /\ half' = Text!NoHalf <=> holder' = {}
           /\ r \notin mixed' => /\ r \notin mixed
                                 /\ half = IF r \in holder THEN half ELSE Text!NoHalf
BY DEF Text!Leaves, Text!Meets, TextInvariant

LEMMA ChunkKeeps ==
    ASSUME TextInvariant, NEW r \in Reader, NEW n \in read[r].taken + 1..Len(read[r].bytes),
           Text!Chunk(r, n)
    PROVE  TextInvariant'
<1> DEFINE s == read[r].bytes
           k == read[r].taken
           chunk == SubSeq(s, k + 1, n)
<1>1. /\ TextHolds(r) /\ DOMAIN read = Reader /\ read[r].at = "new" /\ read[r].op # "whole"
      /\ s \in Seq(Text!Byte) /\ k \in 0..Len(s) /\ n \in k + 1..Len(s) /\ n \in 0..Len(s)
  BY SourceAssumption DEF TextInvariant, TextHolds, Text!Chunk
<1>2. /\ DOMAIN read' = Reader /\ \A q \in Reader \ {r} : read'[q] = read[q]
      /\ DOMAIN read'[r] = {"at", "op", "bytes", "taken", "got"}
      /\ read'[r].at = "new" /\ read'[r].op = read[r].op /\ read'[r].bytes = s
      /\ read'[r].taken = n
      /\ read'[r].got = read[r].got \o (IF read[r].op = "text" THEN Text!Decode(half, chunk) ELSE chunk)
  BY <1>1 DEF Text!Chunk, TextHolds
<1>3. Come(r) = SubSeq(s, 1, k) /\ Come(r)' = SubSeq(s, 1, n)
  BY <1>2 DEF Come
<1>4. CASE read[r].op = "text"
  <2>1. Text!Leaves(r, Text!Kept(half, chunk)) /\ Text!Meets(r)
    BY <1>4 DEF Text!Chunk
  <2>2. /\ mixed' \subseteq Reader /\ holder' \subseteq Reader
        /\ half' = Text!NoHalf <=> holder' = {}
        /\ r \notin mixed' => /\ r \notin mixed
                              /\ half = IF r \in holder THEN half ELSE Text!NoHalf
    BY <2>1, DecoderTypes
  <2>3. \A q \in Reader \ {r} : TextHolds(q)'
    BY <1>2, <2>1, OthersKeep
  <2>4. ASSUME r \notin mixed'
        PROVE  /\ read'[r].got = Text!Decode(Text!NoHalf, SubSeq(s, 1, n))
               /\ Text!Kept(Text!NoHalf, SubSeq(s, 1, n)) = Text!Kept(half, chunk)
    <3>1. /\ read[r].got = Text!Decode(Text!NoHalf, SubSeq(s, 1, k))
          /\ Text!Kept(Text!NoHalf, SubSeq(s, 1, k)) = half
      BY <1>1, <1>3, <1>4, <2>2, <2>4 DEF TextHolds
    <3> HIDE DEF s, k
    <3>2. /\ Text!Decode(Text!NoHalf, SubSeq(s, 1, n)) =
                Text!Decode(Text!NoHalf, SubSeq(s, 1, k)) \o Text!Decode(half, chunk)
          /\ Text!Kept(Text!NoHalf, SubSeq(s, 1, n)) = Text!Kept(half, chunk)
      BY <1>1, <3>1, DecodedInParts
    <3> QED
      BY <1>2, <1>4, <3>1, <3>2
  <2>5. half' = Text!Kept(half, chunk) /\ half' = IF r \in holder' THEN half' ELSE Text!NoHalf
    BY <2>1 DEF Text!Leaves
  <2>6. TextHolds(r)'
    BY <1>1, <1>2, <1>3, <1>4, <2>4, <2>5 DEF TextHolds
  <2> QED
    BY <1>2, <2>2, <2>3, <2>6 DEF TextInvariant
<1>5. CASE read[r].op # "text"
  <2>1. UNCHANGED <<half, holder, mixed>>
    BY <1>5 DEF Text!Chunk
  <2>2. \A q \in Reader \ {r} : TextHolds(q)'
    BY <1>2, <2>1 DEF TextInvariant, TextHolds, Come, Text!Right
  <2>3. SubSeq(s, 1, n) = SubSeq(s, 1, k) \o chunk
    <3>1. n \in k..Len(s)
      BY <1>1
    <3> HIDE DEF s, k
    <3> QED
      BY <1>1, <3>1, Parts
  <2>4. TextHolds(r)'
    BY <1>1, <1>2, <1>3, <1>5, <2>1, <2>3 DEF TextHolds
  <2> QED
    BY <1>2, <2>1, <2>2, <2>4 DEF TextInvariant
<1> QED
  BY <1>4, <1>5

LEMMA StreamEndKeeps ==
    ASSUME TextInvariant, NEW r \in Reader, Text!End(r)
    PROVE  TextInvariant'
<1> DEFINE s == read[r].bytes
<1>1. /\ TextHolds(r) /\ DOMAIN read = Reader /\ read[r].at = "new" /\ read[r].op # "whole"
      /\ s \in Seq(Text!Byte) /\ read[r].taken = Len(s)
  BY SourceAssumption DEF TextInvariant, TextHolds, Text!End
<1>2. /\ DOMAIN read' = Reader /\ \A q \in Reader \ {r} : read'[q] = read[q]
      /\ DOMAIN read'[r] = {"at", "op", "bytes", "taken", "got"}
      /\ read'[r].at = "done" /\ read'[r].op = read[r].op /\ read'[r].bytes = s
      /\ read'[r].taken = read[r].taken
      /\ read'[r].got = IF read[r].op = "bytes" THEN read[r].got
                        ELSE read[r].got \o Text!DecodeLast(half, <<>>)
  <2>1. CASE read[r].op = "bytes"
    BY <1>1, <2>1 DEF Text!End, TextHolds
  <2>2. CASE read[r].op # "bytes"
    BY <1>1, <2>2 DEF Text!End, TextHolds
  <2> QED
    BY <2>1, <2>2
<1>3. Come(r) = s
  BY <1>1, SubSeqFull DEF Come
<1>4. CASE read[r].op # "bytes"
  <2>1. Text!Leaves(r, Text!NoHalf) /\ Text!Meets(r) /\ holder' = {}
    BY <1>4 DEF Text!End, Text!Leaves
  <2>2. /\ mixed' \subseteq Reader /\ holder' \subseteq Reader
        /\ half' = Text!NoHalf <=> holder' = {}
        /\ r \notin mixed' => /\ r \notin mixed
                              /\ half = IF r \in holder THEN half ELSE Text!NoHalf
    BY <2>1, DecoderTypes
  <2>3. \A q \in Reader \ {r} : TextHolds(q)'
    BY <1>2, <2>1, OthersKeep
  <2>4. Text!DecodeLast(half, <<>>) = Text!Flush(half)
    BY NothingDecoded
  <2>5. ASSUME r \notin mixed' PROVE Text!Right(r)'
    <3>1. CASE read[r].op = "text"
      <4>1. read[r].got = Text!Decode(Text!NoHalf, s) /\ Text!Kept(Text!NoHalf, s) = half
        BY <1>1, <1>3, <2>2, <2>5, <3>1 DEF TextHolds
      <4> QED
        BY <1>2, <2>4, <3>1, <4>1 DEF Text!Right, Text!DecodeLast
    <3>2. CASE read[r].op # "text"
      <4>1. read[r].got = s /\ half = Text!NoHalf
        BY <1>1, <1>3, <2>2, <2>5, <3>2 DEF TextHolds
      <4>2. read'[r].got = s \o <<>>
        BY <1>2, <1>4, <2>4, <4>1 DEF Text!Flush
      <4>3. s \o <<>> = s
        BY <1>1
      <4>4. read[r].op = "strings"
        BY <1>1, <1>4, <3>2 DEF TextHolds, Text!Op
      <4> QED
        BY <1>2, <4>2, <4>3, <4>4 DEF Text!Right
    <3> QED
      BY <3>1, <3>2
  <2>6. TextHolds(r)'
    BY <1>1, <1>2, <1>4, <2>1, <2>5 DEF TextHolds
  <2> QED
    BY <1>2, <2>2, <2>3, <2>6 DEF TextInvariant
<1>5. CASE read[r].op = "bytes"
  <2>1. UNCHANGED <<half, holder, mixed>>
    BY <1>5 DEF Text!End
  <2>2. \A q \in Reader \ {r} : TextHolds(q)'
    BY <1>2, <2>1 DEF TextInvariant, TextHolds, Come, Text!Right
  <2>3. r \notin mixed => Text!Right(r)'
    BY <1>1, <1>2, <1>3, <1>5 DEF TextHolds, Text!Right
  <2>4. TextHolds(r)'
    BY <1>1, <1>2, <1>5, <2>1, <2>3 DEF TextHolds
  <2> QED
    BY <1>2, <2>1, <2>2, <2>4 DEF TextInvariant
<1> QED
  BY <1>4, <1>5

LEMMA WholeKeeps ==
    ASSUME TextInvariant, NEW r \in Reader, Text!Whole(r)
    PROVE  TextInvariant'
<1>1. TextHolds(r) /\ DOMAIN read = Reader /\ read[r].at = "new" /\ read[r].op = "whole"
  BY DEF TextInvariant, Text!Whole
<1>2. /\ DOMAIN read' = Reader /\ \A q \in Reader \ {r} : read'[q] = read[q]
      /\ DOMAIN read'[r] = {"at", "op", "bytes", "taken", "got"}
      /\ read'[r].at = "done" /\ read'[r].op = "whole" /\ read'[r].bytes = read[r].bytes
      /\ read'[r].taken = read[r].taken /\ read'[r].got = Text!DecodeLast(half, read[r].bytes)
  BY <1>1 DEF Text!Whole, TextHolds
<1>3. Text!Leaves(r, Text!NoHalf) /\ Text!Meets(r) /\ holder' = {}
  BY DEF Text!Whole, Text!Leaves
<1>4. /\ mixed' \subseteq Reader /\ holder' \subseteq Reader
      /\ half' = Text!NoHalf <=> holder' = {}
      /\ r \notin mixed' => /\ r \notin mixed
                            /\ half = IF r \in holder THEN half ELSE Text!NoHalf
  BY <1>3, DecoderTypes
<1>5. \A q \in Reader \ {r} : TextHolds(q)'
  BY <1>2, <1>3, OthersKeep
<1>6. r \notin mixed' => half = Text!NoHalf
  BY <1>1, <1>4 DEF TextHolds
<1>7. r \notin mixed' => Text!Right(r)'
  BY <1>2, <1>6 DEF Text!Right
<1>8. TextHolds(r)'
  BY <1>1, <1>2, <1>3, <1>7 DEF TextHolds
<1> QED
  BY <1>2, <1>4, <1>5, <1>8 DEF TextInvariant

LEMMA BreaksKeeps ==
    ASSUME TextInvariant, NEW r \in Reader, Text!Breaks(r)
    PROVE  TextInvariant'
<1>1. TextHolds(r) /\ DOMAIN read = Reader
  BY DEF TextInvariant
<1>2. /\ DOMAIN read' = Reader /\ \A q \in Reader \ {r} : read'[q] = read[q]
      /\ read'[r] = [read[r] EXCEPT !.at = "failed"]
      /\ UNCHANGED <<half, holder, mixed>>
  BY <1>1 DEF Text!Breaks
<1>3. \A q \in Reader \ {r} : TextHolds(q)'
  BY <1>2 DEF TextInvariant, TextHolds, Come, Text!Right
<1>4. TextHolds(r)'
  BY <1>1, <1>2 DEF TextHolds
<1> QED
  BY <1>2, <1>3, <1>4 DEF TextInvariant

LEMMA TextInitHolds ==
    ASSUME Text!Init
    PROVE  TextInvariant
<1> DEFINE New == [at : {"new"}, op : Text!Op, bytes : Source, taken : {0}, got : {<<>>}]
<1>1. read \in [Reader -> New] /\ half = Text!NoHalf /\ holder = {} /\ mixed = {}
  BY DEF Text!Init
<1>2. ASSUME NEW r \in Reader PROVE TextHolds(r)
  <2>1. /\ read[r] \in New /\ DOMAIN read[r] = {"at", "op", "bytes", "taken", "got"}
        /\ read[r].at = "new" /\ read[r].bytes \in Seq(Text!Byte) /\ read[r].bytes \in Source
        /\ read[r].taken = 0 /\ read[r].got = <<>>
    BY <1>1, SourceAssumption
  <2>2. Come(r) = <<>>
    BY <2>1, SubSeqEmpty DEF Come
  <2>3. Text!Decode(Text!NoHalf, <<>>) = <<>> /\ Text!Kept(Text!NoHalf, <<>>) = Text!NoHalf
    BY NothingDecoded DEF Text!Kept
  <2>4. read[r].taken \in 0..Len(read[r].bytes)
    BY <2>1
  <2> QED
    BY <1>1, <2>1, <2>2, <2>3, <2>4 DEF TextHolds
<1> QED
  BY <1>1, <1>2 DEF TextInvariant

LEMMA TextStepKeeps ==
    ASSUME TextInvariant, Text!Next
    PROVE  TextInvariant'
BY ChunkKeeps, StreamEndKeeps, WholeKeeps, BreaksKeeps DEF Text!Next

\* What this application has stored stays, or something newer; and every read
\* that met no half of a character another had left in the decoder has the text
\* its bytes say, in whatever chunks they came.
THEOREM DataKeptHolds == ApiSpec => []DataKept
<1> DEFINE Inv == RecordInvariant /\ TextInvariant
<1>1. ApiInit => Inv
  BY RecordInitHolds, TextInitHolds DEF ApiInit
<1>2. Inv /\ [ApiNext]_<<vars, recordVars, textVars, workerVars, pageVars, shown>> => Inv'
  <2> SUFFICES ASSUME Inv, [ApiNext]_<<vars, recordVars, textVars, workerVars, pageVars, shown>>
               PROVE  Inv'
    OBVIOUS
  <2>1. [Record!Next]_(Record!vars)
    BY DEF ApiNext, recordVars, Record!vars
  <2>2. Text!Next \/ UNCHANGED textVars
    BY DEF ApiNext
  <2>3. UNCHANGED textVars => TextInvariant'
    BY DEF textVars, TextInvariant, TextHolds, Come, Text!Right
  <2> QED
    BY <2>1, <2>2, <2>3, RecordStepKeeps, TextStepKeeps
<1>3. Inv => DataKept
  <2> SUFFICES ASSUME Inv PROVE DataKept
    OBVIOUS
  <2>1. Text!TypeOK
    BY DEF TextInvariant, TextHolds, Text!TypeOK
  <2>2. Text!TextsRight
    BY <2>1 DEF TextInvariant, TextHolds, Text!TextsRight, Text!TypeOK
  <2> QED
    BY <2>2 DEF DataKept, RecordInvariant
<1> QED
  BY <1>1, <1>2, <1>3, PTL DEF ApiSpec

-----------------------------------------------------------------------------
(* DrlPage: links and images *)

\* The page is given the address the user wants; the navigation that is active is
\* the one wanted; resolved or not, a click is one on a link.
PageInvariant ==
    /\ Page!NavigatesAsWanted /\ Page!OverlayJustified /\ Page!SourcesRestored
    /\ activeNavigation # None => wanted # None /\ wanted.path = activeNavigation
    /\ \A c \in clicks : c.link \in Link
    /\ DOMAIN src = Image

LEMMA LinkStepKeeps ==
    ASSUME PageInvariant, Page!LinkNext
    PROVE  PageInvariant'
<1> USE PageAssumption DEF PageInvariant, Page!NavigatesAsWanted, Page!OverlayJustified,
        Page!SourcesRestored, Page!menuVars
<1>1. ASSUME NEW link \in Link, Page!Click(link) PROVE PageInvariant'
  BY <1>1 DEF Page!Click
<1>2. CASE Page!ShowOverlay
  BY <1>2 DEF Page!ShowOverlay
<1>3. CASE Page!CancelNavigation
  BY <1>3 DEF Page!CancelNavigation
<1>4. ASSUME NEW c \in clicks, Page!Navigate(c) PROVE PageInvariant'
  BY <1>4 DEF Page!Navigate
<1>5. ASSUME NEW c \in clicks, Page!NavigationFails(c) PROVE PageInvariant'
  BY <1>5 DEF Page!NavigationFails
<1>6. CASE Page!Leave
  BY <1>6 DEF Page!Leave
<1> QED
  BY <1>1, <1>2, <1>3, <1>4, <1>5, <1>6 DEF Page!LinkNext

LEMMA MenuStepKeeps ==
    ASSUME PageInvariant, Page!MenuNext
    PROVE  PageInvariant'
<1> USE DEF PageInvariant, Page!NavigatesAsWanted, Page!OverlayJustified,
        Page!SourcesRestored, Page!linkVars, Page!ResetContextMenuTarget
<1>1. ASSUME NEW i \in Image, Page!PressImage(i) PROVE PageInvariant'
  BY <1>1 DEF Page!PressImage
<1>2. ASSUME NEW i \in Image, Page!LookedUp(i) PROVE PageInvariant'
  BY <1>2 DEF Page!LookedUp
<1>3. ASSUME NEW i \in Image, Page!PointerUp(i) PROVE PageInvariant'
  BY <1>3 DEF Page!PointerUp
<1>4. CASE Page!AnimationFrame
  BY <1>4 DEF Page!AnimationFrame
<1>5. CASE Page!PointerCancel
  BY <1>5 DEF Page!PointerCancel
<1> QED
  BY <1>1, <1>2, <1>3, <1>4, <1>5 DEF Page!MenuNext

-----------------------------------------------------------------------------
(* DrlWorker: fetches of DRLs *)

\* e is what the cache may have of the DRL d, while its version is v.
EntryFits(d, e, v) ==
    /\ e.drl = d /\ d \notin Documents /\ e.version \in 1..v
    /\ e.time \in Nat /\ e.time <= time

Versions == version \in [Drl -> Nat] /\ \A d \in Drl : version[d] >= 1

\* The cache keeps one entry of a DRL, or none.
CacheHolds ==
    /\ time \in Nat
    /\ DOMAIN drlCache = Drl
    /\ \A d \in Drl : \A e \in drlCache[d] : EntryFits(d, e, version[d])
    /\ \A d \in Drl : \A e, f \in drlCache[d] : e = f
    /\ \A e \in puts : e.drl \in Drl /\ EntryFits(e.drl, e, version[e.drl])

\* A request q at a step before its answer goes by the version and the entry that
\* were there when it began; its answer, by one of them or what it has fetched.
RequestHolds(q) ==
    /\ q.step \in {"check", "fetch", "keep", "answered"} =>
          q.drl \in Drl /\ q.began \in 1..version[q.drl]
    /\ q.step = "check" =>
          /\ q.cached # {} /\ \A e, f \in q.cached : e = f
          /\ \A e \in q.cached : EntryFits(q.drl, e, q.began)
    /\ q.step = "keep" => q.version \in q.began..version[q.drl] /\ q.drl \notin Documents
    /\ q.step = "answered" =>
          /\ q.from = "fetch" => q.version \in q.began..version[q.drl]
          /\ q.from = "cache" => \E e \in q.cached :
                 /\ e.drl = q.drl /\ e.version = q.version /\ e.version <= q.began
                 /\ q.onLine => check.does = "keeps" /\ q.at < e.time + check.ttl

WorkerInvariant ==
    /\ Versions /\ CacheHolds
    /\ DOMAIN request = Request /\ \A r \in Request : RequestHolds(request[r])

\* The step of one request.
LEMMA RequestStepKeeps ==
    ASSUME WorkerInvariant, NEW r \in Request, NEW q,
           request' = [request EXCEPT ![r] = q], RequestHolds(q),
           UNCHANGED <<time, version, check, drlCache, puts>>
    PROVE  WorkerInvariant'
<1>1. /\ \A x \in Request : RequestHolds(request'[x])
      /\ DOMAIN request' = Request
  BY DEF WorkerInvariant
<1>2. \A x \in Request : RequestHolds(request[x])'
  BY <1>1 DEF RequestHolds, EntryFits
<1>3. Versions' /\ CacheHolds'
  BY DEF WorkerInvariant, Versions, CacheHolds, EntryFits
<1> QED
  BY <1>1, <1>2, <1>3 DEF WorkerInvariant

LEMMA HandleEventKeeps ==
    ASSUME WorkerInvariant, NEW r \in Request, NEW d \in Drl, Worker!HandleEvent(r, d)
    PROVE  WorkerInvariant'
<1> DEFINE c == drlCache[d]
           next(step) == [step |-> step, drl |-> d, began |-> version[d], cached |-> c]
           v == (CHOOSE e \in c : TRUE).version
           answer == [step |-> "answered", from |-> "cache", drl |-> d, began |-> version[d],
                      version |-> v, cached |-> c, at |-> time, onLine |-> onLine]
<1>1. /\ request' = [request EXCEPT ![r] = IF c = {} THEN next("fetch")
                                          ELSE IF ~onLine THEN answer ELSE next("check")]
      /\ UNCHANGED <<onLine, time, version, check, drlCache, puts>>
  BY DEF Worker!HandleEvent, Worker!Becomes, Worker!Only, Worker!Answered
<1>2. /\ version[d] \in 1..version[d]
      /\ \A e \in c : EntryFits(d, e, version[d])
      /\ \A e, f \in c : e = f
  BY DEF WorkerInvariant, Versions, CacheHolds
<1>3. RequestHolds(next("fetch"))
  BY <1>2 DEF RequestHolds
<1>4. c # {} => RequestHolds(next("check"))
  BY <1>2 DEF RequestHolds
<1>5. c # {} /\ ~onLine => RequestHolds(answer)
  <2> SUFFICES ASSUME c # {}, ~onLine PROVE RequestHolds(answer)
    OBVIOUS
  <2>1. PICK e \in c : v = e.version
    OBVIOUS
  <2>2. e.drl = d /\ e.version <= version[d]
    BY <1>2, <2>1 DEF EntryFits, WorkerInvariant, Versions
  <2> HIDE DEF v, c
  <2> QED
    BY <1>2, <2>1, <2>2 DEF RequestHolds
<1> HIDE DEF c, next, answer
<1> QED
  BY <1>1, <1>3, <1>4, <1>5, RequestStepKeeps

LEMMA CacheCheckKeeps ==
    ASSUME WorkerInvariant, NEW r \in Request,
           Worker!CacheCheck(r) \/ Worker!FetchFails(r)
    PROVE  WorkerInvariant'
<1> DEFINE q == request[r]
           v == (CHOOSE e \in q.cached : TRUE).version
           answer == [step |-> "answered", from |-> "cache", drl |-> q.drl, began |-> q.began,
                      version |-> v, cached |-> q.cached, at |-> time, onLine |-> onLine]
           failed == Worker!Failed(r)
           fetch == [q EXCEPT !.step = "fetch"]
<1>1. /\ UNCHANGED <<onLine, time, version, check, drlCache, puts>>
      /\ \/ request' = [request EXCEPT ![r] = failed]
         \/ /\ q.step = "check" /\ \E e \in q.cached : Worker!Fresh(e)
            /\ request' = [request EXCEPT ![r] = answer]
         \/ q.step = "check" /\ request' = [request EXCEPT ![r] = fetch]
      /\ q.step \in {"check", "fetch"}
  BY DEF Worker!CacheCheck, Worker!FetchFails, Worker!Becomes, Worker!Only, Worker!Answered
<1>2. RequestHolds(q) /\ q.drl \in Drl /\ q.began \in 1..version[q.drl]
  BY <1>1 DEF WorkerInvariant, RequestHolds
<1>3. RequestHolds(failed)
  BY <1>2 DEF RequestHolds, Worker!Failed, Worker!Answered
<1>4. RequestHolds(fetch)
  BY <1>2 DEF RequestHolds
<1>5. ASSUME q.step = "check", NEW e \in q.cached, Worker!Fresh(e) PROVE RequestHolds(answer)
  <2>1. v = e.version
    BY <1>2, <1>5 DEF RequestHolds
  <2>2. e.drl = q.drl /\ e.version <= q.began
    BY <1>2, <1>5 DEF RequestHolds, EntryFits, WorkerInvariant, Versions
  <2> HIDE DEF v, q
  <2> QED
    BY <1>2, <1>5, <2>1, <2>2 DEF RequestHolds, Worker!Fresh
<1> HIDE DEF failed, fetch, answer, q
<1> QED
  BY <1>1, <1>3, <1>4, <1>5, RequestStepKeeps

LEMMA FetchKeeps ==
    ASSUME WorkerInvariant, NEW r \in Request, Worker!FetchResource(r)
    PROVE  WorkerInvariant'
<1> DEFINE q == request[r]
           d == q.drl
           answer == [step |-> "answered", from |-> "fetch", drl |-> d, began |-> q.began,
                      version |-> version[d], cached |-> {}, at |-> time, onLine |-> onLine]
           keep == [step |-> "keep", drl |-> d, began |-> q.began, version |-> version[d]]
<1>1. /\ UNCHANGED <<onLine, time, version, check, drlCache, puts>>
      /\ q.step = "fetch"
      /\ request' = [request EXCEPT ![r] = IF d \in Documents THEN answer ELSE keep]
  BY DEF Worker!FetchResource, Worker!Becomes, Worker!Only, Worker!Answered
<1>2. d \in Drl /\ q.began \in 1..version[d] /\ version[d] \in Nat
  BY <1>1 DEF WorkerInvariant, RequestHolds, Versions
<1>3. RequestHolds(answer)
  BY <1>2 DEF RequestHolds
<1>4. d \notin Documents => RequestHolds(keep)
  BY <1>2 DEF RequestHolds
<1> HIDE DEF answer, keep
<1> QED
  BY <1>1, <1>3, <1>4, RequestStepKeeps

\* An answer is given, and the cache is to have it if the application says so.
LEMMA CacheResponseKeeps ==
    ASSUME WorkerInvariant, NEW r \in Request, Worker!CacheResponse(r)
    PROVE  WorkerInvariant'
<1> DEFINE q == request[r]
           answer == [step |-> "answered", from |-> "fetch", drl |-> q.drl, began |-> q.began,
                      version |-> q.version, cached |-> {}, at |-> time, onLine |-> onLine]
           failed == Worker!Failed(r)
           e == Worker!Entry(q.drl, q.version, time)
<1>1. /\ UNCHANGED <<onLine, time, version, check, drlCache>> /\ q.step = "keep"
      /\ \/ request' = [request EXCEPT ![r] = failed] /\ UNCHANGED puts
         \/ request' = [request EXCEPT ![r] = answer] /\ puts' \subseteq puts \cup {e}
  BY DEF Worker!CacheResponse, Worker!Becomes, Worker!Only, Worker!Answered
<1>2. /\ RequestHolds(q) /\ q.drl \in Drl /\ q.began \in 1..version[q.drl]
      /\ q.version \in q.began..version[q.drl] /\ q.drl \notin Documents
  BY <1>1 DEF WorkerInvariant, RequestHolds
<1>3. RequestHolds(failed)
  BY <1>2 DEF RequestHolds, Worker!Failed, Worker!Answered
<1>4. RequestHolds(answer)
  BY <1>2 DEF RequestHolds
<1>5. e.drl = q.drl /\ EntryFits(q.drl, e, version[q.drl])
  BY <1>2 DEF EntryFits, Worker!Entry, WorkerInvariant, CacheHolds, Versions
<1> HIDE DEF failed, answer, e, q
<1>6. CacheHolds' /\ Versions'
  BY <1>1, <1>2, <1>5 DEF WorkerInvariant, CacheHolds, Versions, EntryFits
<1>7. /\ \A x \in Request : RequestHolds(request'[x])
      /\ DOMAIN request' = Request
  BY <1>1, <1>3, <1>4 DEF WorkerInvariant
<1>8. \A x \in Request : RequestHolds(request[x])'
  BY <1>1, <1>7 DEF RequestHolds, EntryFits
<1> QED
  BY <1>6, <1>7, <1>8 DEF WorkerInvariant

\* The cache is written, time passes, versions come and the worker is stopped.
LEMMA AroundKeeps ==
    ASSUME WorkerInvariant,
           Worker!WorkerStops \/ Worker!Network \/ \E e \in puts : Worker!Put(e)
    PROVE  WorkerInvariant'
<1>1. CASE Worker!WorkerStops
  <2>1. /\ UNCHANGED <<time, version, drlCache>> /\ puts' = {}
        /\ request' = [r \in Request |-> [step |-> "idle"]]
    BY <1>1 DEF Worker!WorkerStops, Worker!Idle
  <2>2. \A r \in Request : RequestHolds(request[r])'
    BY <2>1 DEF RequestHolds
  <2> QED
    BY <2>1, <2>2 DEF WorkerInvariant, Versions, CacheHolds, EntryFits
<1>2. CASE Worker!Network
  <2>1. /\ UNCHANGED <<check, drlCache, puts, request>>
        /\ time' \in Nat /\ time <= time' /\ time \in Nat
        /\ version' \in [Drl -> Nat] /\ version \in [Drl -> Nat]
        /\ \A d \in Drl : version[d] <= version'[d] /\ version[d] >= 1
    BY <1>2 DEF Worker!Network, WorkerInvariant, Versions, CacheHolds
  <2>2. Versions'
    BY <2>1 DEF Versions
  <2>3. ASSUME NEW d \in Drl, NEW e, EntryFits(d, e, version[d])
        PROVE  EntryFits(d, e, version[d])'
    BY <2>1, <2>3 DEF EntryFits, CacheHolds
  <2>4. CacheHolds'
    BY <2>1, <2>3 DEF WorkerInvariant, CacheHolds
  <2>5. ASSUME NEW r \in Request PROVE RequestHolds(request[r])'
    <3> DEFINE q == request[r]
    <3>1. RequestHolds(q) /\ request'[r] = q
      BY <2>1 DEF WorkerInvariant
    <3>2. q.step = "check" => \A e \in q.cached : EntryFits(q.drl, e, q.began)'
      BY <2>1, <3>1 DEF RequestHolds, EntryFits
    <3>3. q.step \in {"check", "fetch", "keep", "answered"} =>
             q.drl \in Drl /\ q.began \in 1..version'[q.drl]
      BY <2>1, <3>1 DEF RequestHolds
    <3>4. \/ q.step = "keep"
          \/ q.step = "answered" /\ q.from = "fetch"
          => q.version \in q.began..version'[q.drl]
      BY <2>1, <3>1 DEF RequestHolds
    <3> QED
      BY <2>1, <3>1, <3>2, <3>3, <3>4 DEF RequestHolds
  <2> QED
    BY <2>1, <2>2, <2>4, <2>5 DEF WorkerInvariant
<1>3. ASSUME NEW e \in puts, Worker!Put(e) PROVE WorkerInvariant'
  <2>1. /\ UNCHANGED <<time, version, check, request>>
        /\ drlCache' = [drlCache EXCEPT ![e.drl] = {e}] /\ puts' = puts \ {e}
        /\ e.drl \in Drl /\ EntryFits(e.drl, e, version[e.drl])
    BY <1>3 DEF Worker!Put, Worker!Only, WorkerInvariant, CacheHolds
  <2>2. CacheHolds' /\ Versions'
    BY <2>1 DEF WorkerInvariant, CacheHolds, Versions, EntryFits
  <2>3. \A r \in Request : RequestHolds(request[r])'
    BY <2>1 DEF WorkerInvariant, RequestHolds, EntryFits
  <2> QED
    BY <2>1, <2>2, <2>3 DEF WorkerInvariant
<1> QED
  BY <1>1, <1>2, <1>3

LEMMA WorkerStepKeeps ==
    ASSUME WorkerInvariant, Worker!Next
    PROVE  WorkerInvariant'
BY HandleEventKeeps, CacheCheckKeeps, FetchKeeps, CacheResponseKeeps, AroundKeeps
   DEF Worker!Next

\* A DRL is answered with a version that it had, and only from a cache that the
\* application wants; the address a page is sent to is that of the last link that
\* was clicked and not stopped by then; images get their address back, but for
\* those that were looked up too late.
THEOREM DrlsRightHolds == ApiSpec => []DrlsRight
<1> DEFINE Inv == WorkerInvariant /\ PageInvariant
<1>1. ApiInit => Inv
  <2> SUFFICES ASSUME ApiInit PROVE Inv
    OBVIOUS
  <2>1. Worker!Init /\ Page!Init
    BY DEF ApiInit
  <2>2. WorkerInvariant
    BY <2>1 DEF Worker!Init, Worker!Idle, WorkerInvariant, Versions, CacheHolds, RequestHolds,
       EntryFits
  <2>3. PageInvariant
    BY <2>1 DEF Page!Init, PageInvariant, Page!NavigatesAsWanted, Page!OverlayJustified,
       Page!SourcesRestored
  <2> QED
    BY <2>2, <2>3
<1>2. Inv /\ [ApiNext]_<<vars, recordVars, textVars, workerVars, pageVars, shown>> => Inv'
  <2> SUFFICES ASSUME Inv, [ApiNext]_<<vars, recordVars, textVars, workerVars, pageVars, shown>>
               PROVE  Inv'
    OBVIOUS
  <2>1. Worker!Next \/ UNCHANGED workerVars
    BY DEF ApiNext
  <2>2. Page!LinkNext \/ Page!MenuNext \/ UNCHANGED pageVars
    BY DEF ApiNext
  <2>3. UNCHANGED workerVars => WorkerInvariant'
    BY DEF workerVars, WorkerInvariant, Versions, CacheHolds, RequestHolds, EntryFits
  <2>4. UNCHANGED pageVars => PageInvariant'
    BY DEF pageVars, PageInvariant, Page!NavigatesAsWanted, Page!OverlayJustified,
       Page!SourcesRestored
  <2> QED
    BY <2>1, <2>2, <2>3, <2>4, WorkerStepKeeps, LinkStepKeeps, MenuStepKeeps
<1>3. Inv => DrlsRight
  <2> SUFFICES ASSUME Inv PROVE DrlsRight
    OBVIOUS
  <2>1. Worker!AnswersRight
    BY DEF WorkerInvariant, RequestHolds, Worker!AnswersRight
  <2>2. Worker!CacheRight
    BY DEF WorkerInvariant, CacheHolds, EntryFits, Worker!CacheRight
  <2> QED
    BY <2>1, <2>2 DEF DrlsRight, PageInvariant
<1> QED
  BY <1>1, <1>2, <1>3, PTL DEF ApiSpec
=============================================================================
