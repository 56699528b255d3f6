----------------------------- MODULE Permissions -----------------------------
(***************************************************************************)
(* Permission requests, grants and revocations between one grantor, the    *)
(* owner, and one grantee, the delegate: AgentPermissionsApi               *)
(* (permissions-api.ts) and the objects the API makes of their records     *)
(* (permission-request.ts, permission-grant.ts, grant-revocation.ts,       *)
(* permissions of api/src/dwn-api.ts).  The delegate's calls look for the  *)
(* grant that lets a request through, and list the grants.                 *)
(*                                                                         *)
(* Nodes are external; their permissions protocol takes a grant or a       *)
(* revocation from its tenant or with its tenant's signature, a revocation *)
(* only where its grant is, and a request from anyone.                     *)
(***************************************************************************)
EXTENDS Integers

CONSTANTS
    Grant,         \* grants that may be given
    ScopeOf,       \* their scope: type, protocol, narrow, and delegated
    Requested,     \* bound: grants that are asked for before they are given
    Revocable,     \* bound: grants that may be revoked
    Type,          \* message types
    Protocol,
    AnyProtocol,   \* the protocol of a scope without one
    NoGrant,
    Caller         \* concurrent calls of the delegate

ASSUME PermissionAssumption ==
    /\ ScopeOf \in [Grant -> [type : Type, protocol : Protocol \cup {AnyProtocol},
                              narrow : BOOLEAN, delegated : BOOLEAN]]
    /\ Requested \subseteq Grant /\ Revocable \subseteq Grant
    /\ Type # {} /\ Protocol # {}
    /\ AnyProtocol \notin Protocol /\ NoGrant \notin Grant

Node == {"owner", "delegate"}
Message == [kind : {"request", "grant", "revocation"}, grant : Grant]
Msg(kind, g) == [kind |-> kind, grant |-> g]

\* A call with delegate: TRUE asks for a delegated grant; sync and
\* protocols.query do not (sync-engine-level.ts, api/src/dwn-api.ts).
AsksDelegated(type) == type \in {"RecordsWrite", "RecordsRead", "ProtocolsConfigure"}
IsRecordsType(type) == type \in {"RecordsWrite", "RecordsRead"}

Key == Type \X Protocol

VARIABLES
    made,      \* the records made, stored or not
    date,      \* when each grant was made, 0 before
    granted,   \* the last date given
    on,        \* what every node has
    cache,     \* _cachedPermissions
    call,      \* the calls of the delegate
    before     \* history: revocations at the node when a listing began

vars == <<made, date, granted, on, cache, call, before>>

Idle == [at |-> "idle", type |-> CHOOSE t \in Type : TRUE,
         protocol |-> CHOOSE p \in Protocol : TRUE, entries |-> {}, grants |-> {}]

TypeOK ==
    /\ made \subseteq Message
    /\ date \in [Grant -> Nat]
    /\ granted \in Nat
    /\ on \in [Node -> SUBSET made]
    /\ cache \in [Key -> Grant \cup {NoGrant}]
    /\ call \in [Caller -> [at : {"idle", "matching", "found", "refused", "listing"},
                            type : Type, protocol : Protocol,
                            entries : SUBSET Grant, grants : SUBSET Grant]]
    /\ before \in [Caller -> SUBSET Grant]

Init ==
    /\ made = {}
    /\ date = [g \in Grant |-> 0]
    /\ granted = 0
    /\ on = [n \in Node |-> {}]
    /\ cache = [k \in Key |-> NoGrant]
    /\ call = [c \in Caller |-> Idle]
    /\ before = [c \in Caller |-> {}]

-----------------------------------------------------------------------------
(* Writing the records. *)

Exists(m) == m \in made

Accepts(n, m, signed) ==
    /\ m.kind = "request" \/ n = "owner" \/ signed
    /\ m.kind = "revocation" => Msg("grant", m.grant) \in on[n]

Stored(n, m) == on' = [on EXCEPT ![n] = @ \cup {m}]

\* A record made by its author; refused by the node, it does not come to be.
Create(n, m, store) ==
    /\ ~Exists(m)
    /\ made' = made \cup {m}
    /\ IF m.kind = "grant"
       THEN granted' = granted + 1 /\ date' = [date EXCEPT ![m.grant] = granted + 1]
       ELSE UNCHANGED <<date, granted>>
    /\ IF store THEN Accepts(n, m, TRUE) /\ Stored(n, m) ELSE UNCHANGED on
    /\ UNCHANGED <<cache, call, before>>

CreateRequest(g, store) ==
    /\ g \in Requested
    /\ Create("delegate", Msg("request", g), store)

CreateGrant(g, store) == Create("owner", Msg("grant", g), store)

CreateRevocation(g, store) == Create("owner", Msg("revocation", g), store)

\* The owner gives a grant unasked, or the one of a request, and revokes it.
GrantPermission(g, store) == g \notin Requested /\ CreateGrant(g, store)

GrantRequest(g, store) ==
    /\ g \in Requested /\ Exists(Msg("request", g))
    /\ CreateGrant(g, store)

Revoke(g, store) ==
    /\ g \in Revocable /\ Exists(Msg("grant", g))
    /\ CreateRevocation(g, store)

\* A record goes to a node, with or without the signature of its tenant.
Deliver(n, m, signed) ==
    /\ Exists(m) /\ m \notin on[n]
    /\ Accepts(n, m, signed)
    /\ Stored(n, m)
    /\ UNCHANGED <<made, date, granted, cache, call, before>>

\* send() to any target; store() and import() at the caller's own node.
SendRequest(g, n)           == Deliver(n, Msg("request", g), FALSE)
StoreRequest(g, n)          == Deliver(n, Msg("request", g), FALSE)
SendGrant(g, n)             == Deliver(n, Msg("grant", g), FALSE)
StoreGrant(g, n, import)    == Deliver(n, Msg("grant", g), import)
ImportGrant(g, n)           == Deliver(n, Msg("grant", g), TRUE)
SendRevocation(g, n)        == Deliver(n, Msg("revocation", g), FALSE)
StoreRevocation(g, n, import) == Deliver(n, Msg("revocation", g), import)

-----------------------------------------------------------------------------
(* Reading them. *)

\* fetchGrants(): the grants at a node, revoked or not.  They come oldest first,
\* and are gone through in that order.
FetchGrants(n) == {g \in Grant : Msg("grant", g) \in on[n]}

Oldest(grants) == CHOOSE g \in grants : \A h \in grants : date[g] <= date[h]

IsGrantRevoked(n, g) == Msg("revocation", g) \in on[n]

\* matchScopeFromGrant() for a request that names no path and no context.
MatchScope(type, protocol, g) ==
    LET scope == ScopeOf[g] IN
    /\ scope.type = type
    /\ IF IsRecordsType(type)
       THEN scope.protocol = protocol /\ ~scope.narrow
       ELSE scope.protocol = AnyProtocol
            \/ (scope.protocol = protocol /\ ~scope.narrow)

\* matchGrantFromArray(): the first that fits.
Match(type, protocol, grants) ==
    LET match == {g \in grants : /\ AsksDelegated(type) => ScopeOf[g].delegated
                                 /\ MatchScope(type, protocol, g)}
    IN  IF match = {} THEN NoGrant ELSE Oldest(match)

\* Mutant: the protocol is not part of the key.
KeyWithoutProtocol(type, protocol) == <<type, CHOOSE p \in Protocol : TRUE>>

CacheKey(type, protocol) == <<type, protocol>>

\* getPermissionForRequest(), up to its query.
GetPermission(c, type, protocol, cached) ==
    LET known == cache[CacheKey(type, protocol)]
        asked == [Idle EXCEPT !.type = type, !.protocol = protocol]
    IN
    /\ call[c].at = "idle"
    /\ call' = [call EXCEPT ![c] =
          IF cached /\ known # NoGrant
          THEN [asked EXCEPT !.at = "found", !.grants = {known}]
          ELSE [asked EXCEPT !.at = "matching", !.entries = FetchGrants("delegate")]]
    /\ UNCHANGED <<made, date, granted, on, cache, before>>

\* And from there: the match is cached, whatever has become of it.
MatchGrant(c) ==
    LET g == Match(call[c].type, call[c].protocol, call[c].entries) IN
    /\ call[c].at = "matching"
    /\ IF g = NoGrant
       THEN /\ call' = [call EXCEPT ![c].at = "refused"]
            /\ UNCHANGED cache
       ELSE /\ call' = [call EXCEPT ![c].at = "found", ![c].grants = {g}]
            /\ cache' = [cache EXCEPT ![CacheKey(call[c].type, call[c].protocol)] = g]
    /\ UNCHANGED <<made, date, granted, on, before>>

\* queryGrants({ checkRevoked: true }).
QueryGrants(c) ==
    /\ call[c].at = "idle"
    /\ call' = [call EXCEPT ![c] =
          [Idle EXCEPT !.at = "listing", !.entries = FetchGrants("delegate")]]
    /\ before' = [before EXCEPT ![c] = {g \in Grant : IsGrantRevoked("delegate", g)}]
    /\ UNCHANGED <<made, date, granted, on, cache>>

CheckRevoked(c) ==
    /\ call[c].at = "listing" /\ call[c].entries # {}
    /\ LET g == Oldest(call[c].entries) IN
       call' = [call EXCEPT ![c].entries = @ \ {g},
                            ![c].grants = IF IsGrantRevoked("delegate", g) THEN @
                                          ELSE @ \cup {g}]
    /\ UNCHANGED <<made, date, granted, on, cache, before>>

Return(c) ==
    /\ \/ call[c].at \in {"found", "refused"}
       \/ call[c].at = "listing" /\ call[c].entries = {}
    /\ call' = [call EXCEPT ![c] = Idle]
    /\ before' = [before EXCEPT ![c] = {}]
    /\ UNCHANGED <<made, date, granted, on, cache>>

\* An entry lives for a minute.
Expire(key) ==
    /\ cache[key] # NoGrant
    /\ cache' = [cache EXCEPT ![key] = NoGrant]
    /\ UNCHANGED <<made, date, granted, on, call, before>>

Clear ==
    /\ cache' = [k \in Key |-> NoGrant]
    /\ UNCHANGED <<made, date, granted, on, call, before>>

Next ==
    \/ \E g \in Grant, store \in BOOLEAN :
          \/ CreateRequest(g, store) \/ GrantPermission(g, store)
          \/ GrantRequest(g, store) \/ Revoke(g, store)
    \/ \E g \in Grant, n \in Node :
          \/ SendRequest(g, n) \/ StoreRequest(g, n)
          \/ SendGrant(g, n) \/ ImportGrant(g, n) \/ SendRevocation(g, n)
          \/ \E import \in BOOLEAN :
                StoreGrant(g, n, import) \/ StoreRevocation(g, n, import)
    \/ \E c \in Caller :
          \/ \E type \in Type, protocol \in Protocol, cached \in BOOLEAN :
                GetPermission(c, type, protocol, cached)
          \/ MatchGrant(c) \/ QueryGrants(c) \/ CheckRevoked(c) \/ Return(c)
    \/ Clear
    \/ \E key \in Key : Expire(key)

Spec == Init /\ [][Next]_vars

-----------------------------------------------------------------------------
\* Safety: the grant a request is made with is at the delegate's node and for that
\* request, a delegated one where it has to be: what the cache does not key on
\* must not matter
\* (permissions-api.ts lines 38-66).
GrantFits ==
    \A c \in Caller : call[c].at = "found" =>
        \E g \in FetchGrants("delegate") :
            /\ call[c].grants = {g}
            /\ MatchScope(call[c].type, call[c].protocol, g)
            /\ AsksDelegated(call[c].type) => ScopeOf[g].delegated

\* Safety: a request is refused only if the delegate's node had no grant for it
\* (lines 330-346).
RefusedRightly ==
    \A c \in Caller : call[c].at = "refused" =>
        \A g \in call[c].entries :
            MatchScope(call[c].type, call[c].protocol, g) =>
                AsksDelegated(call[c].type) /\ ~ScopeOf[g].delegated

\* Safety: a listing that leaves revoked grants out has none whose revocation was
\* there when it began (api/src/dwn-api.ts lines 387-416).
NoRevokedListed ==
    \A c \in Caller : call[c].at = "listing" =>
        call[c].grants \cap before[c] = {}

\* Safety: a lookup finds what fits, refuses only what has no grant, and a
\* listing that is to leave out what is revoked does.
LookupsRight == TypeOK /\ GrantFits /\ RefusedRightly /\ NoRevokedListed
=============================================================================
