---------------------------- MODULE WalletConnect ----------------------------
(***************************************************************************)
(* WalletConnect: an app asks for permissions through a connect server, a  *)
(* wallet grants them to a new delegate DID and leaves that DID, encrypted *)
(* for the app and a PIN, at the server, which the app polls (connect.ts,  *)
(* oidc.ts, pollWithTtl in utils.ts).                                      *)
(*                                                                         *)
(* A session is one call of initClient() with the key pair it creates; a   *)
(* submission is one call of submitAuthResponse(), and its number stands   *)
(* for the delegate DID it creates.                                        *)
(***************************************************************************)
EXTENDS Integers, FiniteSets

CONSTANTS
    Protocol,
    Asks,           \* what an app may ask: permissions for some protocols
    Local,          \* the wallet's own node
    Remote,         \* the endpoints of the DID whose wallet it is
    Routes,         \* which endpoints may answer for the grants of one job
    MaxSession,     \* bound: calls of initClient()
    MaxSubmission   \* bound: calls of submitAuthResponse()

Permissions == {"write", "read", "delete", "query", "subscribe", "configure"}

RecordsType == {"RecordsWrite", "RecordsRead", "RecordsDelete",
                "RecordsQuery", "RecordsSubscribe"}
MessageType == RecordsType \cup
    {"ProtocolsQuery", "ProtocolsConfigure", "MessagesRead", "MessagesQuery",
     "MessagesSubscribe"}

ASSUME ConnectAssumption ==
    /\ \A ask \in Asks : /\ DOMAIN ask \subseteq Protocol
                         /\ \A p \in DOMAIN ask : ask[p] \subseteq Permissions
    /\ Local \notin Remote
    /\ Routes \subseteq [MessageType -> Remote]
    /\ MaxSession \in Nat
    /\ MaxSubmission \in Nat

Session    == 1..MaxSession
Submission == 1..MaxSubmission
Nobody     == 0

-----------------------------------------------------------------------------
(* The scopes of a request. *)

Scope == [protocol : Protocol, messageType : MessageType]

\* In any case the app may ask for the protocol and sync it.
BaseTypes == {"ProtocolsQuery", "MessagesRead", "MessagesQuery",
              "MessagesSubscribe"}

TypeOf(permission) ==
    CASE permission = "write"     -> "RecordsWrite"
      [] permission = "read"      -> "RecordsRead"
      [] permission = "delete"    -> "RecordsDelete"
      [] permission = "query"     -> "RecordsQuery"
      [] permission = "subscribe" -> "RecordsSubscribe"
      [] permission = "configure" -> "ProtocolsConfigure"

CreatePermissionRequestForProtocol(p, permissions) ==
    [protocol : {p},
     messageType : BaseTypes \cup {TypeOf(x) : x \in permissions}]

Scopes(ask) ==
    UNION {CreatePermissionRequestForProtocol(p, ask[p]) : p \in DOMAIN ask}

ShouldUseDelegatePermission(scope) ==
    scope.messageType \in RecordsType \cup {"ProtocolsConfigure"}

GrantOf(s, scope) == [grantedTo |-> s, scope |-> scope,
                      delegated |-> ShouldUseDelegatePermission(scope)]
Grant == [grantedTo : Submission, scope : Scope, delegated : BOOLEAN]

-----------------------------------------------------------------------------
VARIABLES
    asked,      \* the request of every session, as its code carries it
    pushed,     \* server: sessions whose request it keeps
    response,   \* server: the submission answering a session
    poll,       \* pollWithTtl of every session
    session,    \* where initClient() is in every session
    received,   \* the submission whose response a session has polled
    wallet,     \* submitAuthResponse()
    protocols,  \* the protocols on every node
    grants      \* the grants on every node

Node == {Local} \cup Remote
connect == <<asked, pushed, response, poll, session, received>>
issue   == <<wallet, protocols, grants>>

\* A protocol in a submission.
JobStep == {"none", "query", "send", "process", "resend", "create", "deliver",
            "done", "failed"}
Wallet == [at : {"idle", "running", "failed", "posted"},
           session : Session \cup {Nobody},
           job : [Protocol -> JobStep]]

ConnectTypeOK ==
    /\ asked \in [Session -> Asks \cup {<< >>}]
    /\ pushed \subseteq Session
    /\ response \in [Session -> Submission \cup {Nobody}]
    /\ poll \in [Session -> {"off", "timer", "fetch"}]
    /\ session \in
          [Session -> {"new", "polling", "pin", "failed", "done"}]
    /\ received \in [Session -> Submission \cup {Nobody}]
    /\ wallet \in [Submission -> Wallet]
    /\ protocols \in [Node -> SUBSET Protocol]
    /\ grants \in [Node -> SUBSET Grant]

ConnectInit ==
    /\ asked = [a \in Session |-> << >>]
    /\ pushed = {}
    /\ response = [a \in Session |-> Nobody]
    /\ poll = [a \in Session |-> "off"]
    /\ session = [a \in Session |-> "new"]
    /\ received = [a \in Session |-> Nobody]
    /\ wallet = [s \in Submission |-> [at |-> "idle", session |-> Nobody,
                                       job |-> [p \in Protocol |-> "none"]]]
    /\ protocols \in {[n \in Node |-> IF n = Local THEN P ELSE {}] :
                         P \in SUBSET Protocol}
    /\ grants = [n \in Node |-> {}]

-----------------------------------------------------------------------------
(* The app. *)

\* The request is pushed, its URI shown to the user and polling begins.
InitClient(a, ask) ==
    /\ session[a] = "new"
    /\ asked' = [asked EXCEPT ![a] = ask]
    /\ \/ /\ pushed' = pushed \cup {a}
          /\ session' = [session EXCEPT ![a] = "polling"]
          /\ poll' = [poll EXCEPT ![a] = "timer"]
       \/ /\ session' = [session EXCEPT ![a] = "failed"]
          /\ UNCHANGED <<pushed, poll>>
    /\ UNCHANGED <<response, received, issue>>

\* Whatever the promise of pollWithTtl has come to, only the first counts.
Settles(a, outcome) ==
    session' = IF session[a] = "polling" THEN [session EXCEPT ![a] = outcome]
               ELSE session

Poll(a) ==
    /\ poll[a] = "timer"
    /\ poll' = [poll EXCEPT ![a] = "fetch"]
    /\ UNCHANGED <<asked, pushed, response, session, received, issue>>

\* Mutant: the time to live is not looked at.
PollEndsNever(a) ==
    /\ poll[a] = "timer"
    /\ session[a] # "polling"
    /\ poll' = [poll EXCEPT ![a] = "off"]
    /\ UNCHANGED <<asked, pushed, response, session, received, issue>>

\* The time to live is over: null.
PollEnds(a) ==
    /\ poll[a] = "timer"
    /\ poll' = [poll EXCEPT ![a] = "off"]
    /\ Settles(a, "failed")
    /\ UNCHANGED <<asked, pushed, response, received, issue>>

\* The server answers with the response, or that it has none yet.
PollFetched(a) ==
    /\ poll[a] = "fetch"
    /\ IF response[a] = Nobody
       THEN poll' = [poll EXCEPT ![a] = "timer"] /\ UNCHANGED <<session, received>>
       ELSE /\ poll' = [poll EXCEPT ![a] = "off"]
            /\ Settles(a, "pin")
            /\ received' = IF session[a] = "polling"
                           THEN [received EXCEPT ![a] = response[a]]
                           ELSE received
    /\ UNCHANGED <<asked, pushed, response, issue>>

\* The fetch fails: the promise is rejected and polling goes on.
PollRejected(a) ==
    /\ poll[a] = "fetch"
    /\ poll' = [poll EXCEPT ![a] = "timer"]
    /\ Settles(a, "failed")
    /\ UNCHANGED <<asked, pushed, response, received, issue>>

\* Decryption succeeds with the right PIN only.
EnterPin(a) ==
    /\ session[a] = "pin"
    /\ \E outcome \in {"done", "failed"} :
          session' = [session EXCEPT ![a] = outcome]
    /\ UNCHANGED <<asked, pushed, response, poll, received, issue>>

-----------------------------------------------------------------------------
(* The wallet. *)

\* A user scans the code of a session: the wallet asks the server for the
\* request, and the user consents.  One request is worked on at a time.
SubmitAuthResponse(s, a) ==
    /\ wallet[s].at = "idle"
    /\ \A q \in Submission : q < s => wallet[q].at \notin {"idle", "running"}
    /\ a \in pushed
    /\ wallet' = [wallet EXCEPT ![s] =
          [at |-> "running", session |-> a,
           job |-> [p \in Protocol |-> IF p \in DOMAIN asked[a] THEN "query"
                                       ELSE "none"]]]
    /\ UNCHANGED <<connect, protocols, grants>>

\* The jobs of a submission run at once; those that remain when one has failed
\* go on.
AllButOne(S) == S \ {CHOOSE x \in S : TRUE}
JobAt(s, p, step) == wallet[s].job[p] = step
JobGoes(s, p, step) ==
    wallet' = [wallet EXCEPT
        ![s].job[p] = step,
        ![s].at = IF step = "failed" THEN "failed" ELSE @]

JobScopes(s, p) == {x \in Scopes(asked[wallet[s].session]) : x.protocol = p}
JobGrants(s, p) == {GrantOf(s, x) : x \in JobScopes(s, p)}

\* prepareProtocol() asks the wallet's node for the protocol.
QueryProtocol(s, p) ==
    /\ JobAt(s, p, "query")
    /\ \/ JobGoes(s, p, IF p \in protocols[Local] THEN "resend" ELSE "send")
       \/ JobGoes(s, p, "failed")
    /\ UNCHANGED <<connect, protocols, grants>>

\* A request to the remote nodes is answered by the first endpoint that can be
\* reached, another one from request to request: it gets the protocol (202) or
\* has it (409).
SendProtocol(s, p) ==
    \E step \in {"send", "resend"} :
        /\ JobAt(s, p, step)
        /\ \/ /\ \E n \in Remote :
                    protocols' = [protocols EXCEPT ![n] = @ \cup {p}]
              /\ JobGoes(s, p, IF step = "send" THEN "process" ELSE "create")
           \/ JobGoes(s, p, "failed") /\ UNCHANGED protocols
        /\ UNCHANGED <<connect, grants>>

\* Then the wallet's own node, whose answer is not looked at.
ProcessProtocol(s, p) ==
    /\ JobAt(s, p, "process")
    /\ \/ /\ protocols' = [protocols EXCEPT ![Local] = @ \cup {p}]
          /\ JobGoes(s, p, "create")
       \/ /\ \E step \in {"create", "failed"} : JobGoes(s, p, step)
          /\ UNCHANGED protocols
    /\ UNCHANGED <<connect, grants>>

\* createPermissionGrants(): all grants at once, first on the wallet's node and
\* then each to the endpoint that answers for it.  The others stay when one
\* fails; which one is the same to a delegate nobody hears of.
Issue(s, p, at, route, next) ==
    LET sent(G, n) == {g \in G : route[g.scope.messageType] = n} IN
    /\ JobAt(s, p, at)
    /\ \/ /\ grants' = [n \in Node |-> grants[n] \cup sent(JobGrants(s, p), n)]
          /\ JobGoes(s, p, next)
       \/ /\ grants' = [n \in Node |-> grants[n] \cup
                                          sent(AllButOne(JobGrants(s, p)), n)]
          /\ JobGoes(s, p, "failed")
    /\ UNCHANGED <<connect, protocols>>

CreateGrants(s, p) ==
    Issue(s, p, "create", [t \in MessageType |-> Local], "deliver")

DeliverGrants(s, p) ==
    \E route \in Routes : Issue(s, p, "deliver", route, "done")

\* Mutant: the app is answered while the grants are still on their way.
PostResponseEarly(s) ==
    LET a == wallet[s].session IN
    /\ wallet[s].at = "running"
    /\ \A p \in Protocol : wallet[s].job[p] \in {"none", "deliver", "done"}
    /\ wallet' = [wallet EXCEPT ![s].at = "posted"]
    /\ response' = [response EXCEPT ![a] = s]
    /\ UNCHANGED <<asked, pushed, poll, session, received, protocols, grants>>

\* When all jobs are done the response is left at the server, whose answer is
\* not looked at.
PostResponse(s) ==
    LET a == wallet[s].session IN
    /\ wallet[s].at = "running"
    /\ \A p \in Protocol : wallet[s].job[p] \in {"none", "done"}
    /\ wallet' = [wallet EXCEPT ![s].at = "posted"]
    /\ \/ response' = [response EXCEPT ![a] = s]
       \/ UNCHANGED response
    /\ UNCHANGED <<asked, pushed, poll, session, received, protocols, grants>>

PollNext(a) == Poll(a) \/ PollEnds(a) \/ PollFetched(a) \/ PollRejected(a)

WalletNext ==
    \E s \in Submission :
        \/ \E a \in Session : SubmitAuthResponse(s, a)
        \/ \E p \in Protocol :
              \/ QueryProtocol(s, p) \/ SendProtocol(s, p)
              \/ ProcessProtocol(s, p) \/ CreateGrants(s, p)
              \/ DeliverGrants(s, p)
        \/ PostResponse(s)

ConnectNext ==
    \/ \E a \in Session : PollNext(a) \/ EnterPin(a)
    \/ WalletNext

-----------------------------------------------------------------------------
\* What is at one endpoint or another.
RemoteProtocols == UNION {protocols[n] : n \in Remote}
RemoteGrants == UNION {grants[n] : n \in Remote}

\* Safety: when an app has a response, each protocol it asked for is at one of
\* the endpoints, and each grant, for the delegate in that response, on the
\* wallet's node and at one of the endpoints, whatever other submissions do
\* (oidc.ts lines 767-790).  They may all be at different endpoints.
GrantedBeforeAnswered ==
    \A a \in Session : \A s \in {response[a], received[a]} \ {Nobody} :
        /\ DOMAIN asked[a] \subseteq RemoteProtocols
        /\ {GrantOf(s, x) : x \in Scopes(asked[a])}
               \subseteq grants[Local] \cap RemoteGrants
=============================================================================
