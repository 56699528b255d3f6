---------------------------- MODULE Web5Connect ----------------------------
(***************************************************************************)
(* Web5.connect() with an agent of its own (web5.ts): the agent is         *)
(* launched, an identity found, received from a wallet or created, its DID *)
(* registered with the DWN servers and for sync.  Identities are kept as   *)
(* in identity-api.ts: the keys, the DID and the metadata, one after the   *)
(* other.  The application calls connect() again after a failure or a      *)
(* restart.                                                                *)
(***************************************************************************)
EXTENDS WalletConnect

CONSTANTS
    MaxCreated,  \* bound: identities created here
    MaxTry,      \* bound: these and calls of initClient() together
    Endpoint,    \* DWN endpoints of the application
    Requires,    \* those that require a registration
    Options,     \* what the application may call connect() with
    MayCrash     \* whether the process may stop

\* Whether there are wallet options, sync is not "off", and there is a
\* registration.
Option == [wallet : BOOLEAN, sync : BOOLEAN, registration : BOOLEAN]

ASSUME Web5Assumption ==
    /\ MaxCreated \in Nat
    /\ MaxTry \in Nat
    /\ Requires \subseteq Endpoint
    /\ Options \subseteq Option
    /\ MayCrash \in BOOLEAN

\* The identity a submission delegates to has its number; others follow.
Created  == (MaxSubmission + 1)..(MaxSubmission + MaxCreated)
Identity == Submission \cup Created

\* Owner of the delegated identities, and the agent.
Owner == 0
AgentDid == -1
Did == Identity \cup {Owner, AgentDid}

AppStep == {"idle", "launch", "start", "find", "wallet", "importDid",
            "importIdentity", "grants", "cleanDid", "cleanIdentity",
            "createDid", "createIdentity", "register", "registerSync",
            "pull", "connected"}

App == [at : AppStep,
        option : Option,
        session : Session \cup {Nobody},
        identity : Identity \cup {Nobody},
        registerSync : BOOLEAN,
        protocols : SUBSET Protocol,
        endpoints : SUBSET Endpoint,
        told : {"nothing", "success", "failure"}]  \* callback of registration

VARIABLES
    app,          \* connect()
    initialized,  \* the vault is
    keys,         \* LocalKeyManager: identities whose keys it has
    dids,         \* DID store
    identities,   \* identity store
    stored,       \* grants stored for the delegates
    syncing,      \* SyncEngineLevel: registered identities
    tenants,      \* DWN servers: registered DIDs
    cut           \* history: identities whose connect() ended too early

agent == <<initialized, keys, dids, identities, stored, syncing>>
vars == <<connect, issue, app, agent, tenants, cut>>

Registration == [did : Did, delegate : Identity \cup {Nobody},
                 protocols : SUBSET Protocol]

TypeOK ==
    /\ ConnectTypeOK
    /\ app \in App
    /\ initialized \in BOOLEAN
    /\ keys \subseteq Identity
    /\ dids \subseteq Identity
    /\ identities \subseteq Identity
    /\ stored \subseteq Grant
    /\ syncing \subseteq Registration
    /\ tenants \in [Endpoint -> SUBSET Did]
    /\ cut \subseteq Identity

NoOption == [wallet |-> FALSE, sync |-> FALSE, registration |-> FALSE]
Resting == [at |-> "idle", option |-> NoOption, session |-> Nobody, identity |-> Nobody,
            registerSync |-> FALSE, protocols |-> {}, endpoints |-> {},
            told |-> "nothing"]

Init ==
    /\ ConnectInit
    /\ app = Resting
    /\ initialized = FALSE
    /\ keys = {}
    /\ dids = {}
    /\ identities = {}
    /\ stored = {}
    /\ syncing = {}
    /\ tenants = [e \in Endpoint |-> {}]
    /\ cut = {}

-----------------------------------------------------------------------------
Goto(step) == app' = [app EXCEPT !.at = step]

\* connect() throws.
Throws == app' = Resting
ThrowsAfter(i) == Throws /\ cut' = cut \cup {i}

Connected(i) == i \in Submission
ConnectedDid == IF Connected(app.identity) THEN Owner ELSE app.identity

\* Bound: there are keys left for the identity it may need.
Tried == {a \in Session : session[a] # "new"} \X {"session"}
             \cup (Created \cap keys) \X {"created"}
KeysLeft(option) ==
    \/ \E i \in identities : option.wallet => Connected(i)
    \/ /\ Cardinality(Tried) < MaxTry
       /\ IF option.wallet THEN \E a \in Session : session[a] = "new"
          ELSE Created \ keys # {}

\* The application calls connect().
Connect(option) ==
    /\ app.at = "idle"
    /\ KeysLeft(option)
    /\ app' = [Resting EXCEPT !.at = "launch", !.option = option]
    /\ UNCHANGED <<connect, issue, agent, tenants, cut>>

\* firstLaunch() and initialize().
Launch ==
    /\ app.at = "launch"
    /\ \/ initialized' = TRUE /\ Goto("start")
       \/ ~initialized /\ Throws /\ UNCHANGED initialized
    /\ UNCHANGED <<connect, issue, keys, dids, identities, stored, syncing,
                   tenants, cut>>

\* start() throws when the vault cannot be unlocked.
Start ==
    /\ app.at = "start"
    /\ Goto("find") \/ Throws
    /\ UNCHANGED <<connect, issue, agent, tenants, cut>>

\* list() throws for an identity whose DID is missing.  Any connected identity
\* is taken; then the route, and without the wallet any identity.
Readable == identities \subseteq dids

Chosen(i) ==
    app' = [app EXCEPT !.at = "register", !.identity = i, !.endpoints = Endpoint]

\* Mutant: the wallet is asked although it has been before.
FindAsksAgain ==
    /\ app.at = "find"
    /\ Readable
    /\ IF app.option.wallet /\ app.option.sync THEN Goto("wallet")
       ELSE IF identities = {} THEN Goto("createDid")
       ELSE \E i \in identities : Chosen(i)
    /\ UNCHANGED <<connect, issue, agent, tenants, cut>>

Find ==
    LET connected == {i \in identities : Connected(i)} IN
    /\ app.at = "find"
    /\ \/ ~Readable /\ Throws
       \/ Readable /\ \E i \in connected : Chosen(i)
       \/ /\ Readable /\ connected = {} /\ app.option.wallet
          /\ IF app.option.sync THEN Goto("wallet") ELSE Throws
       \/ /\ Readable /\ ~app.option.wallet
          /\ IF identities = {} THEN Goto("createDid")
             ELSE connected = {} /\ \E i \in identities : Chosen(i)
    /\ UNCHANGED <<connect, issue, agent, tenants, cut>>

-----------------------------------------------------------------------------
(* With a wallet. *)

AskWallet ==
    /\ app.at = "wallet" /\ app.session = Nobody
    /\ \E a \in Session, ask \in Asks :
          /\ \A b \in Session : b < a => session[b] # "new"
          /\ InitClient(a, ask)
          /\ app' = [app EXCEPT !.session = a, !.registerSync = TRUE]
    /\ UNCHANGED <<agent, tenants, cut>>

\* initClient() has thrown, or has returned nothing, which throws.  There is no
\* identity to clean up, and the attempt to do it throws as well.
WalletFailed ==
    /\ app.at = "wallet" /\ app.session # Nobody
    /\ session[app.session] = "failed"
    /\ Throws
    /\ UNCHANGED <<connect, issue, agent, tenants, cut>>

WalletAnswered ==
    /\ app.at = "wallet" /\ app.session # Nobody
    /\ session[app.session] = "done"
    /\ app' = [app EXCEPT !.at = "importDid",
                          !.identity = received[app.session]]
    /\ UNCHANGED <<connect, issue, agent, tenants, cut>>

\* import() stores the keys and the DID, which may fail at either.
ImportDid ==
    LET i == app.identity IN
    /\ app.at = "importDid"
    /\ \/ keys' = keys \cup {i} /\ dids' = dids \cup {i} /\ Goto("importIdentity")
       \/ keys' = keys \cup {i} /\ Throws /\ UNCHANGED dids
       \/ Throws /\ UNCHANGED <<keys, dids>>
    /\ UNCHANGED <<connect, issue, initialized, identities, stored, syncing,
                   tenants, cut>>

ImportIdentity ==
    /\ app.at = "importIdentity"
    /\ \/ identities' = identities \cup {app.identity} /\ Goto("grants")
       \/ Throws /\ UNCHANGED identities
    /\ UNCHANGED <<connect, issue, initialized, keys, dids, stored, syncing,
                   tenants, cut>>

\* processConnectedGrants() stores one grant after the other.
Delegated == {GrantOf(app.identity, x) : x \in Scopes(asked[app.session])}

StoreGrant ==
    /\ app.at = "grants"
    /\ \/ /\ Delegated \ stored # {}
          /\ LET g == CHOOSE x \in Delegated \ stored : TRUE IN
             /\ stored' = stored \cup {g}
             /\ app' = [app EXCEPT !.protocols = @ \cup {g.scope.protocol}]
       \/ Delegated \ stored # {} /\ Goto("cleanDid") /\ UNCHANGED stored
       \/ /\ Delegated \subseteq stored /\ UNCHANGED stored
          /\ app' = [app EXCEPT !.at = "register", !.endpoints = Endpoint]
    /\ UNCHANGED <<connect, issue, initialized, keys, dids, identities, syncing,
                   tenants, cut>>

\* Mutant: a key that cannot be deleted ends the cleaning.
CleanDidAborts ==
    LET i == app.identity IN
    /\ app.at = "cleanDid"
    /\ \/ dids' = dids \ {i} /\ keys' = keys \ {i} /\ Goto("cleanIdentity")
       \/ dids' = dids \ {i} /\ UNCHANGED keys /\ Throws
       \/ UNCHANGED <<dids, keys>> /\ Throws
    /\ UNCHANGED <<connect, issue, initialized, identities, stored, syncing,
                   tenants, cut>>

\* cleanUpIdentity(): the DID and then its keys, which may fail at either.
CleanDid ==
    LET i == app.identity IN
    /\ app.at = "cleanDid"
    /\ \/ dids' = dids \ {i} /\ keys' = keys \ {i}
       \/ dids' = dids \ {i} /\ UNCHANGED keys
       \/ UNCHANGED <<dids, keys>>
    /\ Goto("cleanIdentity")
    /\ UNCHANGED <<connect, issue, initialized, identities, stored, syncing,
                   tenants, cut>>

CleanIdentity ==
    LET i == app.identity IN
    /\ app.at = "cleanIdentity"
    /\ \/ identities' = identities \ {i} /\ Throws /\ UNCHANGED cut
       \/ ThrowsAfter(i) /\ UNCHANGED identities
    /\ UNCHANGED <<connect, issue, initialized, keys, dids, stored, syncing,
                   tenants>>

-----------------------------------------------------------------------------
(* Without one. *)

\* create() stores the keys of a new DID and the DID.
CreateDid ==
    /\ app.at = "createDid"
    /\ \E i \in Created \ keys :
          /\ keys' = keys \cup {i}
          /\ \/ /\ dids' = dids \cup {i}
                /\ app' = [app EXCEPT !.at = "createIdentity", !.identity = i,
                                      !.registerSync = TRUE]
             \/ Throws /\ UNCHANGED dids
    /\ UNCHANGED <<connect, issue, initialized, identities, stored, syncing,
                   tenants, cut>>

CreateIdentity ==
    /\ app.at = "createIdentity"
    /\ \/ /\ identities' = identities \cup {app.identity}
          /\ app' = [app EXCEPT !.at = "register", !.endpoints = Endpoint]
       \/ Throws /\ UNCHANGED identities
    /\ UNCHANGED <<connect, issue, initialized, keys, dids, stored, syncing,
                   tenants, cut>>

-----------------------------------------------------------------------------
(* Registration. *)

NextAfterRegister ==
    IF ~app.option.sync THEN "connected"
    ELSE IF app.registerSync THEN "registerSync" ELSE "connected"

\* An endpoint is asked what it requires.  registerTenant() of the agent's DID
\* and of the connected one: the server may register a DID and its answer be
\* lost.  The first failure ends the loop and is told to the application.
Register ==
    /\ app.at = "register"
    /\ app.option.registration /\ app.endpoints # {}
    /\ \E e \in app.endpoints, done \in SUBSET {AgentDid, ConnectedDid} :
          /\ e \notin Requires => done = {}
          /\ tenants' = [tenants EXCEPT ![e] = @ \cup done]
          /\ \/ /\ e \in Requires => done = {AgentDid, ConnectedDid}
                /\ app' = [app EXCEPT !.endpoints = @ \ {e}]
             \/ /\ ConnectedDid \in done => AgentDid \in done
                /\ app' = [app EXCEPT !.at = NextAfterRegister,
                                      !.told = "failure"]
    /\ UNCHANGED <<connect, issue, agent, cut>>

Registered ==
    /\ app.at = "register"
    /\ ~app.option.registration \/ app.endpoints = {}
    /\ app' = [app EXCEPT !.at = NextAfterRegister,
                          !.told = IF app.option.registration THEN "success" ELSE @]
    /\ cut' = IF app.registerSync /\ ~app.option.sync THEN cut \cup {app.identity}
              ELSE cut
    /\ UNCHANGED <<connect, issue, agent, tenants>>

\* registerIdentity() of the sync engine.
Syncs == [did |-> ConnectedDid,
          delegate |-> IF Connected(app.identity) THEN app.identity ELSE Nobody,
          protocols |-> app.protocols]

RegisterSync ==
    /\ app.at = "registerSync"
    /\ \/ /\ \A r \in syncing : r.did # ConnectedDid
          /\ syncing' = syncing \cup {Syncs}
          /\ Goto(IF app.option.wallet THEN "pull" ELSE "connected")
          /\ UNCHANGED cut
       \/ ThrowsAfter(app.identity) /\ UNCHANGED syncing
    /\ UNCHANGED <<connect, issue, initialized, keys, dids, identities, stored,
                   tenants>>

\* The first pull may throw.
Pull ==
    /\ app.at = "pull"
    /\ Goto("connected") \/ Throws
    /\ UNCHANGED <<connect, issue, agent, tenants, cut>>

\* The process stops, polling too, or ends after a while of use.
Crash ==
    /\ MayCrash
    /\ app.at # "idle"
    /\ Throws
    /\ poll' = [a \in Session |-> "off"]
    /\ session' = [a \in Session |->
                      IF session[a] \in {"polling", "pin"} THEN "failed"
                      ELSE session[a]]
    /\ cut' = IF app.identity \in identities /\ app.registerSync
                 /\ Syncs \notin syncing
              THEN cut \cup {app.identity} ELSE cut
    /\ UNCHANGED <<asked, pushed, response, received, issue, agent, tenants>>

AppNext ==
    \/ \E option \in Options : Connect(option)
    \/ Launch \/ Start \/ Find
    \/ AskWallet \/ WalletFailed \/ WalletAnswered
    \/ ImportDid \/ ImportIdentity \/ StoreGrant
    \/ CleanDid \/ CleanIdentity
    \/ CreateDid \/ CreateIdentity
    \/ Register \/ Registered \/ RegisterSync \/ Pull

Outside == <<app, agent, tenants, cut>>

Next == AppNext \/ Crash \/ (ConnectNext /\ UNCHANGED Outside)

Spec == Init /\ [][Next]_vars

\* The process runs, fetches end and the user types a PIN; nothing is assumed
\* of the wallet.  Every poll looks at the clock and the polls are an interval
\* apart, so that only so many of them find time left.
FairSpec ==
    /\ Spec
    /\ WF_vars(AppNext /\ app.at \notin {"idle", "connected"})
    /\ \A a \in Session :
          /\ WF_vars(PollNext(a) /\ UNCHANGED Outside)
          /\ WF_vars(EnterPin(a) /\ UNCHANGED Outside)
          /\ SF_vars(PollEnds(a) /\ UNCHANGED Outside)

-----------------------------------------------------------------------------
\* Safety: a delegate that is registered for sync has what the sync engine asks
\* for, in its own store and at one of the endpoints: the right to query and to
\* read the messages of every protocol it is registered with, and it is
\* registered with all the app has asked for.  The engine asks every endpoint,
\* and one that has not been sent the grants refuses.
SyncMayRun ==
    \A r \in syncing : r.delegate # Nobody =>
        LET a == CHOOSE b \in Session : received[b] = r.delegate IN
        /\ r.protocols = DOMAIN asked[a]
        /\ \A p \in r.protocols, t \in {"MessagesQuery", "MessagesRead"} :
              \E g \in stored \cap RemoteGrants :
                  /\ g.grantedTo = r.delegate
                  /\ g.scope = [protocol |-> p, messageType |-> t]
                  /\ ~g.delegated

\* Safety: an application that is connected and syncs has its identity whole
\* and registered for sync, unless an earlier connect() ended between the two.
ConnectedWhole ==
    app.at = "connected" =>
        /\ app.identity \in identities \cap dids \cap keys
        /\ app.option.sync /\ app.identity \notin cut =>
              \E r \in syncing : r.did = ConnectedDid

\* Safety: an identity has its DID, and the DID its keys, but for one that is
\* being cleaned up and one whose cleaning ended too early: otherwise no
\* connect() would ever get past list().
IdentitiesWhole ==
    /\ identities \ (cut \cup {app.identity}) \subseteq dids
    /\ dids \subseteq keys

\* Safety: the delegates that are kept come from answers, each to one session
\* whose PIN the user has typed; a response that cannot be decrypted or is late
\* leaves nothing in the stores, none is imported twice, and through all
\* failures and restarts there are never two delegates among the identities
\* (connectedIdentity() takes any).
OnlyAccepted ==
    /\ \A i \in Submission \cap (keys \cup dids \cup identities) :
          \E a \in Session :
              /\ session[a] = "done"
              /\ wallet[i].at = "posted" /\ wallet[i].session = a
              /\ \A b \in Session : received[b] = i <=> b = a
    /\ app.at = "importDid" => app.identity \notin keys \cup dids \cup identities
    /\ \A i, j \in Submission \cap identities : i = j

\* Safety: a delegate has its grants when the application hears of it, and they
\* let the sync of what it connected to run.
GrantsSuffice == GrantedBeforeAnswered /\ SyncMayRun

\* Safety: no failure or restart leaves an application connected to half an
\* identity, or stores that connect() cannot get past, but as stated above.
StoresWhole == TypeOK /\ ConnectedWhole /\ IdentitiesWhole

\* Liveness: connect() ends whatever the wallet does, and polling with it
\* (utils.ts 113-163).
ConnectEnds ==
    /\ app.at # "idle" ~> app.at \in {"idle", "connected"}
    /\ \A a \in Session : []<>(poll[a] = "off")
=============================================================================
