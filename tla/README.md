# web5-js: a TLA+ model

This directory models web5-js: first the parts whose correctness depends on the
order in which things happen (what the agent replicates between Decentralized
Web Nodes, the vault, stores, caches, sockets and wallets around it), and then
what the pure parts compute (keys, ciphers, JWEs, DID documents, credentials).
The modules are translated from the TypeScript under `src/packages`;
`PROJECT.json` maps every definition to the lines it stands for.

## 1. The system

web5-js is a monorepo of libraries.  An application calls `@web5/api`
(`Web5.connect`, `DwnApi`, `Record`), which calls an *agent* (`@web5/agent`
with one of the `user-agent`, `identity-agent`, `proxy-agent` shells).  The
agent owns a local DWN, an identity vault, key, DID and identity stores kept
as records on that DWN, a permissions API, a DID resolver with a cache, RPC
clients for remote DWNs, and a sync engine.  All of it runs on one JavaScript
thread: the interleavings are those of asynchronous calls, timers, other
devices and processes that stop.

| component (source) | state | operations | what is hard |
|---|---|---|---|
| **SyncEngineLevel** `agent/src/sync-engine-level.ts` | LevelDB: registered identities, cursors, push and pull queue, history of synced CIDs; memory: lock, interval, the run's jobs | register/unregister/update identity, `clear`, `sync`, `startSync`, `stopSync` | other writers at both ends, failed and lost calls, retries, crash between two writes, echoes, order of dependent messages, timers |
| **HdIdentityVault** `agent/src/hd-identity-vault.ts` | store: encrypted DID, encrypted CEK, status; memory: CEK | `initialize`, `lock`, `unlock`, `changePassword`, `backup`, `restore`, `getDid` | three records written one after the other, rollback, crash, calls that overlap |
| **AgentDidResolverCache** `agent/src/agent-did-resolver-cache.ts`, `dids/src/resolver` | LevelDB cache with expiry, set of DIDs being refreshed | `get`, `set`, refresh | re-entrance of the refresh, eviction racing a fresh entry, a failure that leaves the guard set |
| **DwnDataStore** and `store-did`, `store-key`, `store-identity` | records on the agent's DWN; index (30 min) and cache (15 min) of them in memory | `get`, `list`, `set`, `delete`, `initialize` | check-then-write, index rebuilt during another call, a deleted record cached again |
| **AgentDidApi**, **AgentIdentityApi**, key managers | DID store, key store, identity store | create, import, update, delete | one of several steps failing, keys two DIDs share, calls that overlap |
| **AgentPermissionsApi**, permission objects | cache of grants | create, request, revoke, `getPermissionForRequest`, `isGrantRevoked`, fetch | cached grants that have been revoked or have expired, a listing that looks up revocations one by one |
| **AgentDwnApi**, `rpc-client`, HTTP client, **JsonRpcSocket**, **WebSocketDwnRpcClient** | pending requests, subscriptions, one connection per URL | `sendRequest`, `connect`, `request`, `subscribe`, `close` | endpoints tried in turn, late replies, timeouts, two connects at once, events before replies |
| **WalletConnect / OIDC** `connect.ts`, `oidc.ts` | ephemeral keys, the server's mailbox | `initClient`, `submitAuthResponse`, polling | polling past its limit, a wallet that fails half-way through its grants |
| **Web5.connect**, **DwnRegistrar** | registration, the connected identity | find, receive or create an identity, register it, clean up | a connect that fails or stops after some of its steps |
| **DwnApi, Record** `api/src` | a record object against the nodes | write, read, query, subscribe, update, delete, store, import, send | an object that is stale against its node, who has signed what |
| **Browser web features** | the worker's cache; links, overlay and menu of a page | fetch, click, cancel, context menu | answers in any order, a cache read before an await |
| **DID methods**, keys, ciphers, JWE, key managers, **credentials** | none, or a key store | create, publish, resolve; sign, encrypt, wrap, derive; create, verify, list | conversions: names of algorithms, rounding, order, what a format cannot say |
| **Streams and conversions** `common/src` | one `TextDecoder` for all streams | `consumeToText`, `consumeToBytes`, `Convert`, `Multicodec` | a decoder that keeps half a character between two awaits; what a conversion cannot tell apart |
| agents' shells, level stores | none of their own | forwarding | little |

What makes each of them correct:

* sync: no message is lost between a cursor and a queue; a message is skipped
  only where it is not needed; a message arrives after those it depends on;
  nothing goes to a node of another tenant or scope; everything gets
  everywhere in the end; there is one run at a time and one timer.
* vault: what is stored decrypts; an operation takes effect whole or not at
  all; only the current password opens it.
* caches: an entry that is returned was once resolved, a refresh ends, a
  DID the agent manages stays, others are forgotten.
* stores: index and cache agree with the node; a DID that is stored can sign,
  a deleted one cannot.
* permissions: a lookup finds a grant that fits; a listing leaves out what was
  revoked.
* sockets: every request settles; no event of a subscription is lost, none is
  delivered after its end, nothing is left behind at either side.
* connect: it ends; what is connected is whole; a delegate has the grants its
  sync needs.
* records: an object is right about what its node has and what it must offer.
* conversions: a key, a message, a document or a credential that comes back is
  the one that went in, and nothing else is accepted in its place.

`PROJECT.json` lists all components, with those not modelled and the reason,
and the hazards, each at its line.

## 2. The modules

State machines, one step per await or per task:

| module | what it is |
|---|---|
| `DwnNode` | external: a DWN as `sync-engine-level.ts` uses it (`processMessage`, `MessagesQuery`, `MessagesRead`) |
| `SyncEngine` | the runs of `SyncEngineLevel` with everything around them |
| `Replication` | abstract: messages written to nodes are copied to the other nodes of their tenant |
| `SyncTimer` | the lock and the interval: `sync`, `startSync`, `stopSync`; a run is opaque |
| `IdentityVault`, `Vault` | `HdIdentityVault`, one step per write; abstract: one identity, one password, open or locked |
| `DidResolverCache` | `AgentDidApi` over `UniversalResolver` and `AgentDidResolverCache` |
| `DidKeys` | `AgentDidApi` over the DID store and the key manager |
| `DwnDataStore` | the store with its index and two caches |
| `Permissions` | `AgentPermissionsApi` and the permission objects of the API |
| `Records` | `Record` objects of `DwnApi` against the local and a remote node |
| `DwnRpc` | a call of `sendRequest` down to sockets and servers |
| `WalletConnect`, `Web5Connect` | application, server and wallet; around them `Web5.connect` (extends `WalletConnect`) |
| `TextStreams` | reads of streams to texts and bytes, with the decoder they share |
| `DrlWorker`, `DrlPage` | the service worker and the page of the browser package |

Functions, in modules without variables:

| module | what it is |
|---|---|
| `KeyAlgorithms` | the algorithm four key managers pick for a name, through the life of a key |
| `Curves`, `KeyClasses`, `Symmetric`, `CryptoApis` | keys on curves; their classes; ciphers, wrapping and derivation; the four interfaces over them |
| `KeyManagers` | how a URI leads to a key in each manager |
| `Jwe`, `Oidc` | JSON Web Encryption; the messages of WalletConnect |
| `DidMethods`, `DidDht` | did:key, did:jwk, did:ion, signers and dereferencing; did:dht and its DNS packets |
| `Formats` | `Convert`, multicodec prefixes, the chunks of a generated stream |
| `Credentials` | JWTs, credentials, presentations, status lists, presentation exchange |

`MCSyncEngine`, `MCBackground`, `MCVault`, `MCDids`, `MCDwnDataStore`, `MCDwnRpc`,
`MCWeb5Connect`, `MCApi` and `MCTextStreams` are the instances; `SyncEngineProofs`,
`BackgroundProofs` (sync timer and resolver cache), `DidKeysProofs`,
`DwnDataStoreProofs`, `DwnRpcProofs`, `Web5ConnectProofs`, `VaultProofs` and
`ApiProofs` (permissions, records, texts, worker and page) are the theorems; `DidKeysProofs`
has those about the functions too.  A function has no behaviour of its own: `MCDids`
draws one *sample* of its inputs as an initial state, and an
invariant speaks of it.  A sample stays as it was drawn, but for the life of a
key: `Changes` makes of that key what may become of it, again and again.  `MCApi` in the same way runs one of six machines that share nothing
(permissions, records, texts, worker, links, menu), and `MCBackground` one of
two (the sync timer, the resolver's cache).

### SyncEngine

A node (`DwnNode`) is the set of messages it holds, the place of every message
in its event log and the last place given out.  It accepts a message when what
it needs (its initial write) has arrived and nothing that makes it obsolete
has; it then discards what the message supersedes.  `Reply` gives the four
statuses that follow from this and that the engine tells apart: 202, 409, 404
for a `RecordsDelete`, 400.  `Refuses` names the messages a node may also answer
with an error of its own (401, 500), this time or every time.

`Origins` says at which nodes a message may appear by other hands than sync's:
the local one (an application writes it, or `Record.store()` and `import()` put a
message of another author there), an endpoint (another device or party, or
`Record.send()` of this device), or several of them.

| variable | code |
|---|---|
| `dwn` | the local node and the endpoints' |
| `options`, `cursor`, `queue`, `history` | the sublevels `registeredIdentities`, `cursors`, `pushQueue`/`pullQueue`, `history` |
| `phase`, `dir`, `thenPull` | where `sync()` is; it holds `_syncLock` unless `phase = "idle"` |
| `fetch` | the tasks of `enqueueOperations`: not asked, reply in hand, settled |
| `todo`, `done`, `errored` | `pushJobs`/`pullJobs` left, `deleteOperations`, `errored` |
| `fetched`, `accepted` | the job between its read, its delivery and `addMessage` |

An action is the code between two calls that other actors can come between:
`GetSyncPeerState`, `GetDwnEventLog` (the query and the unawaited cursor write
that follows its reply), `Enqueue` (the batch), `StartJobs`, then per job one
of `SkipErrored`, `PullKnown`, `PullDenied`, `PullUnreachable`,
`PullUnreadable`, `PullRead`, `PushAbsent`, `PushRead`, `PushUnreachable`,
`PushReplyLost`, `Refused`, `Deliver`, `AddMessage`, and at last `FinishJobs`.
Around them, `WriteLocal` and `WriteRemote` are the other writers of the
nodes, `RegisterIdentity`, `UnregisterIdentity`, `UpdateIdentityOptions`,
`Clear` and `Sync` the application's calls, `SyncThrows` an exception that
leaves the run, `Crash` the end of the process.  `Happens` says which of the
failures an instance allows.

Abstractions.  The watermark of a queue entry is the place of its message in
the log it was read from: ULIDs are monotonic, and a peer is queued in log
order from increasing cursors.  The history is one set instead of one per DID,
since a CID belongs to one tenant.  A queue is a set ordered by `Before` (the
key order: peer, then watermark).  A cursor is the place it stands for.  A
cursor written before a crash may be lost only as long as the batch that
follows it has not been written, since LevelDB writes in order.

Three things a reader may stumble over.  `PushAbsent` covers both outcomes of
`getDwnMessage` that return `undefined`; in a pull a `MessagesRead` that the
endpoint answers with an error (`Denied`, be it asked for a delegate or for the
tenant) is `PullUnreadable`, one for which no grant is found locally
(`GrantMissing`) is `PullDenied`; and a message that its target answers with an
error (`Refused`) is another matter than an endpoint that cannot be reached: its
job stays queued, as there, but the endpoint is not marked and the run goes on
with what comes next (`sync-engine-level.ts` 243-250).

### SyncTimer

`sync()` takes the lock in the task that calls it.  An action is a JavaScript
task, so the end of a run and the continuation of its caller (`intervalSync`
after its `await`) are one action, `RunEnds`: between them only microtasks run
and no timer fires.  The timers of `setInterval` are numbers, and a cleared
number is used again.  `wanted` is a history variable: set by `startSync()`,
reset when a `stopSync()` returns.

### IdentityVault

The store's three records are one record of fields; every write is a step and
so is every change of `_contentEncryptionKey`; the reads that precede a write
are one step.  An encrypted CEK is modelled as the seed it is derived from
with the password that opens it, an encrypted DID as its seed: decrypting with
another password or key fails, and nothing else about encryption matters here.
`call[c]` is what caller `c` is in the middle of, with what it will write
(`new`) and what it has read (`kept`: `previousStatus`,
`previousContentEncryptionKey`, `previousDid` of a restore).  Dates are
numbered; `Never` is `null`.  `Vault` is what remains when an operation is one
step.  Its `typed` is the password in the hands of the owner: `Unlock` and
`ChangePassword` ask that it is the vault's, `Initialize` and `Restore` make it the
vault's.  While a restore may still be undone, the vault answers for the contents
the restore has kept (`Held`).  A crash or failing write within a restore is
the event `restoreFails`, apart from `crash` and `writeFails` elsewhere.  `MCVault` runs both: a behaviour that
is not `fragile` has no interruption of a restore.

### DidResolverCache

A DID's documents are numbered in the order they were made, so that "newer"
means something; `latest` is the last one.  There are three copies of a DID:

| variable | code |
|---|---|
| `entry` | the record in the `cache` sublevel; `fresh`: `Date.now()` is before `ttlMillis` |
| `stored` | the records of `AgentDidApi._store` for it; the DID is *managed* while there is one |
| `published` | what the DID method's `resolve` finds |
| `resolving` | `_resolving` |
| `evicting` | the deletions that `nextTick` will run |
| `call` | where each caller is, and the document in its hands |
| `threw` | history: DIDs whose refresh ended in an exception of `agent.did.get` |
| `givenUp` | history: DIDs whose entry a `delete()` has taken, or a refresh that found no record |

`Resolve` is a `get()` that does not answer from the cache: a miss, or an
expired entry that starts the refresh.  A refresh is `Lookup` (is the DID
managed?), then for a DID that is not `Unmanaged`, which schedules the eviction
a step later; for one that is `ResolveAgain` (the nested `agent.did.resolve`, which begins with a
`get()` of its own), possibly `Answered` and `CacheResult`, and then the update:
`UpdateProceeds`, `UpdateCache`, `UpdateStore`, `UpdateWrite`.  `update()`, `create()`,
`import()` and `delete()` are the steps of their names; each of them changes
the cache before the store.  `set()` and `delete()` of the store are two steps
each, a look for the record and the write: two imports may make two records, and
the record that an update has found may be gone when it writes.  `Unanswered` and `StoreFails` are the errors of
the network and of the store, `PublishElsewhere` is another device.

An answer from the cache changes nothing and is not a step.  A look into the
store finds what the node has: the store's own index and cache are in
`DwnDataStore`.  A resolution error is the absence of a document.
`MaxRecord` bounds the records of a DID.

`ManagedCached` is what the comment at lines 7-8 promises, quick and offline
access to the agent's own DIDs.  It relates cache and store through every
overlap: `create()` and `import()` fill the cache before the store, and no refresh
evicts what it has found in the store.  Two kinds of DIDs are excepted
(`givenUp`): those a `delete()` has taken from the cache and then perhaps failed
to take from the store, and those an `import()` brings while their eviction is
under way, since nobody looks again before it happens.

### DidKeys

| variable | code |
|---|---|
| `stored` | the documents of `AgentDidApi._store`; a document is the set of its keys |
| `keystore` | the private keys of the agent's key manager |
| `call` | where each caller is, the document it deals with and the keys left to do |
| `exposed` | history: keys that a `delete()` was to take while another DID or call used them |

`create` makes keys one by one, then stores; `import` looks for each key, adds
the missing, checks all, then stores; `update` looks up keys and stores;
`delete` removes the record, then the keys one at a time.  `Throws` is a call
that ends at any of its steps.  `exposed` makes the exceptions of both
properties explicit: a key that two DIDs share is deleted with the first.

### DwnDataStore

`index` and `cache` are `_index` and `_cache`, `installed` the cache of installed
protocols; `owner` and `data` are the records at the node.  A `get()` looks in
index, cache and node, rebuilding the index when it has none; a rebuild asks
the node for a list of records and enters them, all in one step, when the answer
is there; any of them may be gone by then.  A query that the node refuses
(`QueryRefused`) is taken for an empty list: nobody looks at its status
(`store-did.ts` 53-62).  What holds of overlapping calls (`IndexNames`,
`ProtocolFirst`) is apart from what holds of calls that do not overlap
(`StaysCurrent`, `OneRecord`, while `calm`): two writers of one id leave two records
(line 165), and so does an `import()` whose look for duplicates was refused, which
ends `calm` too.

### Permissions and Records

`Permissions`: grants, requests and revocations are records at the grantor's
local node; a call is `looking` (`getPermissionForRequest` with its cache) or
`listing` (`fetchGrants` with `checkRevoked`, which asks for one revocation at
a time).  `LookupsRight` says that what is found fits, that nothing is refused
which has a grant, and that what was revoked before a listing began is left
out.  A cached grant outlives its revocation, as the code has it.  `date` orders
the grants: the first of an answer is the `Oldest` of those that fit.

`Records`: a message of the record is its time, who signed it as owner and the
time of the write its data come from; `object` has what `Record` keeps (`msg`,
`initial` and the flags of lines 943-949).  A call that waits for a node a
second time is in two steps.

### DwnRpc

`call` goes through the endpoints of its target in order: server info, then HTTP
or a socket.  A socket has its queue of requests to the server and of
responses; `handler` is `messageHandlers`.  `serves` is what a server has
subscribed, `owes` the requests it has accepted and not yet answered: events may
be sent before the response, or behind it.  An answer is an error, a reply with
a subscription, or a reply without one (the DWN behind the server refuses, 401
say): that one is handed to the caller, and the handler of its events stays.
`sent` and `delivered` count events, `expired` remembers the requests that timed
out.  These two leave something behind: a timeout the handler of the events and
the server's subscription (`json-rpc-socket.ts` line 102), a reply without a
subscription the handler (line 137, `web-socket-clients.ts` 93).

### WalletConnect and Web5Connect

The application's session, the pushed request, the wallet (its user approves
or not, sees a PIN, the wallet creates a delegate and its grants,
sends them, and answers), the polling, and the PIN the user carries over.  The
wallet's nodes are its own (`Local`) and the endpoints (`Remote`).  Each request to
the endpoints goes to the first that answers (`dwn-api.ts` 259-296), another one
each time: `SendProtocol` picks an endpoint, and `Routes` are the ways the grants
of a protocol may spread over them.
`Web5Connect` puts `Web5.connect` around it: launch, an identity found,
received or created, registration, `sync.registerIdentity`, clean-up after a
failure call by call, and restarts anywhere.

`GrantsSuffice` says that the grants of a connected delegate are in its store and
each at some endpoint, and are all that the sync engine asks for.  It does not
say that one endpoint has them all, because that is not so: see below.
`OnlyAccepted` says that a delegate in any store comes from the answer to one
session whose PIN was typed, is imported once, and that there are never two
delegates among the identities, of which `connectedIdentity()` would pick any.

### TextStreams

`half` is the lead byte that the module's one `TextDecoder` holds, `holder` whose
byte that is; `read[r]` is where reader `r` is in its stream (`taken`) and what it
has put together (`got`).  Every chunk is a step, since each `read()` is awaited.
The bytes are any sequence of ASCII, lead and trail bytes, proper text or not,
cut into chunks anywhere; a lead byte and the trail byte after it are a
character, and whatever does not fit is replaced.  What the decoder holds after a
chunk depends on the chunk's last byte alone (`Kept`), so that `Decode` is a
function of each byte and the one before it, without recursion: this is what
the theorem about it rests on.  `TextsRight` excepts readers that met in the
decoder what another had left (`mixed`), and never readers of bytes; `TextsWhole`
is what the comment at `convert.ts` 350 promises.

### DrlWorker and DrlPage

A fetch event is a request that goes through `onCacheCheck`, the cache, the
resolver, the first endpoint and `cacheResponse`.  The page has links that wait
for a DID to be resolved, an overlay with its 50 ms timer, and the context menu
of an image.  Between the assignment of `window.location.href` (`Navigate`) and the
moment the browser has loaded the address (`Leave`) the page goes on: clicks, stops,
timers and answers come as before, a stop does not take the address back, and
another link may replace it.  `wish` is the link the user wanted when the address
was given.

### Keys, messages, documents, credentials

The cryptography is symbolic: a secret has one point on each curve, a signature
or ciphertext is what it was made from, and a cipher opens what the same key
made from the same inputs.  An operation that throws gives the empty set, an
error, or (in `Credentials`) does not accept.  What these modules keep is what
the code decides: members of JWKs, names of algorithms in four tables, lengths
and nonces, which parts of a message are authenticated, the order of methods in
a DNS packet, rounding of dates.

## 3. What is checked

`lostReply` and `unreachable` are remote calls that fail after and before the
endpoint has processed them.

| run | question | bounds |
|---|---|---|
| MCSyncRecord | the order of a record's messages: `PullAccounted`, `PushedInOrder`, `NoEcho`, `PushSettled` | 1 DID, 2 endpoints, 3 messages of one record: its write made here and sent to one endpoint, which the other may refuse, an update and a delete made elsewhere; unreachable |
| MCSyncScopes | `PushInvariant` (the invariant of the proofs) and `PushAccounted`, while options change, identities come and go, stores are cleared, calls and replies are lost, nodes refuse what others wrote and runs throw | 1 endpoint; all protocols, or a delegate with one; a message of each of 2 protocols |
| MCSyncFailures | `OnlyReplicates` (refinement of `Replication`) and `HistoryJustified` under every failure, crashes, refusals and missing grants included | 2 tenants with an endpoint each, a delegate, 2 protocols, 3 messages |
| MCSyncLive | `Replicates`: refinement with liveness; unreachable and lostReply | 2 endpoints, 2 messages |
| MCBackground | `OneTimer`, `ArmedWhileWanted`, `KeepsSyncing` (liveness) of the timer; `OneRefresh`, `ManagedCached`, `UnmanagedForgotten` (liveness) of the cache, with every outside event | 3 timers, 2 callers of `stopSync`, 2 waits; 1 DID, 2 documents, 2 records, 2 callers |
| MCVault | `IsVault` (refinement of `Vault`: only the right password opens it or changes it) and `VaultWhole`, with failing writes and crashes, and with or without interrupted restores | 2 seeds, 2 passwords, 2 foreign backups, 3 dates, one caller |
| MCDids | `Signable`, `DeletedForGood` of `DidKeys`; and of samples: `KeysKeepAlgorithm`, `KeysAgree`, `Sealed`, `DocumentsHold`, `CredentialsHold` | 2 DIDs that share one of 2 keys, 2 callers, any step may fail; samples by product of small sets (`KeysAgree` has those of `Formats` too), about 1.1 million; the life of a key of any length, until nothing new becomes of it |
| MCDwnDataStore | `IndexNames`, `ProtocolFirst`, `StaysCurrent`, `OneRecord` | 2 ids, 1 tenant, 2 values, 2 callers, 2 records; the node fails or refuses queries, caches expire, restarts |
| MCDwnRpc | `NoEventLost`, `Accounted`, `SilentAfterClose`, `CallEnds` (liveness) | a subscription and a message, 2 endpoints, 3 sockets, 1 event, disconnections |
| MCWeb5Connect | `GrantsSuffice`, `StoresWhole`, `OnlyAccepted`, `ConnectEnds` (liveness) | 2 sessions, 2 submissions, 1 created identity, 2 of sessions and identities in all; 2 endpoints of the wallet, the right to read at one and the other grants at the other; 1 of the application, which requires no registration (no property speaks of registrations); 3 kinds of options, restarts |
| MCApi | `LookupsRight` (permissions), `DataKept` (what a record or a stream gives is what was stored), `ImportAccepted` (records), `DrlsRight` (worker, links, menu) | 3 grants of different scope, 2 protocols, 1 caller; 1 object, 3 messages; 2 reads, 3 texts; 2 requests, 2 images |
| MCTextStreams (violated) | `TextsWhole`: is a text right when two are read at once? | 2 reads, 3 texts |

The bounds are small and enough for what they look for.  A record with an
initial write and two updates by two devices is the least that has a
dependency, a superseded message and an echo; a second endpoint is needed for
a message that passes through this device and for a history shared by
endpoints; a second tenant, protocol or delegate for keys that could collide.
`MaxTimer` bounds the timers: a third one lets a cleared interval be told from its successor.
`MaxDate` bounds the dates; two suffice to tell an old one from a new one.
In `DidResolverCache` DIDs share nothing but the callers, so one is enough; two
callers are the least that can collide on the mark or race an update with a
`delete()`; `MaxDoc` bounds the documents: two, an older and a newer one, and
`MaxRecord` the records, two being what two imports at once make.
Two DIDs with a key in common are what `delete()` can get wrong; two calls are
what can come between its steps.  In `DwnDataStore` `MaxRecord` bounds the
records: a second one is what an index may confuse.  In `DwnRpc` `MaxSocket`
bounds the sockets: two for one host that is connected to twice, one for the
next host; `MaxEvent` the events, one being enough to be lost, late or first.
`MaxSession`, `MaxSubmission`, `MaxCreated` and `MaxTry` bound the wallet's flow: a
second session is what an answer may be confused with, a second submission what
may become a second delegate, a second endpoint what may have other grants than
the first.  `MaxTime` bounds the messages
of a record: a write, an update, a delete or a newer update; in `DrlWorker` it
and `MaxVersion` bound the clock and the versions of a resource, in `DrlPage`
`MaxClicks` and `MaxPresses` the user.

The samples are products of the values the code tells apart: each name of an
algorithm, each curve, key lengths on and off the list, members of a JWK that
are there or not, each part of a message changed or left, dates on and off the
full second around the present, indexes at both ends of a byte and of the list.

**Fairness.**  In `SyncEngine`: the steps of a run are taken (its promises
settle); the application registers its DIDs; the timer again and again finds
the lock free (strong, since runs of the application may hold it); an endpoint
that is asked again and again is sometimes reachable (strong, per endpoint,
for reading its log, reading a message and delivering one).  Without the last
nothing can be promised about an endpoint that never answers; `MCSyncLive` has no
refusals, for nothing can be promised of a message that an endpoint always
refuses.  In `SyncTimer`
(as in `DidResolverCache`, of the one `MCBackground` shows): a run ends, a waiting `stopSync()` is woken by its own timeout, and an armed
interval fires now and then while no run holds the lock.  In
`DidResolverCache`: a call goes on (its promises settle), a scheduled deletion
runs, entries expire as time passes, every DID is resolved again and again (an
agent resolves a DID for each message to it or signed by it), a network that is
asked again and again sometimes answers, and the process is not restarted for
ever.  In `DwnRpc`: a caller's own steps are taken and the timer of a request fires.
Nothing is assumed of servers and network, not that an HTTP request is answered
nor that a connection is made or refused; `CallEnds` is what follows.  In `Web5Connect`: the
steps of `connect()` and of polling are taken, the user enters a PIN the
application asks for, and the time to live of a poll, looked at between
fetches, runs out (strong); nothing is assumed of the wallet.  The other calls
of the application are not fair.

**Deadlock** is checked for `MCBackground` and `MCVault`.  The
others may stop: when all messages have been written and synced, when all
calls of an instance have been made, or because a sample does nothing.

**What the passing runs do not claim.**  `PushAccounted` and `PullAccounted`
hold as long as the batch after a cursor write succeeds, the process does not
stop in between, grants are found and honoured, and `clear()` is not called
during a run.  `MCSyncFailures` shows what remains with these events, except
that reads answered with an error (`denied`: a grant no longer honoured, or any
other reason) are left out: a pull whose read is
refused is recorded as if the message were gone (line 178), so
`HistoryJustified` is not true of it.  `NoEcho` is claimed for runs that end: a
call whose reply is lost, or a run that throws, leaves the Sync Message Store
behind the nodes, and the message is read back once; so does a `clear()`.  And it is not claimed
of a message that others than sync put on both nodes, by `Record.send()` or by
`store()` and `import()`: the Sync Message Store does not hear of these, and the
message is read back.  `PushedInOrder` is claimed
without the events `PushAccounted` excludes, for one delegate, and for
dependencies the endpoint does not refuse: after a refusal (401, 500) what
depends on the refused message is sent all the same.
`StaysCurrent` and `OneRecord` are claimed for calls that do not overlap;
`ManagedCached` not of the DIDs in `givenUp`.
`VaultWhole` claims no more than that a restore that was cut short can be
repeated, and is claimed for one call at a time.  `CallEnds` leaves
open that a call waits for ever for the info of a server, for the answer to an
HTTP request or for a connection (see below).  The properties of `Credentials`
are about JWTs that `sign()` made; `verify()` relates the signature to `kid`
and `iss` to the issuer, each separately.

### Where code and documentation part

Met while modelling; each is modelled as the code has it, and the properties
except it by name.

Sync.
* An endpoint that has discarded a message gets its CID into the Sync Message
  Store, although the local node has never had it (`sync-engine-level.ts` 178,
  comment at 675).
* A `RecordsDelete` that is answered 404 is never counted as synced, since the
  reply has no `entry`, and is sent in every run (403, comment at 392,
  `tests/sync-engine-level.spec.ts` 1407).
* A read grant that is not found takes the push of an existing message off the
  queue (565-568, comment at 224-226; the pull at 148-151 keeps the job); queued
  jobs of an unregistered DID are sent by later runs (279, `types/sync.ts` 31).
* A push that the endpoint answers with an error neither marks the endpoint nor
  stops the run (243-250): an update follows its refused initial write.

Vault, resolver, stores.
* A restore that fails keeps a date of the rejected backup when the vault had
  none (`hd-identity-vault.ts` 845-846); two `initialize()` calls at once leave
  a DID that cannot be decrypted (374).
* The refresh of a managed DID asks `agent.did.resolve`, which is answered by
  the entry that has expired (`agent-did-resolver-cache.ts` 57, comment at 53);
  a lookup that throws leaves its DID in `_resolving` for good (54, comment at
  20); an `import()` refused as a duplicate leaves its document in the cache,
  and the next refresh writes it over the stored one (`did-api.ts` 326).  The
  agent's own DID is evicted like any other: it is not in the DID store, which is
  all that is asked (54; the comment at 42-43 promises that it stays).
* Two writers of one id create two records (`store-data.ts` 165), and so does one
  whose look for duplicates the node refuses, as the status of the query is not
  looked at (`store-did.ts` 53-62, and alike in the other stores).  A key of the
  agent with a `kid` of its own is not found by its URI once the store has been
  listed (`store-key.ts` 72, `local-key-manager.ts` 421-427).

RPC, connect, API.
* The connect timeout names `reject` without calling it (`json-rpc-socket.ts`
  71): a connection that is neither opened nor refused leaves its caller waiting.
  The HTTP client has no timeout (`http-dwn-rpc-client.ts` 41, 90).
* A subscription that the DWN refuses in a successful JSON-RPC response leaves its
  handler at the socket (`json-rpc-socket.ts` 137-143, `web-socket-clients.ts` 92-98).
* A wallet sends protocol and grants each to the first endpoint that answers
  (`dwn-api.ts` 259-296), and counts them as sent (`oidc.ts` 650-682); the sync engine
  asks every endpoint for the grants of a delegate.  Until the wallet's own sync
  has spread them, an endpoint may lack what it is asked with.
* `pollWithTtl` goes on fetching after it has rejected (`utils.ts` 154).
* The clean-up after a failed connect leaves the grants that were stored, and
  what it fails to delete (`web5.ts` 463-485, doc at 246-248).
* A `Record`'s send cache is set although the target refused the initial write
  (`record.ts` 613, `utils.ts` 96-99); its data are read from the latest
  message, not its own (1035); `update()` and `delete()` of one object do not
  exclude each other (798).

Streams and conversions.
* All streams are decoded by one `TextDecoder` that keeps the beginning of a
  character between chunks: of two texts read at once, one gets the other's
  half and both may be wrong (`convert.ts` 352, comment at 350).  This is the
  finding of `MCTextStreams`.
* A pair of hex characters passes if one of them is a digit (`convert.ts` 410-412:
  `parseInt` reads `7z`, `+7` and ` 7` as 7); `toArrayBuffer()` of a part of a buffer gives the whole
  buffer; `toBase58Btc()` takes any multibase text for base58; the multicodec
  with code 0 is refused as unknown.

Keys, messages, documents.
* The agent gives P-256 keys made from bytes the algorithm `EdDSA`
  (`prototyping/crypto/algorithms/ecdsa.ts` 56-88), which then refuses them.
  `generateKey` knows `secp256k1` but not `ES256K` in the crypto package, the
  other way round at AWS KMS; an alias that fails there leaves a key that no URI
  reaches (`crypto-aws-kms/src/ecdsa.ts` 143).
* Supplements of a Concat KDF that are left out take no room, so that a public
  and a private one can stand for each other (`concat-kdf.ts` 217).  An empty
  `additionalAuthenticatedData` is authenticated but not stored
  (`jwe-flattened.ts` 425, 454).
* did:dht: P-256 keys are written as `t=undefined` (`did-dht.ts` 1233); a method
  named `0` that is not first comes back in another order (1066, 552); ids `a`
  and `#a` count as different (527).  did:key makes no document for secp256k1
  with `enableEncryptionKeyDerivation`, nor for P-256.  did:ion orders purposes
  one way by default and another when it publishes (`did-ion.ts` 397, 573) and
  drops `alg`.  A DID URL is searched among services after a method was found
  (`universal-resolver.ts` 217-222).
* Status lists compare indexes as texts: `7` and `07` are both let in
  (`status-list-credential.ts` 180).  A date in the first second of 1970 counts
  as none (`verifiable-credential.ts` 268, 285).

Browser (`web-features.ts`).
* Without options `onCacheCheck` throws and the answer is an error (47, doc at
  454); a DID without a DWN service gives 500 where 530 is meant (34, 80).
* The overlay's timer fires after the navigation was cancelled (373); a stop after
  the address was given hides the overlay, and the page leaves all the same
  (346-349, 388); a link
  with the same path of another DID passes for the active one (387); an older
  answer may be cached over a newer (93, 116); an image that is looked up after
  its menu has gone keeps the composed address (419).

## 4. What is proved

Checked by TLAPS for all values of the constants that satisfy the modules'
named assumptions; hypotheses beyond those are said with each theorem.  No
theorem assumes fairness.  Each inductive invariant was checked by TLC on the
instance of its run before it was proved.

### SyncEngineProofs

| theorem | hypothesis | says |
|---|---|---|
| `TypeCorrect` | | `Spec => []TypeOK` |
| `PushInvariantHolds`, `PushAccountedHolds` | `Happens \cap Forgetting = {}` | nothing a push cursor has passed is lost |
| `PushSettledHolds` | the same | a job leaves the push queue only when its endpoint has the message or the local node no longer does |
| `PullAccountedHolds` | the same | nothing a pull cursor has passed is lost, but for messages discarded for later ones |
| `HistoryJustifiedHolds` | `"denied" \notin Happens` | the Sync Message Store names only messages the local node has or never needs, whatever else fails |
| `NoEchoHolds` | `Happens \cap Echoing = {}` | what a pull fetches was not on the local node, unless others than sync write it to both |
| `PushedInOrderHolds` | `Happens \cap Forgetting = {}`, `OneDelegate`, `NeedsKept` | a message is pushed only when each message it needs is at the endpoint, or may be refused there, lost replies and runs that throw included |
| `OnlyReplicatesHolds` | | `Spec => R!Spec`: the engine refines `Replication`, whatever fails |

`Forgetting` is `noGrant`, `denied`, `batchFails`, `crash`, `clearBusy`;
`Echoing` is `lostReply`, `throws`, `crash`, `clear`, `clearBusy`.  With any of
them the property is false, for the reasons given in section 3: it is a fact
about the code, not about the proof.  `OneDelegate` says that all options name
the same delegate, or none: a cursor belongs to an endpoint and a protocol, the
queue is ordered by delegate first, so what was queued for one delegate and put
off may be overtaken by what needs it, queued for another: TLC finds this.  `NeedsKept` says what the modules' instances take from the DWN: a
message needs its record's initial write, which has its tenant and protocol and
is never discarded; and what it needs needs nothing more than it does itself.

The argument for the push.  `PushAccounted` is not inductive: a cursor may move
only over messages that some task holds (`fetch[p].entries`), the task must have
started from the cursor that is stored (`TasksApart`, which also needs that no two
tasks of a run share a key), the batch must not fail, and what `FinishJobs`
removes must have been delivered or be gone (`PushesDone`), which in turn
needs that a message that was once in the local log and is not stored now never
comes back (`LogsOrdered`, `PushesRead`: its place is positive, so the node
covers it).  `RunHolds` ties the working variables to the phase and the queue.
Their conjunction, `PushInvariant`, is inductive together with `TypeOK`.  The
proof has one lemma per action, and `DwnNode` facts (`Covers` is stable under
`After`, a log's order) are stated once.

The argument for the rest goes through `TraceInvariant`, which needs no
hypothesis: what is queued, fetched or worked on belongs to a peer that some
options asked for, is in its scope and was at its source; a message a node took
and no longer holds is superseded; what has been accepted, the local node has.
`OnlyReplicates` follows step by step: a step has at most one node process
at most one message, and that message is traced.  `HistoryJustified` is
inductive beside it.  `PullInvariant` adds to `PullAccounted` that the pull
cursors stay inside the endpoints' logs and that the jobs of a pull that are
done are over.  `EchoInvariant` says that everything a node has is in the Sync Message Store, or
was written there by others, or is the message
`AddMessage` will put there next: hence the failures that come between the two
have to be excluded.

The argument for the order.  A needed message is at an earlier place of the same
log (`HoldsNeeds`), so the cursor that has passed the later one has passed it
(`QueuePassed`, `TasksPassed`), and by `PushAccounted` it is at the endpoint or
on the queue.  If it is on the queue it is for the same peer, and within a run
every job of the queue is still to do, done, put off with its endpoint, a
refused delete, or a message that the endpoint may refuse, itself or for want of
one it needs (`LeftBehind`): the first is against the order of the keys, the
third skips the later one too, the last is excepted.  `LeftBehind` in turn needs
`PushedInOrder`, as a push that the endpoint may not refuse fails for nothing but
what it needs.  `OrderInvariant` is their
conjunction.

### BackgroundProofs: SyncTimer

For any number of timers, callers of `stopSync()` and waits
(`TimerAssumption`), of `TimerSpec`:

* `OneTimerHolds`: `TimerSpec => []OneTimer`: one run, which has the lock, and one timer,
  which `stopSync()` would clear.
* `ArmedWhileWantedHolds`: `TimerSpec => []ArmedWhileWanted`.

Their conjunction is inductive, neither is alone: that a tick which ends sets
its interval exactly when it is still wanted follows from `ArmedWhileWanted`
only if the run that ends is the one tick (`OneRun`), and the timer it sets is
the only one if it was put away before (`NoStrayTimer`).

### BackgroundProofs: DidResolverCache

* `CacheTypeCorrect`: `Spec => []TypeOK`, from `CacheAssumption`.
* `OneRefreshHolds`: `Spec => []OneRefresh`, whatever the outside events: no two
  callers refresh a DID at once, who refreshes it has marked it, and a mark
  without a refresh was left by a lookup that threw.
* `ManagedCachedHolds`: `Spec => []ManagedCached`: a DID that the agent manages is in
  the cache, but for those that were given up.

`OneRefresh` alone is not inductive: a caller at `lookup` or `resolveAgain`
must be known to be a refresh, and an idle one not (`RefreshSteps`), or a step
could pass a mark to nobody.  Three lemmas cover the actions: `StepKeeps` (a
step that keeps its part in the refresh), `EndKeeps` (`Ends`, which takes the
mark away with the refresh; that no other caller refreshes the DID is what
`OneRefresh` itself says) and, in `BeginsKeeps`, the `get()` that marks.

`ManagedCached` needs `EvictionExcused` beside it: an eviction that is scheduled, or
decided and about to be, is of a DID that was given up, and a document on its
way into the store is in the cache already.  `CallerKeeps` is about one caller's
step; `BeginsCovered` and `ContinuesCovered` show that each action is one of the
kinds it, `QuietKeeps` and `PutKeeps` cover.

### DidKeysProofs

For all DIDs, keys, callers and portable DIDs:

* `TypesHold`: `Spec => []TypeOK`.
* `StoredDidsSign`: `Spec => []Signable`: a DID in the store has all the keys of
  its document, save keys that a `delete()` was to take while they were in use.
* `DeletionIsComplete`: `Spec => DeletedForGood`.

`Signable` is not inductive.  `IInv` adds what each call has in hand between its
steps: a call that will store a document has found its keys (`Present`); a key
that a `delete()` will take is in no other document unless it is in `exposed`
(`Guarded`); nobody has the keys of a DID that is being generated (`Fresh`); a
`delete()` has removed the keys it no longer lists (`Struck`); and an operation
is only at steps of its own (`Ops`).

### DidKeysProofs: the functions

`MCSpec` draws a sample and keeps it, so a theorem about a sample is one about
the functions.  The lemmas that carry them are about any values, wider than
what the run draws from; the last lemma of each group (`...SamplesHold`) says
that the samples are among these, and `SamplesStay` that they stay.

* `KeysKeepAlgorithmHolds`: `MCSpec => []KeysKeepAlgorithm`, for lives of any length.
  The property is not inductive: `LifeHolds` says what a key of an algorithm may
  have become (`KeysFor`): its curve and length stay, its `alg` may be the one it
  was generated with, `EdDSA`, or gone.  `ChangesKeepKind` is the step: storing as
  bytes, converting, publishing and wrapping lead from `KeysFor(a)` to `KeysFor(a)`.
  `KeepsKind` shows of all of these, for each key manager, that the table leads
  back to the algorithm; `NamesAreOnce` is why: no name is in two entries.
* `CredentialsHoldHolds`: `MCSpec => []CredentialsHold`, from `IssuedHolds`
  (credentials of any options and dates, at any time, as signed or changed),
  `ClaimsHold` (any claims beside any credential), `ListHolds` (status lists with
  any number of entries, any index) and `PresentationHolds` (any credentials issued
  before it).  The rounding is in `ValidWhenMade` and `AgreesWhen`, the bits of a
  list in `ByteAndBit`.
* `SealedHolds`: `MCSpec => []Sealed`, over the symbolic cryptography of `Jwe` and
  `Oidc`.  Of a JWE with any headers, key, text and additional data: `OwnKeyOpens` (with
  the key it was made for it opens to what was encrypted, an empty aad excepted:
  `EmptyAadRefused`), `OtherKeyRefused`, `ReplacedRefused` (any one part replaced by
  anything else, but for a key wrapped again with the same secret), and
  `PasswordFails` (who tries a password, or a wrong part, learns only that it
  fails).  `CompactOpens` and `CompactRefused` carry these to the compact form.  Of WalletConnect's messages,
  for any apps, delegates, PINs and contents: `RequestRead` and `ResultRead`, and
  `RequestMust` and `ResultMust`: whoever gets anything out of the ciphertext or
  the tag of a message has its key, nonce, header and PIN, and both parts.

### DwnDataStoreProofs

For any callers, tenants, identifiers, values and records: `IndexNamesHolds`,
`ProtocolFirstHolds`, `StaysCurrentHolds`, and the action property `OneRecordHolds`.

`StoreInvariant` gives the first two.  A call that holds a record must know
that it was written under the call's key, and so must index, cache and what a
listing has read (`CallHolds`, `MemoryHolds`): a rebuild files its records
under the owner each of them names, after any number of other calls.
That a call past `initialize` finds its tenant's protocol installed is in
`CallHolds` too, because `installed` only grows while `ready` may be emptied.
`StaysCurrent` needs `CalmInvariant`: while calls have not overlapped, at most
one is in progress (`Alone`), and what it has read from the node is still what
the node has (`InHand`), step by step through a rebuild.  `OneRecord` follows: an
import that is about to write has looked when the node had no record, and nobody
has been there since.

### DwnRpcProofs

For any calls, endpoints, sockets and numbers of events: `RpcInvariantHolds`,
`AccountedHolds`, `NoEventLostHolds`, and the action property
`SilentAfterCloseHolds`.

None of the three is inductive.  A *try* is a call with one endpoint of its
target; `RpcInvariant` says what can be on its way for a try, in each of its
states:

* `HandlersHold`: a response handler belongs to the request that waits on that
  socket, an events handler to a try that waits, is up, was answered without a
  subscription, or has timed out; `EndsHold`: one that is up without its handler
  has had the last of its events;
* `AsksHold`: a request is on its way at most once, and until it arrives no
  server serves the try and nothing is on its way back;
* `ServesHold`, `OwesHold`: a try is served on one socket, and what a server has
  accepted it does not deny: no error and no reply without a subscription is on
  its way for it;
* `RepliesHold`: everything a server sends for a try comes over one socket, in
  whichever order;
* `CountsHold`: events sent are those delivered and those on their way, exactly
  from the request on while the try waits or is up on an open socket, at most
  otherwise, and none at all for a call that was answered without a subscription;
* `CallHolds`, `SocketsHold`: a connection in the making is one call's own, and
  a socket that is not open carries nothing.

What keeps an event from finding no handler is the handler itself, which is
there before the request is sent (`WaitBegins`); so events that come before the
response count as those behind it.

The first part of the module is about queues: what `Head`, `Tail` and `Append`
do to whether a message of a try is in a queue, is in it once, or follows
another.  An event is counted in a queue by `Pending`, as the number of its
places.

### Web5ConnectProofs

For any protocols, requests, endpoints, ways in which the grants spread over
them, and numbers of sessions and submissions, whatever fails, is late or stops: `GrantsSufficeHolds`,
`StoresWholeHolds`, `OnlyAcceptedHolds`.

`ConnectInvariant` is about wallet and server: what the job of each protocol
has brought about at each of its steps (`Job`), that a submission answers only
when all its jobs are over, and that an answer comes from one submission for
that session alone.  `Web5Invariant` adds the application: the grants it has
stored are of answers that were used (`StoredHolds`), a delegate that is
registered has all of its session's (`SyncingHolds`), and the stores agree
except for the identity `connect()` works on and those in `cut`
(`IdentitiesHold`).  That an answer in use never changes (`DelegatesStay`)
carries these over the steps of the wallet, and over restarts.  `OnlyAccepted` needs
`DelegatesHold` beside these: up to the import there is no delegate among the
identities, and the answer the application is about to import is nobody's yet.

### VaultProofs

For any recovery phrases, passwords and backups of other vaults, whatever
fails, of `FragileSpec`, under `OneCaller` (there is one caller, so calls do
not overlap; with two, section 3 says what goes wrong):

* `VaultInvariantHolds`, `VaultWholeHolds`;
* `IsVaultHolds`: `FragileSpec => Calm!Spec`, the refinement of `Vault`.

`VaultInvariant` says for each step of a call which of the three records are
already those it writes (`initialize` and `restore` going forward, `revert`
going back) and that key and contents fit.  It has two halves: `StepHolds`
survives everything, and gives `CanRestore`; `FirmHolds` is lost when a
restore is interrupted (`fragile`).  For the refinement `HeldStays`,
`NotYetHeld`, `DateHeld` and `UndoneHeld` are the steps nobody sees;
`LockingStep`, `UnlockingStep`, `PasswordStep` and `FillingStep` the ones in
which an operation of `Vault` takes place: `initialize()` with the write of the
status, `changePassword()` with the write of the CEK, `restore()` when the key
of what it has restored is in place.  What the owner has typed is the password
of the call in progress (`TypedIs`): a call that is given another than the vault's
ends without any of these steps, which is what `Unlock` and `ChangePassword` of
`Vault` ask.

### ApiProofs

* `DataKeptHolds`: `ApiSpec => []DataKept`: `BackedHolds` below, and for any reads of
  any bytes in any chunks (`SourceAssumption`), a read that met no half a
  character of another has the text its bytes say.
* `LookupsRightHolds`: `Spec => []LookupsRight` of `Permissions`, for any grants,
  scopes, protocols and callers (`PermissionAssumption`).
* `ImportAcceptedHolds`: `"local" \notin MayRefuse => (Record!Spec => []ImportAccepted)`,
  and `BackedHolds`: `Record!Spec => []Record!Backed` without the hypothesis, for any
  number of objects and messages (`RecordAssumption`).  A local node that refuses
  for reasons of its own (its disk, say) may refuse the initial write that an
  import offers first; the code goes on, and the import is then refused for want
  of it.  So the hypothesis is needed, as TLC confirms, and the run has it.
* `DrlsRightHolds`: `ApiSpec => []DrlsRight`, for any DRLs, checks, links, images and
  bounds; `PageAssumption` says that `None` is no link and no path.

`LookupInvariant` adds to `LookupsRight` what a lookup goes by: the entries it
works on are at the delegate's node, what the cache keeps is there too and fits
the key it is kept under, and what was revoked before a listing began stays
revoked.  The cache is not keyed on whether a delegated grant is wanted; the
answer fits all the same, as that goes by the type (`AsksDelegated`).  `CallStepKeeps` is the step of a
call, `RecordsKeep` the travels of grants and revocations, `ForgettingKeeps` the
cache's expiry.  The first of several grants exists by `LeastExists`: a set of
naturals has a minimum, from the library's well-founded induction, for one set
at a time.

`RecordInvariant` is `ImportAccepted` and `Backed` with what one step hands to
the next: a node with a message has the initial write (`NodesHold`); an object that
is being deleted has its initial write to hand, one that took it for signed
knows it, and an import at its second step has it stored (`ObjectHolds`).  `ProcessedGrows`
says that a node that takes a message loses nothing, `ObjectStepKeeps` and
`NodeStepKeeps` that such steps leave the other objects right, and `EndKeeps` is the
end that `store()`, `import()` and `delete()` share.

`WorkerInvariant` follows a fetch event through `handleEvent()`: what it goes by is
what was cached or at the endpoint when it began (`RequestHolds`), versions only grow,
and the cache keeps one entry of a DRL, or none (`CacheHolds`), so that the entry
`onCacheCheck()` has seen is the one that is answered.  `PageInvariant` adds
that `activeNavigation`, while there is one, is the path of the link that is
wanted, and that an address once given is that of a link wanted then.

`TextInvariant` says what a reader has put together so far: what the bytes it
has had (`Come`) decode to, short of a lead byte that the decoder still holds for
it, unless it has met another's (`mixed`).  `OthersKeep` is why a reader that has
met nobody is not disturbed.  That decoding a stream in chunks is decoding it
at once is `ChunkKeeps` and `StreamEndKeeps`: with `Decode` a function of each byte
and the one before it, this needs no induction.

### Only model-checked

* `KeysAgree` and `DocumentsHold`, over their samples.  The first compares some
  thirty operations of seven modules; what it says of one of them is mostly a
  case of a table, and there is no lemma that carries much of it.  The second
  rests on `DidDht`, which folds over the records of a DNS packet (`FoldLeft`): what
  a fold gives for every sequence is an induction over data, which the provers
  cannot do.
* All liveness (`Replicates`, `KeepsSyncing`, `UnmanagedForgotten`, `CallEnds`,
  `ConnectEnds`), which is outside TLAPS's reach.

## 5. Not modelled

* The shells of the agents (`user-agent`, `identity-agent`, `proxy-agent`) wire
  the components; what `Web5.connect` needs of them is in `Web5Connect`.
* `common`: level and memory stores are wrappers of libraries, modelled where a
  component uses them; bridges between Web and Node streams are left out.
* The mathematics of the primitives, SHA-256, base64url: symbolic.
* did:web (one fetch), the proof of work of `DwnRegistrar`, endpoints and names
  of identities, `protocols.configure` and `query` of the API, and the markup
  and registration of the browser package.
* External, modelled from use: `dwn-sdk-js`, `@noble`, LevelDB, the DID gateways,
  AWS KMS, PEX, the connect server, DWN servers, browsers.

## 6. Plan

Done: the modules of section 2, the theorems of section 4.  Left, in this order:

1. `KeysAgree`, part by part: a wrapped key comes back, derived keys differ.
2. `AgentIdentityApi` over `DwnDataStore`, with two applications at once.
