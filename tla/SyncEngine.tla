----------------------------- MODULE SyncEngine -----------------------------
(***************************************************************************)
(* SyncEngineLevel (agent/src/sync-engine-level.ts): one agent keeps the   *)
(* local DWN of its identities and the DWNs at their service endpoints     *)
(* equal.  A sync run pushes, then pulls.  Each direction first asks the   *)
(* event log of every peer for what is past the peer's cursor and puts it  *)
(* on a durable queue, then works the queue off one message at a time, and *)
(* removes what it dealt with at the end.  Applications and other devices  *)
(* write to the nodes in between, endpoints go away, calls fail, and the   *)
(* process may stop at any step.                                           *)
(*                                                                         *)
(* A queue entry's watermark (a ULID taken when it is queued) is modelled  *)
(* by the message's place in the log it was read from: a peer is queued in *)
(* log order, from increasing cursors.                                     *)
(***************************************************************************)
EXTENDS DwnNode

CONSTANTS
    Did,          \* tenants
    Delegate,     \* delegate DIDs an identity may be synced with
    Endpoint,     \* DWN service endpoint URLs
    Protocol,
    NoDelegate, AllProtocols, Unregistered, NoOp,
    Local,        \* the agent's own node
    EndpointsOf,  \* the #dwn service endpoints in each DID's document
    Options,      \* the SyncIdentityOptions callers pass
    TenantOf, ProtocolOf,   \* of each message
    Origins,      \* the nodes a message is written to by others than sync
    Refuses,      \* what a node may refuse for reasons of its own (401, 500)
    Rank,         \* the order of the peers' key prefixes
    Happens       \* which of the outside events below may occur

OutsideEvents ==
    {"unreachable", "lostReply", "noGrant", "denied", "batchFails", "throws",
     "crash", "unregister", "update", "clear", "clearBusy"}

Peer == {p \in [did : Did, delegate : Delegate \cup {NoDelegate},
                url : Endpoint, protocol : Protocol \cup {AllProtocols}] :
            p.url \in EndpointsOf[p.did]}

ASSUME SyncAssumption ==
    /\ EndpointsOf \in [Did -> SUBSET Endpoint]
    /\ Options \subseteq [delegate : Delegate \cup {NoDelegate},
                          protocols : SUBSET Protocol]
    /\ TenantOf \in [Msg -> Did]
    /\ ProtocolOf \in [Msg -> Protocol]
    /\ Origins \in [Msg -> SUBSET (Endpoint \cup {Local})]
    /\ Refuses \in [Endpoint \cup {Local} -> SUBSET Msg]
    /\ Rank \in [Peer -> Nat]
    /\ \A p, q \in Peer : Rank[p] = Rank[q] => p = q
    /\ Happens \subseteq OutsideEvents
    /\ Local \notin Endpoint
    /\ NoDelegate \notin Delegate
    /\ AllProtocols \notin Protocol
    /\ Unregistered \notin Options
    /\ NoOp \notin [peer : Peer, msg : Msg]

Dir   == {"push", "pull"}
Phase == {"idle", "peers", "enqueue", "jobs"}
Nodes == Endpoint \cup {Local}

\* A cursor belongs to a DID, an endpoint and a protocol: not to a delegate.
Key == [did : Did, url : Endpoint, protocol : Protocol \cup {AllProtocols}]

KeyOf(p) == [did |-> p.did, url |-> p.url, protocol |-> p.protocol]

Op == [peer : Peer, msg : Msg]

\* The messages a query for this tenant and protocol can return.
Scope(k) == {m \in Msg : /\ TenantOf[m] = k.did
                         /\ k.protocol \in {AllProtocols, ProtocolOf[m]}}

VARIABLES
    dwn,        \* the nodes
    options,    \* registeredIdentities
    cursor,     \* cursors
    queue,      \* pushQueue and pullQueue
    history,    \* the Sync Message Store of every DID
    phase,      \* where the run is; the sync lock is held unless "idle"
    dir,        \* the direction being run
    thenPull,   \* a pull follows this push
    fetch,      \* per peer of the run: the state of its enqueueing, the cursor
                \* it read, the entries it is about to put on the queue
    todo,       \* the jobs of this run that are left
    done,       \* deleteOperations
    errored,    \* endpoints found unreachable in this run
    fetched,    \* the job whose message has been read from its source
    accepted    \* the job whose message its destination has accepted

stored   == <<options, cursor, queue, history>>
working  == <<todo, done, errored, fetched, accepted>>
vars == <<dwn, options, cursor, queue, history, phase, dir, thenPull, fetch,
          todo, done, errored, fetched, accepted>>

Fetching(s, c, ms) == [state |-> s, from |-> c, entries |-> ms]
NotFetching == [p \in Peer |-> Fetching("off", 0, {})]

TypeOK ==
    /\ dwn \in [Nodes -> Node]
    /\ options \in [Did -> Options \cup {Unregistered}]
    /\ cursor \in [Dir -> [Key -> Nat]]
    /\ queue \in [Dir -> SUBSET Op]
    /\ history \subseteq Msg
    /\ phase \in Phase
    /\ dir \in Dir
    /\ thenPull \in BOOLEAN
    /\ fetch \in [Peer -> [state : {"off", "ask", "put", "done"},
                           from : Nat, entries : SUBSET Msg]]
    /\ todo \subseteq Op
    /\ done \subseteq Op
    /\ errored \subseteq Endpoint
    /\ fetched \in Op \cup {NoOp}
    /\ accepted \in Op \cup {NoOp}

Init ==
    /\ dwn = [n \in Nodes |-> EmptyNode]
    /\ options = [d \in Did |-> Unregistered]
    /\ cursor = [x \in Dir |-> [k \in Key |-> 0]]
    /\ queue = [x \in Dir |-> {}]
    /\ history = {}
    /\ phase = "idle"
    /\ dir = "push"
    /\ thenPull = FALSE
    /\ fetch = NotFetching
    /\ todo = {} /\ done = {} /\ errored = {}
    /\ fetched = NoOp /\ accepted = NoOp

-----------------------------------------------------------------------------
(* The nodes and their other writers *)

\* m is written to the local node: by an application of this device, or a
\* message of another author by Record.store() or import().
WriteLocal(m) ==
    /\ Local \in Origins[m]
    /\ Accepts(dwn[Local], m)
    /\ dwn' = [dwn EXCEPT ![Local] = After(dwn[Local], m)]
    /\ UNCHANGED <<stored, phase, dir, thenPull, fetch, working>>

\* m is delivered to an endpoint: by another device of the tenant, by another
\* party, or by this device's Record.send().
WriteRemote(u, m) ==
    /\ u \in Origins[m]
    /\ Accepts(dwn[u], m)
    /\ dwn' = [dwn EXCEPT ![u] = After(dwn[u], m)]
    /\ UNCHANGED <<stored, phase, dir, thenPull, fetch, working>>

-----------------------------------------------------------------------------
(* The calls of the application *)

RegisterIdentity(d, o) ==
    /\ options[d] = Unregistered
    /\ options' = [options EXCEPT ![d] = o]
    /\ UNCHANGED <<dwn, cursor, queue, history, phase, dir, thenPull, fetch,
                   working>>

UnregisterIdentity(d) ==
    /\ "unregister" \in Happens
    /\ options[d] # Unregistered
    /\ options' = [options EXCEPT ![d] = Unregistered]
    /\ UNCHANGED <<dwn, cursor, queue, history, phase, dir, thenPull, fetch,
                   working>>

UpdateIdentityOptions(d, o) ==
    /\ "update" \in Happens
    /\ options[d] # Unregistered
    /\ options[d] # o
    /\ options' = [options EXCEPT ![d] = o]
    /\ UNCHANGED <<dwn, cursor, queue, history, phase, dir, thenPull, fetch,
                   working>>

\* Mutant: clear() keeps the cursors.
ClearKeepsCursors ==
    /\ phase = "idle" /\ "clear" \in Happens
    /\ options' = [d \in Did |-> Unregistered]
    /\ queue' = [x \in Dir |-> {}]
    /\ history' = {}
    /\ UNCHANGED <<dwn, cursor, phase, dir, thenPull, fetch, working>>

\* clear() takes no notice of the lock: a run in progress ("clearBusy")
\* carries on with what it holds in memory.
Clear ==
    /\ IF phase = "idle" THEN "clear" \in Happens ELSE "clearBusy" \in Happens
    /\ options' = [d \in Did |-> Unregistered]
    /\ cursor' = [x \in Dir |-> [k \in Key |-> 0]]
    /\ queue' = [x \in Dir |-> {}]
    /\ history' = {}
    /\ UNCHANGED <<dwn, phase, dir, thenPull, fetch, working>>

\* sync(): refused while a run holds the lock.
Sync(d, both) ==
    /\ phase = "idle"
    /\ both => d = "push"
    /\ phase' = "peers"
    /\ dir' = d
    /\ thenPull' = both
    /\ UNCHANGED <<dwn, stored, fetch, working>>

-----------------------------------------------------------------------------
(* Enqueueing: getSyncPeerState, then one task per peer *)

\* Mutant: the peers of an identity with protocols are asked for everything.
ActivePeersUnfiltered ==
    {p \in Peer : /\ options[p.did] # Unregistered
                  /\ p.delegate = options[p.did].delegate
                  /\ p.protocol = AllProtocols}

ActivePeers ==
    {p \in Peer :
        /\ options[p.did] # Unregistered
        /\ p.delegate = options[p.did].delegate
        /\ IF options[p.did].protocols = {}
           THEN p.protocol = AllProtocols
           ELSE p.protocol \in options[p.did].protocols}

GetSyncPeerState ==
    /\ phase = "peers"
    /\ fetch' = [p \in Peer |->
                    IF p \in ActivePeers
                    THEN Fetching("ask", cursor[dir][KeyOf(p)], {})
                    ELSE Fetching("off", 0, {})]
    /\ phase' = "enqueue"
    /\ UNCHANGED <<dwn, stored, dir, thenPull, working>>

Source(x, p) == IF x = "push" THEN Local ELSE p.url
Target(x, p) == IF x = "push" THEN p.url ELSE Local

\* The delegate's grant is not found here.
GrantMissing(p) == p.delegate # NoDelegate /\ "noGrant" \in Happens

\* A node answers a query or a read with an error.
Denied == "denied" \in Happens

LogWithheld(p) ==
    \/ GrantMissing(p) \/ Denied
    \/ dir = "pull" /\ "unreachable" \in Happens
    \/ "throws" \in Happens

\* A peer whose event log cannot be had has nothing to enqueue in this run.
NoEventLog(p) ==
    /\ phase = "enqueue" /\ fetch[p].state = "ask"
    /\ LogWithheld(p)
    /\ fetch' = [fetch EXCEPT ![p] = Fetching("done", 0, {})]
    /\ UNCHANGED <<dwn, stored, phase, dir, thenPull, working>>

\* getDwnEventLog.  The cursor is written as soon as the reply is in; the
\* entries reach the queue only in a later step.
GetDwnEventLog(p) ==
    LET n == dwn[Source(dir, p)]
        new == EntriesAfter(n, fetch[p].from, Scope(p))
    IN
    /\ phase = "enqueue" /\ fetch[p].state = "ask"
    /\ \/ /\ new = {}
          /\ fetch' = [fetch EXCEPT ![p] = Fetching("done", 0, {})]
          /\ UNCHANGED cursor
       \/ /\ \E c \in {n.at[m] : m \in new} :
                /\ IsCursorOf(n, new, c)
                /\ cursor' = [cursor EXCEPT ![dir][KeyOf(p)] = c]
          /\ fetch' = [fetch EXCEPT ![p] = Fetching("put", fetch[p].from, new)]
    /\ UNCHANGED <<dwn, options, queue, history, phase, dir, thenPull,
                   working>>

\* The batch that puts a peer's entries on the queue; when it fails the
\* failure is logged and the entries are dropped.
Enqueue(p) ==
    /\ phase = "enqueue" /\ fetch[p].state = "put"
    /\ \/ queue' = [queue EXCEPT ![dir] =
                        @ \cup {[peer |-> p, msg |-> m] : m \in fetch[p].entries}]
       \/ "batchFails" \in Happens /\ UNCHANGED queue
    /\ fetch' = [fetch EXCEPT ![p] = Fetching("done", 0, {})]
    /\ UNCHANGED <<dwn, options, cursor, history, phase, dir, thenPull,
                   working>>

\* All tasks have settled: the jobs are what is on the queue now.
StartJobs ==
    /\ phase = "enqueue"
    /\ \A p \in Peer : fetch[p].state \in {"off", "done"}
    /\ phase' = "jobs"
    /\ todo' = queue[dir]
    /\ UNCHANGED <<dwn, stored, dir, thenPull, fetch, done, errored, fetched,
                   accepted>>

-----------------------------------------------------------------------------
(* Working the queue off *)

Place(x, op) == dwn[Source(x, op.peer)].at[op.msg]

\* Key order: by peer, and within a peer by watermark.
Before(x, a, b) ==
    \/ Rank[a.peer] < Rank[b.peer]
    \/ a.peer = b.peer /\ Place(x, a) < Place(x, b)

IsNext(op) ==
    /\ phase = "jobs" /\ fetched = NoOp /\ accepted = NoOp
    /\ op \in todo
    /\ \A o \in todo : ~Before(dir, o, op)

\* Leave the job on the queue for a later run.
Postpone(op) ==
    /\ todo' = todo \ {op}
    /\ UNCHANGED <<dwn, stored, phase, dir, thenPull, fetch, done, fetched,
                   accepted>>

\* Take the job off the queue at the end of the run.
Settle(op) ==
    /\ todo' = todo \ {op}
    /\ done' = done \cup {op}
    /\ UNCHANGED <<dwn, options, cursor, queue, phase, dir, thenPull, fetch,
                   errored, fetched, accepted>>

SkipErrored(op) ==
    /\ IsNext(op)
    /\ op.peer.url \in errored
    /\ Postpone(op)
    /\ UNCHANGED errored

\* pull: the Sync Message Store has the message already.
PullKnown(op) ==
    /\ IsNext(op) /\ dir = "pull"
    /\ op.peer.url \notin errored
    /\ op.msg \in history
    /\ Settle(op)
    /\ UNCHANGED history

\* pull: no MessagesRead grant is found for the delegate.
PullDenied(op) ==
    /\ IsNext(op) /\ dir = "pull"
    /\ op.peer.url \notin errored
    /\ op.msg \notin history
    /\ GrantMissing(op.peer)
    /\ Postpone(op)
    /\ UNCHANGED errored

\* Mutant: a pull that gets no answer is treated as one for a lost message.
PullUnreachableSettles(op) ==
    /\ IsNext(op) /\ dir = "pull"
    /\ op.peer.url \notin errored
    /\ op.msg \notin history
    /\ "unreachable" \in Happens
    /\ history' = history \cup {op.msg}
    /\ Settle(op)

PullUnreachable(op) ==
    /\ IsNext(op) /\ dir = "pull"
    /\ op.peer.url \notin errored
    /\ op.msg \notin history
    /\ "unreachable" \in Happens
    /\ errored' = errored \cup {op.peer.url}
    /\ Postpone(op)

\* pull: the endpoint answers, but not with the message.
PullUnreadable(op) ==
    /\ IsNext(op) /\ dir = "pull"
    /\ op.peer.url \notin errored
    /\ op.msg \notin history
    /\ op.msg \notin dwn[op.peer.url].stored \/ Denied
    /\ history' = history \cup {op.msg}
    /\ Settle(op)

\* Mutant: the message is recorded when it is read, before it is processed.
PullReadRecords(op) ==
    /\ IsNext(op) /\ dir = "pull"
    /\ op.peer.url \notin errored
    /\ op.msg \notin history
    /\ op.msg \in dwn[op.peer.url].stored
    /\ fetched' = op
    /\ history' = history \cup {op.msg}
    /\ UNCHANGED <<dwn, options, cursor, queue, phase, dir, thenPull, fetch,
                   todo, done, errored, accepted>>

PullRead(op) ==
    /\ IsNext(op) /\ dir = "pull"
    /\ op.peer.url \notin errored
    /\ op.msg \notin history
    /\ op.msg \in dwn[op.peer.url].stored
    /\ fetched' = op
    /\ UNCHANGED <<dwn, stored, phase, dir, thenPull, fetch, todo, done,
                   errored, accepted>>

\* push: getDwnMessage finds no message, or no grant that lets it be read.
PushAbsent(op) ==
    /\ IsNext(op) /\ dir = "push"
    /\ op.peer.url \notin errored
    /\ \/ op.msg \notin dwn[Local].stored
       \/ GrantMissing(op.peer) \/ Denied
    /\ history' = history \cup {op.msg}
    /\ Settle(op)

PushRead(op) ==
    /\ IsNext(op) /\ dir = "push"
    /\ op.peer.url \notin errored
    /\ op.msg \in dwn[Local].stored
    /\ fetched' = op
    /\ UNCHANGED <<dwn, stored, phase, dir, thenPull, fetch, todo, done,
                   errored, accepted>>

\* Mutants: a push that gets no answer is settled, or does not stop the
\* later pushes to the same endpoint.
PushUnreachableSettles(op) ==
    /\ fetched = op /\ dir = "push"
    /\ "unreachable" \in Happens
    /\ fetched' = NoOp
    /\ todo' = todo \ {op}
    /\ done' = done \cup {op}
    /\ UNCHANGED <<dwn, stored, phase, dir, thenPull, fetch, errored, accepted>>
PushUnreachableGoesOn(op) ==
    /\ fetched = op /\ dir = "push"
    /\ "unreachable" \in Happens
    /\ fetched' = NoOp
    /\ todo' = todo \ {op}
    /\ UNCHANGED <<dwn, stored, phase, dir, thenPull, fetch, done, errored,
                   accepted>>

PushUnreachable(op) ==
    /\ fetched = op /\ dir = "push"
    /\ "unreachable" \in Happens
    /\ errored' = errored \cup {op.peer.url}
    /\ fetched' = NoOp
    /\ todo' = todo \ {op}
    /\ UNCHANGED <<dwn, stored, phase, dir, thenPull, fetch, done, accepted>>

\* push: the endpoint has processed the message, the answer does not arrive.
PushReplyLost(op) ==
    /\ fetched = op /\ dir = "push"
    /\ "lostReply" \in Happens
    /\ dwn' = [dwn EXCEPT ![op.peer.url] = After(@, op.msg)]
    /\ errored' = errored \cup {op.peer.url}
    /\ fetched' = NoOp
    /\ todo' = todo \ {op}
    /\ UNCHANGED <<stored, phase, dir, thenPull, fetch, done, accepted>>

\* The target answers with an error of its own.  The job stays on the queue;
\* the endpoint is not held to be unreachable, and the next job is tried.
Refused(op) ==
    /\ fetched = op
    /\ op.msg \in Refuses[Target(dir, op.peer)]
    /\ fetched' = NoOp
    /\ todo' = todo \ {op}
    /\ UNCHANGED <<dwn, stored, phase, dir, thenPull, fetch, done, errored,
                   accepted>>

\* syncMessageReplyIsSuccessful.  A 404 counts only with an entry, which the
\* reply to a RecordsDelete does not carry.
ReplyIsSuccessful(status) == status \in {202, 204, 409}

\* The target processes the message that was read.  An unsuccessful reply
\* leaves the job on the queue.
Deliver(op) ==
    LET t == Target(dir, op.peer) IN
    /\ fetched = op
    /\ dwn' = [dwn EXCEPT ![t] = After(@, op.msg)]
    /\ fetched' = NoOp
    /\ IF ReplyIsSuccessful(Reply(dwn[t], op.msg))
       THEN accepted' = op /\ UNCHANGED todo
       ELSE todo' = todo \ {op} /\ UNCHANGED accepted
    /\ UNCHANGED <<stored, phase, dir, thenPull, fetch, done, errored>>

\* Mutant: a pushed message is not recorded.
AddMessagePulled(op) ==
    /\ accepted = op
    /\ history' = IF dir = "pull" THEN history \cup {op.msg} ELSE history
    /\ accepted' = NoOp
    /\ todo' = todo \ {op}
    /\ done' = done \cup {op}
    /\ UNCHANGED <<dwn, options, cursor, queue, phase, dir, thenPull, fetch,
                   errored, fetched>>

\* addMessage, and the job joins the delete operations.
AddMessage(op) ==
    /\ accepted = op
    /\ history' = history \cup {op.msg}
    /\ accepted' = NoOp
    /\ todo' = todo \ {op}
    /\ done' = done \cup {op}
    /\ UNCHANGED <<dwn, options, cursor, queue, phase, dir, thenPull, fetch,
                   errored, fetched>>

\* Mutant: the set of unreachable endpoints outlives the run.
FinishJobsKeepsErrored ==
    /\ phase = "jobs" /\ todo = {} /\ fetched = NoOp /\ accepted = NoOp
    /\ queue' = [queue EXCEPT ![dir] = @ \ done]
    /\ phase' = IF thenPull THEN "peers" ELSE "idle"
    /\ dir' = IF thenPull THEN "pull" ELSE "push"
    /\ thenPull' = FALSE /\ fetch' = NotFetching /\ done' = {}
    /\ UNCHANGED <<dwn, options, cursor, history, todo, errored, fetched,
                   accepted>>

\* The run's last batch removes the settled jobs; a pull may follow a push.
FinishJobs ==
    /\ phase = "jobs" /\ todo = {} /\ fetched = NoOp /\ accepted = NoOp
    /\ queue' = [queue EXCEPT ![dir] = @ \ done]
    /\ phase' = IF thenPull THEN "peers" ELSE "idle"
    /\ dir' = IF thenPull THEN "pull" ELSE "push"
    /\ thenPull' = FALSE /\ fetch' = NotFetching /\ done' = {} /\ errored' = {}
    /\ UNCHANGED <<dwn, options, cursor, history, todo, fetched, accepted>>

-----------------------------------------------------------------------------
(* Failures *)

Drop ==
    /\ phase' = "idle"
    /\ dir' = "push"
    /\ thenPull' = FALSE
    /\ fetch' = NotFetching
    /\ todo' = {} /\ done' = {} /\ errored' = {}
    /\ fetched' = NoOp /\ accepted' = NoOp

\* A call that is not caught ends the run: a DID that does not resolve, a
\* failing store, a failing local node, the last batch.
SyncThrows ==
    /\ "throws" \in Happens
    /\ phase \in {"peers", "jobs"}
    /\ Drop
    /\ UNCHANGED <<dwn, stored>>

\* The process stops.  A cursor written just before the queue's batch may or
\* may not have reached the disk.
Crash ==
    /\ "crash" \in Happens
    /\ phase # "idle"
    /\ \E lost \in SUBSET {p \in Peer : fetch[p].state = "put"} :
          cursor' = [cursor EXCEPT ![dir] =
                       [k \in Key |->
                          IF \E p \in lost : KeyOf(p) = k
                          THEN fetch[CHOOSE p \in lost : KeyOf(p) = k].from
                          ELSE cursor[dir][k]]]
    /\ Drop
    /\ UNCHANGED <<dwn, options, queue, history>>

-----------------------------------------------------------------------------
Outside ==
    \/ \E m \in Msg : WriteLocal(m)
    \/ \E u \in Endpoint, m \in Msg : WriteRemote(u, m)
    \/ \E d \in Did, o \in Options :
          RegisterIdentity(d, o) \/ UpdateIdentityOptions(d, o)
    \/ \E d \in Did : UnregisterIdentity(d)
    \/ Clear
    \/ SyncThrows
    \/ Crash

Job(op) ==
    \/ SkipErrored(op) \/ PullKnown(op) \/ PullDenied(op)
    \/ PullUnreachable(op) \/ PullUnreadable(op) \/ PullRead(op)
    \/ PushAbsent(op) \/ PushRead(op) \/ PushUnreachable(op)
    \/ PushReplyLost(op) \/ Refused(op) \/ Deliver(op) \/ AddMessage(op)

Run ==
    \/ GetSyncPeerState
    \/ \E p \in Peer : NoEventLog(p) \/ GetDwnEventLog(p) \/ Enqueue(p)
    \/ StartJobs
    \/ \E op \in Op : Job(op)
    \/ FinishJobs

Next ==
    \/ Outside
    \/ \E d \in Dir, both \in BOOLEAN : Sync(d, both)
    \/ Run

Spec == Init /\ [][Next]_vars

\* The application registers its identities; the interval timer again and
\* again finds the lock free and starts a run of both directions, and a run's
\* steps are taken as their promises settle.  An endpoint that is asked again
\* and again is sometimes reachable.
Fairness ==
    /\ \A d \in Did : WF_vars(\E o \in Options : RegisterIdentity(d, o))
    /\ SF_vars(Sync("push", TRUE))
    /\ WF_vars(Run)
    /\ \A u \in Endpoint :
        /\ SF_vars(\E p \in Peer :
                      p.url = u /\ dir = "pull" /\ GetDwnEventLog(p))
        /\ SF_vars(\E op \in Op : op.peer.url = u /\ PullRead(op))
        /\ SF_vars(\E op \in Op :
                      op.peer.url = u /\ dir = "push" /\ Deliver(op))

FairSpec == Spec /\ Fairness
-----------------------------------------------------------------------------
(* What the engine promises *)

\* A message some node has discarded in favour of a later one.
Superseded(m) == \E n \in Nodes : \E k \in Arrived(dwn[n]) : m \in Supersedes[k]

\* m waits in direction x for a peer of key k: on the queue, or in the memory
\* of the task that is about to queue it.
Waiting(x, k, m) ==
    \E p \in Peer :
        /\ KeyOf(p) = k
        /\ \/ [peer |-> p, msg |-> m] \in queue[x]
           \/ dir = x /\ fetch[p].state = "put" /\ m \in fetch[p].entries

\* Safety: what the local node holds and the push cursor of an endpoint has
\* passed is at the endpoint or waits to be sent there (the cursor is written
\* before the queue, lines 541 and 441).
PushAccounted ==
    \A k \in Key : \A m \in dwn[Local].stored \cap Scope(k) :
        dwn[Local].at[m] <= cursor["push"][k]
            => Covers(dwn[k.url], m) \/ Waiting("push", k, m)

\* Safety: the same for what an endpoint holds, except that a message another
\* node has discarded for a later one may be let go (lines 143-147, 178-182).
PullAccounted ==
    \A k \in Key : \A m \in dwn[k.url].stored \cap Scope(k) :
        dwn[k.url].at[m] <= cursor["pull"][k]
            => Covers(dwn[Local], m) \/ Superseded(m) \/ Waiting("pull", k, m)

\* Safety: why PushAccounted is inductive.  The logs are ordered and the push
\* cursors stay inside the local one; a task works for one key and from a
\* cursor no later than the stored one; outside its phase a run holds nothing;
\* what is queued for a push was once on the local node; and what a run is
\* about to remove from the push queue it has delivered, or cannot read.
LogsOrdered ==
    \A n \in Nodes : \A m \in Msg :
        /\ dwn[n].at[m] <= dwn[n].head
        /\ m \in dwn[n].stored => dwn[n].at[m] > 0

CursorsInLog == \A k \in Key : cursor["push"][k] <= dwn[Local].head

TasksApart ==
    \A p \in Peer : fetch[p].state # "off" =>
        /\ fetch[p].state = "ask" => fetch[p].from <= cursor[dir][KeyOf(p)]
        /\ \A q \in Peer : fetch[q].state # "off" /\ KeyOf(q) = KeyOf(p) => q = p

RunHolds ==
    /\ phase \in {"idle", "peers"} => \A p \in Peer : fetch[p].state = "off"
    /\ phase = "jobs" => \A p \in Peer : fetch[p].state \in {"off", "done"}
    /\ phase # "jobs" => /\ todo = {} /\ done = {}
                         /\ fetched = NoOp /\ accepted = NoOp
    /\ todo \subseteq queue[dir] /\ done \subseteq queue[dir]
    /\ fetched # NoOp => fetched \in queue[dir]
    /\ accepted # NoOp => accepted \in queue[dir]

PushesRead ==
    /\ \A op \in queue["push"] : dwn[Local].at[op.msg] > 0
    /\ dir = "push" => \A p \in Peer : fetch[p].state = "put" =>
                          \A m \in fetch[p].entries : dwn[Local].at[m] > 0

PushesDone ==
    dir = "push" =>
        /\ \A op \in done : \/ Covers(dwn[op.peer.url], op.msg)
                            \/ op.msg \notin dwn[Local].stored
        /\ accepted # NoOp => Covers(dwn[accepted.peer.url], accepted.msg)

PushInvariant ==
    /\ LogsOrdered /\ CursorsInLog /\ TasksApart /\ RunHolds
    /\ PushesRead /\ PushesDone /\ PushAccounted

\* Safety: the Sync Message Store, which makes a pull skip a message at every
\* endpoint, names only messages the local node has or never needs.
HistoryJustified ==
    \A m \in history : Covers(dwn[Local], m) \/ Superseded(m)

\* What m is, or needs, the endpoint may refuse.
Refusable(u, m) == ({m} \cup Needs[m]) \cap Refuses[u] # {}

\* Safety: the order of the queue keys (comment at lines 455-457) gets every
\* message to its target after each message it depends on, but for one that
\* the endpoint may refuse: a refusal (lines 243-246) stops nothing after it.
PushedInOrder ==
    fetched # NoOp /\ dir = "push" =>
        \A k \in Needs[fetched.msg] :
            \/ k \in Arrived(dwn[fetched.peer.url])
            \/ Refusable(fetched.peer.url, k)

\* Safety: no message that came from an endpoint's pull or went to it in a
\* push is read back from it (comment at lines 673-677).  What is written to
\* both nodes without sync (Record.send(), store(), import()) may be read.
NoEcho ==
    fetched # NoOp /\ dir = "pull" =>
        \/ fetched.msg \notin Arrived(dwn[Local])
        \/ {Local, fetched.peer.url} \subseteq Origins[fetched.msg]

\* Action: a job leaves the push queue only when its endpoint has the message
\* or the local node no longer does (comment at lines 224-226).
PushSettled ==
    [][\A op \in queue["push"] \ queue'["push"] :
          phase = "jobs" =>
             \/ Covers(dwn[op.peer.url], op.msg)
             \/ op.msg \notin dwn[Local].stored]_vars

\* Refinement: sync copies messages between the nodes of their tenant and
\* does nothing else to them; under fairness it copies them all.
Synced == {m \in Msg : \E o \in Options :
                o.protocols = {} \/ ProtocolOf[m] \in o.protocols}

R == INSTANCE Replication WITH
        have    <- [n \in Nodes |-> Arrived(dwn[n])],
        Homes   <- [m \in Msg |-> EndpointsOf[TenantOf[m]]]

OnlyReplicates == R!Spec
Replicates     == R!FairSpec
=============================================================================
