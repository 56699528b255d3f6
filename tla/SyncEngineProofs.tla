-------------------------- MODULE SyncEngineProofs --------------------------
(* Theorems about SyncEngine, for every value of its constants. *)
EXTENDS SyncEngine, TLAPS

-----------------------------------------------------------------------------
(* The nodes *)

\* A node stays a node when it processes a message.
LEMMA AfterType ==
    ASSUME NEW n \in Node, NEW m \in Msg
    PROVE  After(n, m) \in Node
  BY DEF After, Node

\* No peer's endpoint is the local node, and both ends of a transfer are nodes.
LEMMA EndsAreNodes ==
    ASSUME NEW x \in Dir, NEW p \in Peer
    PROVE  Source(x, p) \in Nodes /\ Target(x, p) \in Nodes /\ p.url \in Nodes
  BY DEF Source, Target, Nodes, Peer

LEMMA KeyOfType == \A p \in Peer : KeyOf(p) \in Key
  BY DEF KeyOf, Key, Peer

-----------------------------------------------------------------------------
(* Type correctness *)

LEMMA OutsideType == TypeOK /\ Outside => TypeOK'
<1> SUFFICES ASSUME TypeOK, Outside PROVE TypeOK'
  OBVIOUS
<1> USE DEF stored, working, Fetching
<1>1. ASSUME NEW m \in Msg, WriteLocal(m) PROVE TypeOK'
  <2>1. Local \in Nodes
    BY DEF Nodes
  <2>2. After(dwn[Local], m) \in Node
    BY <2>1, AfterType DEF TypeOK
  <2> QED
    BY <1>1, <2>1, <2>2 DEF TypeOK, WriteLocal
<1>2. ASSUME NEW u \in Endpoint, NEW m \in Msg, WriteRemote(u, m) PROVE TypeOK'
  <2>1. u \in Nodes
    BY DEF Nodes
  <2>2. After(dwn[u], m) \in Node
    BY <2>1, AfterType DEF TypeOK
  <2> QED
    BY <1>2, <2>1, <2>2 DEF TypeOK, WriteRemote
<1>3. ASSUME NEW d \in Did, NEW o \in Options,
             RegisterIdentity(d, o) \/ UpdateIdentityOptions(d, o)
      PROVE  TypeOK'
  BY <1>3 DEF TypeOK, RegisterIdentity, UpdateIdentityOptions
<1>4. ASSUME NEW d \in Did, UnregisterIdentity(d) PROVE TypeOK'
  BY <1>4 DEF TypeOK, UnregisterIdentity
<1>5. CASE Clear
  BY <1>5 DEF TypeOK, Clear
<1>6. NotFetching \in [Peer -> [state : {"off", "ask", "put", "done"},
                                from : Nat, entries : SUBSET Msg]]
  BY DEF NotFetching
<1>7. CASE SyncThrows
  BY <1>7, <1>6 DEF TypeOK, SyncThrows, Drop, Phase, Dir
<1>8. CASE Crash
  <2>1. PICK lost \in SUBSET {p \in Peer : fetch[p].state = "put"} :
          cursor' = [cursor EXCEPT ![dir] =
                       [k \in Key |->
                          IF \E p \in lost : KeyOf(p) = k
                          THEN fetch[CHOOSE p \in lost : KeyOf(p) = k].from
                          ELSE cursor[dir][k]]]
    BY <1>8 DEF Crash
  <2>2. \A k \in Key :
           (IF \E p \in lost : KeyOf(p) = k
            THEN fetch[CHOOSE p \in lost : KeyOf(p) = k].from
            ELSE cursor[dir][k]) \in Nat
    <3> SUFFICES ASSUME NEW k \in Key, \E p \in lost : KeyOf(p) = k
                 PROVE  fetch[CHOOSE p \in lost : KeyOf(p) = k].from \in Nat
      BY DEF TypeOK
    <3>1. (CHOOSE p \in lost : KeyOf(p) = k) \in Peer
      OBVIOUS
    <3> QED
      BY <3>1 DEF TypeOK
  <2>3. cursor' \in [Dir -> [Key -> Nat]]
    BY <2>1, <2>2 DEF TypeOK
  <2> QED
    BY <1>6, <1>8, <2>3 DEF TypeOK, Crash, Drop, Phase, Dir
<1> QED
  BY <1>1, <1>2, <1>3, <1>4, <1>5, <1>7, <1>8 DEF Outside

LEMMA EnqueueType ==
    ASSUME TypeOK,
           \/ \E d \in Dir, both \in BOOLEAN : Sync(d, both)
           \/ GetSyncPeerState
           \/ \E p \in Peer : NoEventLog(p) \/ GetDwnEventLog(p) \/ Enqueue(p)
           \/ StartJobs
    PROVE  TypeOK'
<1> USE DEF stored, working, Fetching
<1>1. ASSUME NEW d \in Dir, NEW both \in BOOLEAN, Sync(d, both) PROVE TypeOK'
  BY <1>1 DEF TypeOK, Sync, Phase
<1>2. CASE GetSyncPeerState
  BY <1>2, KeyOfType DEF TypeOK, GetSyncPeerState, NotFetching, Phase
<1>3. ASSUME NEW p \in Peer, NoEventLog(p) PROVE TypeOK'
  BY <1>3 DEF TypeOK, NoEventLog
<1>4. ASSUME NEW p \in Peer, GetDwnEventLog(p) PROVE TypeOK'
  <2> DEFINE n == dwn[Source(dir, p)]
             new == EntriesAfter(n, fetch[p].from, Scope(p))
  <2>1. n \in Node
    BY EndsAreNodes DEF TypeOK
  <2>2. new \in SUBSET Msg
    BY DEF EntriesAfter, Scope
  <2>3. CASE UNCHANGED cursor /\ fetch' = [fetch EXCEPT ![p] = Fetching("done", 0, {})]
    BY <1>4, <2>3 DEF TypeOK, GetDwnEventLog
  <2>4. ASSUME NEW c \in {n.at[m] : m \in new},
               cursor' = [cursor EXCEPT ![dir][KeyOf(p)] = c],
               fetch' = [fetch EXCEPT ![p] = Fetching("put", fetch[p].from, new)]
        PROVE  TypeOK'
    <3>1. c \in Nat
      BY <2>1, <2>2, <2>4 DEF Node
    <3>2. cursor' \in [Dir -> [Key -> Nat]]
      BY <2>4, <3>1, KeyOfType DEF TypeOK
    <3>3. fetch' \in [Peer -> [state : {"off", "ask", "put", "done"},
                               from : Nat, entries : SUBSET Msg]]
      BY <2>2, <2>4 DEF TypeOK
    <3> QED
      BY <1>4, <3>2, <3>3 DEF TypeOK, GetDwnEventLog
  <2> QED
    BY <1>4, <2>3, <2>4 DEF GetDwnEventLog
<1>5. ASSUME NEW p \in Peer, Enqueue(p) PROVE TypeOK'
  <2>1. {[peer |-> p, msg |-> m] : m \in fetch[p].entries} \subseteq Op
    BY DEF TypeOK, Op
  <2>2. queue' \in [Dir -> SUBSET Op]
    BY <1>5, <2>1 DEF TypeOK, Enqueue
  <2> QED
    BY <1>5, <2>2 DEF TypeOK, Enqueue
<1>6. CASE StartJobs
  BY <1>6 DEF TypeOK, StartJobs, Phase
<1> QED
  BY <1>1, <1>2, <1>3, <1>4, <1>5, <1>6

LEMMA JobsType ==
    ASSUME TypeOK, (\E op \in Op : Job(op)) \/ FinishJobs
    PROVE  TypeOK'
<1> USE DEF stored, working
<1>1. ASSUME NEW op \in Op, Job(op) PROVE TypeOK'
  <2>0. op.msg \in Msg /\ op.peer \in Peer /\ op.peer.url \in Endpoint
    BY DEF Op, Peer
  <2> USE <2>0 DEF Postpone, Settle
  <2>1. CASE SkipErrored(op) \/ PullKnown(op) \/ PullDenied(op)
    BY <2>1 DEF TypeOK, SkipErrored, PullKnown, PullDenied
  <2>2. CASE PullUnreachable(op) \/ PullUnreadable(op) \/ PullRead(op)
    BY <2>2 DEF TypeOK, PullUnreachable, PullUnreadable, PullRead
  <2>3. CASE PushAbsent(op) \/ PushRead(op) \/ PushUnreachable(op) \/ Refused(op)
    BY <2>3 DEF TypeOK, PushAbsent, PushRead, PushUnreachable, Refused
  <2>4. CASE PushReplyLost(op)
    <3>1. op.peer.url \in Nodes /\ After(dwn[op.peer.url], op.msg) \in Node
      BY AfterType DEF TypeOK, Nodes
    <3> QED
      BY <2>4, <3>1 DEF TypeOK, PushReplyLost
  <2>5. CASE Deliver(op)
    <3>1. Target(dir, op.peer) \in Nodes
      BY EndsAreNodes DEF TypeOK
    <3>2. After(dwn[Target(dir, op.peer)], op.msg) \in Node
      BY <3>1, AfterType DEF TypeOK
    <3> QED
      BY <2>5, <3>1, <3>2 DEF TypeOK, Deliver
  <2>6. CASE AddMessage(op)
    BY <2>6 DEF TypeOK, AddMessage
  <2> QED
    BY <1>1, <2>1, <2>2, <2>3, <2>4, <2>5, <2>6 DEF Job
<1>2. CASE FinishJobs
  BY <1>2 DEF TypeOK, FinishJobs, NotFetching, Fetching, Phase, Dir
<1> QED
  BY <1>1, <1>2

\* Every variable keeps its type, for every set of tenants, endpoints and
\* messages and whatever happens outside.
THEOREM TypeCorrect == Spec => []TypeOK
<1>1. Init => TypeOK
  <2> SUFFICES ASSUME Init PROVE TypeOK
    OBVIOUS
  <2>1. EmptyNode \in Node
    BY DEF EmptyNode, Node
  <2> QED
    BY <2>1 DEF Init, TypeOK, NotFetching, Fetching, Phase, Dir
<1>2. TypeOK /\ [Next]_vars => TypeOK'
  <2> SUFFICES ASSUME TypeOK, [Next]_vars PROVE TypeOK'
    OBVIOUS
  <2>1. CASE UNCHANGED vars
    BY <2>1 DEF vars, TypeOK
  <2>2. CASE Outside
    BY <2>2, OutsideType
  <2>3. CASE \E d \in Dir, both \in BOOLEAN : Sync(d, both)
    BY <2>3, EnqueueType
  <2>4. CASE Run
    BY <2>4, EnqueueType, JobsType DEF Run
  <2> QED
    BY <2>1, <2>2, <2>3, <2>4 DEF Next
<1> QED
  BY <1>1, <1>2, PTL DEF Spec

-----------------------------------------------------------------------------
(* Nothing the push cursor has passed is forgotten *)

\* The events that make the engine forget: a delegate without its grant, a
\* queue batch that fails, a stop between the cursor and the queue, a clear()
\* under a run.
Forgetting == {"noGrant", "denied", "batchFails", "crash", "clearBusy"}

InOrder(n) == \A m \in Msg : n.at[m] <= n.head /\ (m \in n.stored => n.at[m] > 0)

\* b is what node a may become: its log only grows, and what it takes is new.
Grown(a, b) ==
    /\ a.head <= b.head
    /\ \A m \in Msg : a.at[m] > 0 => b.at[m] = a.at[m]
    /\ \A m \in b.stored : m \in a.stored \/ (a.at[m] = 0 /\ b.at[m] > a.head)

LEMMA AfterGrows ==
    ASSUME NEW n \in Node, NEW m \in Msg, InOrder(n)
    PROVE  InOrder(After(n, m)) /\ Grown(n, After(n, m))
<1>1. CASE ~Accepts(n, m)
  BY <1>1 DEF After, Grown, InOrder, Node
<1>2. CASE Accepts(n, m)
  <2>1. n.at[m] = 0
    BY <1>2 DEF Accepts, Covers, Arrived, Node
  <2>2. After(n, m) = [stored |-> (n.stored \cup {m}) \ Supersedes[m],
                       at     |-> [n.at EXCEPT ![m] = n.head + 1],
                       head   |-> n.head + 1]
    BY <1>2 DEF After
  <2> QED
    BY <2>1, <2>2 DEF Grown, InOrder, Node
<1> QED
  BY <1>1, <1>2

LEMMA GrownCovers ==
    ASSUME NEW a \in Node, NEW b \in Node, Grown(a, b), NEW m \in Msg, Covers(a, m)
    PROVE  Covers(b, m)
  BY DEF Grown, Covers, Arrived, Node

\* A message whose reply is successful is on the node, or is obsolete there.
LEMMA SuccessCovers ==
    ASSUME NEW n \in Node, NEW m \in Msg, InOrder(n),
           ReplyIsSuccessful(Reply(n, m))
    PROVE  Covers(After(n, m), m)
<1>1. CASE Accepts(n, m)
  <2>1. After(n, m).at[m] = n.head + 1
    BY <1>1 DEF After, Node
  <2>2. m \in Arrived(After(n, m))
    BY <2>1 DEF Arrived, Node
  <2> QED
    BY <2>2 DEF Covers
<1>2. CASE ~Accepts(n, m)
  <2>1. Covers(n, m)
    BY <1>2 DEF Reply, ReplyIsSuccessful
  <2> QED
    BY <1>2, <2>1 DEF After
<1> QED
  BY <1>1, <1>2

LogsGrow == \A n \in Nodes : Grown(dwn[n], dwn'[n])

LEMMA SameLogs ==
    ASSUME TypeOK, LogsOrdered, UNCHANGED dwn
    PROVE  LogsGrow /\ LogsOrdered'
<1>1. \A n \in Nodes : dwn[n] \in Node
  BY DEF TypeOK
<1> QED
  BY <1>1 DEF LogsGrow, LogsOrdered, Grown, Node

LEMMA ProcessingGrows ==
    ASSUME TypeOK, LogsOrdered, NEW x \in Nodes, NEW m \in Msg,
           dwn' = [dwn EXCEPT ![x] = After(dwn[x], m)]
    PROVE  LogsGrow /\ LogsOrdered'
<1>1. \A n \in Nodes : dwn[n] \in Node /\ InOrder(dwn[n])
  BY DEF TypeOK, LogsOrdered, InOrder
<1>2. InOrder(After(dwn[x], m)) /\ Grown(dwn[x], After(dwn[x], m))
  BY <1>1, AfterGrows
<1>3. \A n \in Nodes : InOrder(dwn'[n]) /\ Grown(dwn[n], dwn'[n])
  <2> TAKE n \in Nodes
  <2>1. CASE n = x
    BY <1>2, <2>1 DEF TypeOK
  <2>2. CASE n # x
    <3>1. dwn'[n] = dwn[n]
      BY <2>2 DEF TypeOK
    <3> QED
      BY <1>1, <3>1 DEF Grown, Node
  <2> QED
    BY <2>1, <2>2
<1> QED
  BY <1>3 DEF LogsGrow, LogsOrdered, InOrder

\* While the cursors, the queues and the tasks stay, growing logs keep what
\* the invariant says of them.
LEMMA GrowthKeeps ==
    ASSUME TypeOK, TypeOK', PushInvariant, LogsGrow,
           UNCHANGED <<cursor, queue, dir, fetch>>
    PROVE  CursorsInLog' /\ TasksApart' /\ PushesRead' /\ PushAccounted'
<1> USE DEF PushInvariant
<1>0. Local \in Nodes /\ \A k \in Key : k.url \in Nodes
  BY DEF Nodes, Key
<1>1. /\ dwn[Local] \in Node /\ dwn'[Local] \in Node
      /\ Grown(dwn[Local], dwn'[Local])
  BY <1>0 DEF TypeOK, LogsGrow
<1>2. CursorsInLog'
  BY <1>1 DEF CursorsInLog, Grown, Node, TypeOK, Dir
<1>3. TasksApart'
  BY DEF TasksApart
<1>4. PushesRead'
  BY <1>1 DEF PushesRead, Grown, Node, TypeOK, Op, Dir
<1>5. PushAccounted'
  <2> SUFFICES ASSUME NEW k \in Key, NEW m \in dwn'[Local].stored \cap Scope(k),
                      dwn'[Local].at[m] <= cursor["push"][k]
               PROVE  Covers(dwn'[k.url], m) \/ Waiting("push", k, m)'
    BY DEF PushAccounted
  <2>1. m \in Msg
    BY DEF Scope
  <2>2. cursor["push"][k] \in Nat /\ cursor["push"][k] <= dwn[Local].head
    BY DEF CursorsInLog, TypeOK, Dir
  <2>3. m \in dwn[Local].stored /\ dwn[Local].at[m] > 0
    BY <1>0, <1>1, <2>1, <2>2 DEF Grown, LogsOrdered, Node
  <2>4. dwn[Local].at[m] <= cursor["push"][k]
    BY <1>1, <2>1, <2>3 DEF Grown
  <2>5. Covers(dwn[k.url], m) \/ Waiting("push", k, m)
    BY <2>3, <2>4 DEF PushAccounted
  <2>6. CASE Covers(dwn[k.url], m)
    <3>1. dwn[k.url] \in Node /\ dwn'[k.url] \in Node
      BY <1>0 DEF TypeOK
    <3> QED
      BY <1>0, <2>1, <2>6, <3>1, GrownCovers DEF LogsGrow
  <2>7. CASE Waiting("push", k, m)
    BY <2>7 DEF Waiting
  <2> QED
    BY <2>5, <2>6, <2>7
<1> QED
  BY <1>2, <1>3, <1>4, <1>5

\* A push that is settled stays settled.
LEMMA SettledStays ==
    ASSUME TypeOK, TypeOK', PushInvariant, LogsGrow,
           NEW op \in queue["push"],
           \/ Covers(dwn[op.peer.url], op.msg)
           \/ op.msg \notin dwn[Local].stored
    PROVE  \/ Covers(dwn'[op.peer.url], op.msg)
           \/ op.msg \notin dwn'[Local].stored
<1>0. op.msg \in Msg /\ op.peer.url \in Nodes /\ Local \in Nodes
  BY DEF TypeOK, Op, Peer, Nodes, Dir
<1>1. \A n \in Nodes : dwn[n] \in Node /\ dwn'[n] \in Node
  BY DEF TypeOK
<1>2. CASE Covers(dwn[op.peer.url], op.msg)
  BY <1>0, <1>1, <1>2, GrownCovers DEF LogsGrow
<1>3. CASE op.msg \notin dwn[Local].stored
  <2>1. dwn[Local].at[op.msg] > 0
    BY DEF PushInvariant, PushesRead
  <2> QED
    BY <1>0, <1>1, <1>3, <2>1 DEF LogsGrow, Grown, Node
<1> QED
  BY <1>2, <1>3

LEMMA JobKeeps ==
    ASSUME TypeOK, TypeOK', PushInvariant, Happens \cap Forgetting = {},
           NEW op \in Op, Job(op)
    PROVE  PushInvariant'
<1> USE DEF stored, working
<1>0. /\ op.msg \in Msg /\ op.peer \in Peer /\ op.peer.url \in Nodes
      /\ Local \in Nodes /\ op # NoOp /\ ~GrantMissing(op.peer)
      /\ ~Denied
  BY SyncAssumption DEF Op, Peer, Nodes, GrantMissing, Denied, Forgetting
<1>1. LogsGrow /\ LogsOrdered'
  <2>1. CASE UNCHANGED dwn
    BY <2>1, SameLogs DEF PushInvariant
  <2>2. CASE PushReplyLost(op)
    <3>1. dwn' = [dwn EXCEPT ![op.peer.url] = After(dwn[op.peer.url], op.msg)]
      BY <2>2, <1>0 DEF PushReplyLost, TypeOK
    <3> QED
      BY <3>1, <1>0, ProcessingGrows DEF PushInvariant
  <2>3. CASE Deliver(op)
    <3>1. Target(dir, op.peer) \in Nodes
      BY <1>0, EndsAreNodes DEF TypeOK
    <3>2. dwn' = [dwn EXCEPT ![Target(dir, op.peer)] =
                               After(dwn[Target(dir, op.peer)], op.msg)]
      BY <2>3, <3>1 DEF Deliver, TypeOK
    <3> QED
      BY <3>1, <3>2, <1>0, ProcessingGrows DEF PushInvariant
  <2> QED
    BY <2>1, <2>2, <2>3 DEF Job, SkipErrored, PullKnown, PullDenied,
       PullUnreachable, PullUnreadable, PullRead, PushAbsent, PushRead,
       PushUnreachable, Refused, AddMessage, Postpone, Settle
<1>2. UNCHANGED <<cursor, queue, dir, fetch, phase, options>>
  BY DEF Job, SkipErrored, PullKnown, PullDenied, PullUnreachable,
     PullUnreadable, PullRead, PushAbsent, PushRead, PushUnreachable, Refused,
     PushReplyLost, Deliver, AddMessage, Postpone, Settle
<1>3. CursorsInLog' /\ TasksApart' /\ PushesRead' /\ PushAccounted'
  BY <1>1, <1>2, GrowthKeeps
\* The job was on the queue, so the run is working the queue off.
<1>4. op \in todo \/ fetched = op \/ accepted = op
  BY DEF Job, SkipErrored, PullKnown, PullDenied, PullUnreachable,
     PullUnreadable, PullRead, PushAbsent, PushRead, PushUnreachable, Refused,
     PushReplyLost, Deliver, AddMessage, IsNext
<1>5. op \in queue[dir] /\ phase = "jobs"
  BY <1>0, <1>4 DEF PushInvariant, RunHolds, TypeOK, Phase
<1>6. /\ todo' \subseteq todo /\ done' \subseteq done \cup {op}
      /\ fetched' \in {fetched, op, NoOp} /\ accepted' \in {accepted, op, NoOp}
  BY DEF Job, SkipErrored, PullKnown, PullDenied, PullUnreachable,
     PullUnreadable, PullRead, PushAbsent, PushRead, PushUnreachable, Refused,
     PushReplyLost, Deliver, AddMessage, Postpone, Settle
<1>7. RunHolds'
  BY <1>2, <1>5, <1>6 DEF PushInvariant, RunHolds
<1>8. PushesDone'
  <2> SUFFICES ASSUME dir = "push"
               PROVE  /\ \A o \in done' : \/ Covers(dwn'[o.peer.url], o.msg)
                                          \/ o.msg \notin dwn'[Local].stored
                      /\ accepted' # NoOp =>
                           Covers(dwn'[accepted'.peer.url], accepted'.msg)
    BY <1>2 DEF PushesDone
  <2>1. \A o \in done : \/ Covers(dwn'[o.peer.url], o.msg)
                        \/ o.msg \notin dwn'[Local].stored
    <3> TAKE o \in done
    <3>1. o \in queue["push"]
      BY DEF PushInvariant, RunHolds
    <3> QED
      BY <1>1, <3>1, SettledStays DEF PushInvariant, PushesDone
  <2>2. \A a \in Node : \A b \in Node : \A m \in Msg :
            Grown(a, b) /\ Covers(a, m) => Covers(b, m)
    BY GrownCovers
  <2>3. dwn[op.peer.url] \in Node /\ dwn'[op.peer.url] \in Node
    BY <1>0 DEF TypeOK
  <2>4. accepted = op => Covers(dwn'[op.peer.url], op.msg)
    BY <1>0, <1>1, <2>2, <2>3 DEF PushInvariant, PushesDone, LogsGrow
  <2>5. op \in done' => \/ op \in done \/ accepted = op
                        \/ op.msg \notin dwn'[Local].stored
    BY <1>0 DEF Job, SkipErrored, PullKnown, PullDenied, PullUnreachable,
       PullUnreadable, PullRead, PushAbsent, PushRead, PushUnreachable, Refused,
       PushReplyLost, Deliver, AddMessage, Postpone, Settle
  <2>6. ASSUME accepted' # NoOp
        PROVE  Covers(dwn'[accepted'.peer.url], accepted'.msg)
    <3>1. CASE Deliver(op) /\ accepted' = op
      <4>1. ReplyIsSuccessful(Reply(dwn[op.peer.url], op.msg)) \/ accepted = op
        BY <3>1, <1>0, <2>6 DEF Deliver, Target
      <4>2. dwn'[op.peer.url] = After(dwn[op.peer.url], op.msg)
        BY <3>1, <1>0 DEF Deliver, Target, TypeOK
      <4>3. InOrder(dwn[op.peer.url])
        BY <1>0 DEF PushInvariant, LogsOrdered, InOrder
      <4> QED
        BY <3>1, <4>1, <4>2, <4>3, <1>0, <2>3, <2>4, SuccessCovers
    <3>2. CASE ~(Deliver(op) /\ accepted' = op)
      <4>1. accepted' = accepted
        BY <3>2, <2>6 DEF Job, SkipErrored, PullKnown, PullDenied,
           PullUnreachable, PullUnreadable, PullRead, PushAbsent, PushRead,
           PushUnreachable, Refused, PushReplyLost, Deliver, AddMessage, Postpone, Settle
      <4>2. accepted \in Op
        BY <4>1, <2>6 DEF TypeOK
      <4>3. accepted.peer.url \in Nodes /\ accepted.msg \in Msg
        BY <4>2 DEF Op, Peer, Nodes
      <4>4. /\ dwn[accepted.peer.url] \in Node /\ dwn'[accepted.peer.url] \in Node
            /\ Grown(dwn[accepted.peer.url], dwn'[accepted.peer.url])
        BY <4>3, <1>1 DEF TypeOK, LogsGrow
      <4> QED
        BY <4>1, <4>3, <4>4, <2>2, <2>6 DEF PushInvariant, PushesDone
    <3> QED
      BY <3>1, <3>2
  <2> QED
    BY <1>6, <2>1, <2>4, <2>5, <2>6
<1> QED
  BY <1>1, <1>3, <1>7, <1>8 DEF PushInvariant

LEMMA OutsideKeeps ==
    ASSUME TypeOK, TypeOK', PushInvariant, Happens \cap Forgetting = {}, Outside
    PROVE  PushInvariant'
<1> USE DEF stored, working
<1>1. ASSUME UNCHANGED <<cursor, queue, phase, dir, fetch, working>>,
             LogsGrow, LogsOrdered'
      PROVE  PushInvariant'
  <2>1. CursorsInLog' /\ TasksApart' /\ PushesRead' /\ PushAccounted'
    BY <1>1, GrowthKeeps
  <2>2. RunHolds'
    BY <1>1 DEF PushInvariant, RunHolds
  <2>3. PushesDone'
    <3> SUFFICES ASSUME dir = "push"
                 PROVE  /\ \A o \in done : \/ Covers(dwn'[o.peer.url], o.msg)
                                           \/ o.msg \notin dwn'[Local].stored
                        /\ accepted # NoOp =>
                             Covers(dwn'[accepted.peer.url], accepted.msg)
      BY <1>1 DEF PushesDone
    <3>1. \A o \in done : \/ Covers(dwn'[o.peer.url], o.msg)
                          \/ o.msg \notin dwn'[Local].stored
      <4> TAKE o \in done
      <4>1. o \in queue["push"]
        BY DEF PushInvariant, RunHolds
      <4> QED
        BY <1>1, <4>1, SettledStays DEF PushInvariant, PushesDone
    <3>2. ASSUME accepted # NoOp
          PROVE  Covers(dwn'[accepted.peer.url], accepted.msg)
      <4>1. accepted.peer.url \in Nodes /\ accepted.msg \in Msg
        BY <3>2 DEF TypeOK, Op, Peer, Nodes
      <4>2. /\ dwn[accepted.peer.url] \in Node /\ dwn'[accepted.peer.url] \in Node
            /\ Grown(dwn[accepted.peer.url], dwn'[accepted.peer.url])
        BY <4>1, <1>1 DEF TypeOK, LogsGrow
      <4> QED
        BY <3>2, <4>1, <4>2, GrownCovers DEF PushInvariant, PushesDone
    <3> QED
      BY <3>1, <3>2
  <2> QED
    BY <1>1, <2>1, <2>2, <2>3 DEF PushInvariant
<1>2. ASSUME NEW m \in Msg, WriteLocal(m) PROVE PushInvariant'
  <2>1. LogsGrow /\ LogsOrdered'
    BY <1>2, ProcessingGrows DEF WriteLocal, PushInvariant, Nodes
  <2> QED
    BY <1>1, <1>2, <2>1 DEF WriteLocal
<1>3. ASSUME NEW u \in Endpoint, NEW m \in Msg, WriteRemote(u, m)
      PROVE  PushInvariant'
  <2>1. LogsGrow /\ LogsOrdered'
    BY <1>3, ProcessingGrows DEF WriteRemote, PushInvariant, Nodes
  <2> QED
    BY <1>1, <1>3, <2>1 DEF WriteRemote
<1>4. ASSUME \/ \E d \in Did, o \in Options :
                   RegisterIdentity(d, o) \/ UpdateIdentityOptions(d, o)
             \/ \E d \in Did : UnregisterIdentity(d)
      PROVE  PushInvariant'
  <2>1. UNCHANGED <<dwn, cursor, queue, phase, dir, fetch, working>>
    BY <1>4 DEF RegisterIdentity, UpdateIdentityOptions, UnregisterIdentity
  <2> QED
    BY <1>1, <2>1, SameLogs DEF PushInvariant
\* clear() with no run in progress: nothing is queued, no cursor is set.
<1>5. CASE Clear
  <2>1. /\ phase = "idle"
        /\ cursor' = [x \in Dir |-> [k \in Key |-> 0]]
        /\ queue' = [x \in Dir |-> {}]
        /\ UNCHANGED <<dwn, phase, dir, fetch, working>>
    BY <1>5 DEF Clear, Forgetting
  <2>2. \A p \in Peer : fetch[p].state = "off"
    BY <2>1 DEF PushInvariant, RunHolds
  <2>3. dwn[Local] \in Node
    BY DEF TypeOK, Nodes
  <2>4. LogsOrdered' /\ CursorsInLog'
    BY <2>1, <2>3 DEF PushInvariant, LogsOrdered, CursorsInLog, Dir, Node
  <2>5. TasksApart' /\ RunHolds' /\ PushesRead' /\ PushesDone'
    BY <2>1, <2>2 DEF PushInvariant, TasksApart, RunHolds, PushesRead,
                      PushesDone, Dir
  <2>6. PushAccounted'
    BY <2>1, <2>3 DEF PushAccounted, PushInvariant, LogsOrdered, Dir, Node,
                      Nodes, Scope
  <2> QED
    BY <2>4, <2>5, <2>6 DEF PushInvariant
<1>6. CASE SyncThrows
  <2>1. \A p \in Peer : fetch[p].state # "put" /\ fetch'[p].state = "off"
    BY <1>6 DEF SyncThrows, Drop, NotFetching, Fetching, PushInvariant, RunHolds
  <2>2. /\ UNCHANGED <<dwn, cursor, queue>>
        /\ todo' = {} /\ done' = {} /\ fetched' = NoOp /\ accepted' = NoOp
        /\ phase' = "idle" /\ dir' = "push"
    BY <1>6 DEF SyncThrows, Drop
  <2>3. LogsOrdered' /\ CursorsInLog' /\ TasksApart' /\ RunHolds'
    BY <2>1, <2>2 DEF PushInvariant, LogsOrdered, CursorsInLog, TasksApart,
                      RunHolds
  <2>4. PushesRead' /\ PushesDone'
    BY <2>1, <2>2 DEF PushInvariant, PushesRead, PushesDone
  <2>5. PushAccounted'
    BY <2>1, <2>2 DEF PushInvariant, PushAccounted, Waiting
  <2> QED
    BY <2>3, <2>4, <2>5 DEF PushInvariant
<1>7. ~Crash
  BY DEF Crash, Forgetting
<1> QED
  BY <1>2, <1>3, <1>4, <1>5, <1>6, <1>7 DEF Outside

\* Two tasks of a run never share a key: an identity has one delegate.
LEMMA OnePeerPerKey ==
    \A p, q \in ActivePeers : KeyOf(p) = KeyOf(q) => p = q
<1> SUFFICES ASSUME NEW p \in ActivePeers, NEW q \in ActivePeers,
                    KeyOf(p) = KeyOf(q)
             PROVE  p = q
  OBVIOUS
<1>1. p.did = q.did /\ p.url = q.url /\ p.protocol = q.protocol
  BY DEF KeyOf
<1>2. p.delegate = q.delegate
  BY <1>1 DEF ActivePeers
<1> QED
  BY <1>1, <1>2 DEF ActivePeers, Peer

\* The step that moves a cursor past entries that are not queued yet.
LEMMA EventLogKeeps ==
    ASSUME TypeOK, TypeOK', PushInvariant, NEW p \in Peer, GetDwnEventLog(p)
    PROVE  PushInvariant'
<1> USE DEF PushInvariant
<1> DEFINE n == dwn[Source(dir, p)]
           new == EntriesAfter(n, fetch[p].from, Scope(p))
<1>0. /\ n \in Node /\ Local \in Nodes /\ dwn[Local] \in Node
      /\ KeyOf(p) \in Key /\ fetch[p].from \in Nat /\ new \subseteq Msg
  BY EndsAreNodes, KeyOfType DEF TypeOK, Nodes, EntriesAfter, Scope
<1>1. /\ phase = "enqueue" /\ fetch[p].state = "ask"
      /\ UNCHANGED <<dwn, options, queue, history, phase, dir, thenPull,
                     todo, done, errored, fetched, accepted>>
  BY DEF GetDwnEventLog, working
<1>2. LogsOrdered' /\ PushesDone'
  BY <1>1 DEF LogsOrdered, PushesDone
<1>3. CASE UNCHANGED cursor /\ fetch' = [fetch EXCEPT ![p] = Fetching("done", 0, {})]
  <2>1. \A q \in Peer : fetch'[q] = fetch[q] \/ (q = p /\ fetch'[q].state = "done")
    BY <1>3 DEF TypeOK, Fetching
  <2>2. CursorsInLog' /\ RunHolds' /\ PushesRead'
    BY <1>1, <1>3, <2>1 DEF CursorsInLog, RunHolds, PushesRead
  <2>3. TasksApart'
    BY <1>1, <1>3, <2>1 DEF TasksApart
  <2>4. PushAccounted'
    BY <1>1, <1>3, <2>1 DEF PushAccounted, Waiting
  <2> QED
    BY <1>2, <2>2, <2>3, <2>4
<1>4. ASSUME NEW c \in {n.at[m] : m \in new}, IsCursorOf(n, new, c),
             cursor' = [cursor EXCEPT ![dir][KeyOf(p)] = c],
             fetch' = [fetch EXCEPT ![p] = Fetching("put", fetch[p].from, new)]
      PROVE  PushInvariant'
  <2>1. /\ \A q \in Peer : q # p => fetch'[q] = fetch[q]
        /\ fetch'[p].state = "put" /\ fetch'[p].entries = new
    BY <1>4 DEF TypeOK, Fetching
  <2>2. /\ cursor'[dir][KeyOf(p)] = c
        /\ \A k \in Key : k # KeyOf(p) => cursor'[dir][k] = cursor[dir][k]
        /\ dir = "pull" => cursor'["push"] = cursor["push"]
    BY <1>0, <1>4 DEF TypeOK, Dir
  <2>3. /\ c \in Nat /\ \A m \in new : n.at[m] > 0 /\ n.at[m] <= c
        /\ c <= n.head
    BY <1>0, <1>4, EndsAreNodes DEF LogsOrdered, IsCursorOf, EntriesAfter, Node,
                                    TypeOK
  <2>4. CursorsInLog'
    BY <1>0, <1>1, <2>2, <2>3 DEF CursorsInLog, Source, TypeOK, Dir
  <2>5. TasksApart'
    <3> SUFFICES ASSUME NEW q \in Peer, fetch'[q].state # "off"
                 PROVE  /\ fetch'[q].state = "ask" =>
                             fetch'[q].from <= cursor'[dir][KeyOf(q)]
                        /\ \A r \in Peer : fetch'[r].state # "off" /\
                             KeyOf(r) = KeyOf(q) => r = q
      BY <1>1 DEF TasksApart
    <3>1. \A r \in Peer : fetch'[r].state # "off" => fetch[r].state # "off"
      BY <1>1, <2>1
    <3>2. q # p => KeyOf(q) # KeyOf(p)
      BY <1>1, <3>1 DEF TasksApart
    <3> QED
      BY <2>1, <2>2, <3>1, <3>2, KeyOfType DEF TasksApart
  <2>6. RunHolds'
    BY <1>1 DEF RunHolds
  <2>7. PushesRead'
    BY <1>1, <2>1, <2>3 DEF PushesRead, Source
  <2>8. PushAccounted'
    <3> SUFFICES ASSUME NEW k \in Key, NEW m \in dwn[Local].stored \cap Scope(k),
                        dwn[Local].at[m] <= cursor'["push"][k]
                 PROVE  Covers(dwn[k.url], m) \/ Waiting("push", k, m)'
      BY <1>1 DEF PushAccounted
    <3>1. Waiting("push", k, m) => Waiting("push", k, m)'
      BY <1>1, <2>1 DEF Waiting
    <3>2. CASE dir = "push" /\ k = KeyOf(p)
      <4>1. CASE dwn[Local].at[m] > fetch[p].from
        <5>1. m \in new
          <6>1. Scope(k) = Scope(p)
            BY <3>2 DEF Scope, KeyOf
          <6> QED
            BY <3>2, <4>1, <6>1 DEF EntriesAfter, Source
        <5> QED
          BY <1>1, <2>1, <3>2, <5>1 DEF Waiting
      <4>2. CASE dwn[Local].at[m] <= fetch[p].from
        <5>1. /\ cursor[dir][KeyOf(p)] \in Nat
              /\ fetch[p].from <= cursor[dir][KeyOf(p)]
              /\ m \in Msg /\ dwn[Local].at[m] \in Nat
          BY <1>0, <1>1 DEF TasksApart, TypeOK, Scope, Node
        <5>2. dwn[Local].at[m] <= cursor["push"][k]
          BY <1>0, <3>2, <4>2, <5>1
        <5> QED
          BY <3>1, <5>2 DEF PushAccounted
      <4> QED
        BY <1>0, <4>1, <4>2 DEF Scope, Node
    <3>3. CASE ~(dir = "push" /\ k = KeyOf(p))
      <4>1. cursor'["push"][k] = cursor["push"][k]
        BY <2>2, <3>3 DEF TypeOK, Dir
      <4> QED
        BY <3>1, <4>1 DEF PushAccounted
    <3> QED
      BY <3>2, <3>3
  <2> QED
    BY <1>2, <2>4, <2>5, <2>6, <2>7, <2>8
<1> QED
  BY <1>3, <1>4 DEF GetDwnEventLog

LEMMA EnqueueKeeps ==
    ASSUME TypeOK, TypeOK', PushInvariant, Happens \cap Forgetting = {},
           \/ \E d \in Dir, both \in BOOLEAN : Sync(d, both)
           \/ GetSyncPeerState
           \/ \E p \in Peer : NoEventLog(p) \/ GetDwnEventLog(p) \/ Enqueue(p)
           \/ StartJobs
    PROVE  PushInvariant'
<1> USE DEF stored, working, PushInvariant
<1>1. ASSUME NEW d \in Dir, NEW both \in BOOLEAN, Sync(d, both)
      PROVE  PushInvariant'
  <2>1. /\ UNCHANGED <<dwn, cursor, queue, fetch, working>>
        /\ phase = "idle" /\ phase' = "peers" /\ dir' = d
    BY <1>1 DEF Sync
  <2>2. /\ \A p \in Peer : fetch[p].state = "off"
        /\ todo = {} /\ done = {} /\ fetched = NoOp /\ accepted = NoOp
    BY <2>1 DEF RunHolds
  <2>3. LogsOrdered' /\ CursorsInLog' /\ TasksApart' /\ RunHolds'
    BY <2>1, <2>2 DEF LogsOrdered, CursorsInLog, TasksApart, RunHolds
  <2>4. PushesRead' /\ PushesDone' /\ PushAccounted'
    BY <2>1, <2>2 DEF PushesRead, PushesDone, PushAccounted, Waiting
  <2> QED
    BY <2>3, <2>4
<1>2. CASE GetSyncPeerState
  <2>1. /\ UNCHANGED <<dwn, cursor, queue, dir, working>>
        /\ phase = "peers" /\ phase' = "enqueue"
    BY <1>2 DEF GetSyncPeerState
  <2>2. ASSUME NEW p \in Peer
        PROVE  \/ /\ p \in ActivePeers /\ fetch'[p].state = "ask"
                  /\ fetch'[p].from = cursor[dir][KeyOf(p)]
               \/ p \notin ActivePeers /\ fetch'[p].state = "off"
    <3>1. fetch'[p] = IF p \in ActivePeers
                      THEN [state |-> "ask", from |-> cursor[dir][KeyOf(p)],
                            entries |-> {}]
                      ELSE [state |-> "off", from |-> 0, entries |-> {}]
      BY <1>2 DEF GetSyncPeerState, Fetching
    <3> QED
      BY <3>1
  <2>3. \A p \in Peer : fetch[p].state = "off" /\ fetch'[p].state \in {"off", "ask"}
    BY <2>1, <2>2 DEF RunHolds
  <2>4. TasksApart'
    <3> SUFFICES ASSUME NEW p \in Peer, fetch'[p].state # "off"
                 PROVE  /\ fetch'[p].state = "ask" =>
                             fetch'[p].from <= cursor[dir][KeyOf(p)]
                        /\ \A q \in Peer : fetch'[q].state # "off" /\
                             KeyOf(q) = KeyOf(p) => q = p
      BY <2>1 DEF TasksApart
    <3>1. \A q \in Peer : fetch'[q].state # "off" => q \in ActivePeers
      BY <2>2
    <3>2. fetch'[p].from = cursor[dir][KeyOf(p)]
      BY <2>2, <3>1
    <3>3. cursor[dir][KeyOf(p)] \in Nat
      BY KeyOfType DEF TypeOK
    <3> QED
      BY <3>1, <3>2, <3>3, OnePeerPerKey
  <2>5. LogsOrdered' /\ CursorsInLog' /\ RunHolds'
    BY <2>1, <2>3 DEF LogsOrdered, CursorsInLog, RunHolds
  <2>6. PushesRead' /\ PushesDone' /\ PushAccounted'
    BY <2>1, <2>3 DEF PushesRead, PushesDone, PushAccounted, Waiting
  <2> QED
    BY <2>4, <2>5, <2>6
<1>3. ASSUME NEW p \in Peer, NoEventLog(p) PROVE PushInvariant'
  <2>1. /\ UNCHANGED <<dwn, cursor, queue, dir, phase, working>>
        /\ phase = "enqueue" /\ fetch[p].state = "ask"
    BY <1>3 DEF NoEventLog
  <2>2. \A q \in Peer : fetch'[q] = fetch[q] \/ (q = p /\ fetch'[q].state = "done")
    BY <1>3 DEF NoEventLog, Fetching, TypeOK
  <2>3. LogsOrdered' /\ CursorsInLog' /\ TasksApart' /\ RunHolds'
    BY <2>1, <2>2 DEF LogsOrdered, CursorsInLog, TasksApart, RunHolds
  <2>4. PushesRead' /\ PushesDone' /\ PushAccounted'
    BY <2>1, <2>2 DEF PushesRead, PushesDone, PushAccounted, Waiting
  <2> QED
    BY <2>3, <2>4
<1>4. ASSUME NEW p \in Peer, GetDwnEventLog(p) PROVE PushInvariant'
  BY <1>4, EventLogKeeps
<1>5. ASSUME NEW p \in Peer, Enqueue(p) PROVE PushInvariant'
  <2> DEFINE jobs == {[peer |-> p, msg |-> m] : m \in fetch[p].entries}
  <2>1. /\ UNCHANGED <<dwn, cursor, dir, phase, working>>
        /\ phase = "enqueue" /\ fetch[p].state = "put"
        /\ queue' = [queue EXCEPT ![dir] = @ \cup jobs]
    BY <1>5 DEF Enqueue, Forgetting
  <2>2. \A q \in Peer : fetch'[q] = fetch[q] \/ (q = p /\ fetch'[q].state = "done")
    BY <1>5 DEF Enqueue, Fetching, TypeOK
  <2>3. /\ queue'[dir] = queue[dir] \cup jobs
        /\ \A x \in Dir : x # dir => queue'[x] = queue[x]
    BY <2>1 DEF TypeOK
  <2>4. LogsOrdered' /\ CursorsInLog' /\ TasksApart' /\ RunHolds'
    BY <2>1, <2>2 DEF LogsOrdered, CursorsInLog, TasksApart, RunHolds
  <2>5. PushesRead' /\ PushesDone'
    BY <2>1, <2>2, <2>3 DEF PushesRead, PushesDone, TypeOK, Dir
  <2>6. \A k \in Key, m \in Msg : Waiting("push", k, m) => Waiting("push", k, m)'
    BY <2>1, <2>2, <2>3 DEF Waiting, Dir
  <2>7. PushAccounted'
    BY <2>1, <2>6 DEF PushAccounted, Scope
  <2> QED
    BY <2>4, <2>5, <2>7
<1>6. CASE StartJobs
  <2>1. /\ UNCHANGED <<dwn, cursor, queue, dir, fetch, done, fetched, accepted>>
        /\ phase = "enqueue" /\ phase' = "jobs" /\ todo' = queue[dir]
        /\ \A p \in Peer : fetch[p].state \in {"off", "done"}
    BY <1>6 DEF StartJobs
  <2>2. LogsOrdered' /\ CursorsInLog' /\ TasksApart' /\ RunHolds'
    BY <2>1 DEF LogsOrdered, CursorsInLog, TasksApart, RunHolds
  <2>3. PushesRead' /\ PushesDone' /\ PushAccounted'
    BY <2>1 DEF PushesRead, PushesDone, PushAccounted, Waiting
  <2> QED
    BY <2>2, <2>3
<1> QED
  BY <1>1, <1>2, <1>3, <1>4, <1>5, <1>6

LEMMA FinishKeeps ==
    ASSUME TypeOK, TypeOK', PushInvariant, FinishJobs
    PROVE  PushInvariant'
<1> USE DEF PushInvariant
<1>1. /\ UNCHANGED <<dwn, cursor, todo, fetched, accepted>>
      /\ phase = "jobs" /\ phase' \in {"peers", "idle"} /\ done' = {}
      /\ todo = {} /\ fetched = NoOp /\ accepted = NoOp
      /\ queue' = [queue EXCEPT ![dir] = @ \ done]
      /\ fetch' = NotFetching
  BY DEF FinishJobs
<1>2. \A p \in Peer : fetch[p].state # "put" /\ fetch'[p].state = "off"
  BY <1>1 DEF RunHolds, NotFetching, Fetching
<1>3. /\ queue'[dir] = queue[dir] \ done
      /\ \A x \in Dir : x # dir => queue'[x] = queue[x]
  BY <1>1 DEF TypeOK
<1>4. LogsOrdered' /\ CursorsInLog' /\ TasksApart' /\ RunHolds'
  BY <1>1, <1>2 DEF LogsOrdered, CursorsInLog, TasksApart, RunHolds
<1>5. PushesRead' /\ PushesDone'
  BY <1>1, <1>2, <1>3 DEF PushesRead, PushesDone, TypeOK, Dir
<1>6. PushAccounted'
  <2> SUFFICES ASSUME NEW k \in Key, NEW m \in dwn[Local].stored \cap Scope(k),
                      dwn[Local].at[m] <= cursor["push"][k]
               PROVE  Covers(dwn[k.url], m) \/ Waiting("push", k, m)'
    BY <1>1 DEF PushAccounted
  <2>1. CASE Covers(dwn[k.url], m)
    BY <2>1
  <2>2. CASE ~Covers(dwn[k.url], m)
    <3>1. PICK p \in Peer : /\ KeyOf(p) = k
                            /\ [peer |-> p, msg |-> m] \in queue["push"]
      BY <1>2, <2>2 DEF PushAccounted, Waiting
    <3>2. p.url = k.url
      BY <3>1 DEF KeyOf
    <3>3. dir = "push" => [peer |-> p, msg |-> m] \notin done
      BY <2>2, <3>2 DEF PushesDone
    <3>4. [peer |-> p, msg |-> m] \in queue'["push"]
      BY <1>3, <3>1, <3>3 DEF TypeOK, Dir
    <3> QED
      BY <3>1, <3>4 DEF Waiting
  <2> QED
    BY <2>1, <2>2
<1> QED
  BY <1>4, <1>5, <1>6

\* Unless one of the forgetting events happens, the push invariant holds in
\* every state, for every set of tenants, endpoints, protocols and messages.
THEOREM PushInvariantHolds ==
    Happens \cap Forgetting = {} => (Spec => []PushInvariant)
<1> SUFFICES ASSUME Happens \cap Forgetting = {} PROVE Spec => []PushInvariant
  OBVIOUS
<1>1. Init => PushInvariant
  <2> SUFFICES ASSUME Init PROVE PushInvariant
    OBVIOUS
  <2>1. \A n \in Nodes : dwn[n] = EmptyNode
    BY DEF Init
  <2>2. \A p \in Peer : fetch[p].state = "off"
    BY DEF Init, NotFetching, Fetching
  <2>3. LogsOrdered /\ CursorsInLog
    BY <2>1 DEF Init, LogsOrdered, CursorsInLog, EmptyNode, Nodes, Dir
  <2>4. TasksApart /\ RunHolds
    BY <2>2 DEF Init, TasksApart, RunHolds, Dir
  <2>5. PushesRead /\ PushesDone
    BY <2>2 DEF Init, PushesRead, PushesDone, Dir
  <2>6. PushAccounted
    BY <2>1 DEF PushAccounted, EmptyNode, Nodes
  <2> QED
    BY <2>3, <2>4, <2>5, <2>6 DEF PushInvariant
<1>2. TypeOK /\ TypeOK' /\ PushInvariant /\ [Next]_vars => PushInvariant'
  <2> SUFFICES ASSUME TypeOK, TypeOK', PushInvariant, [Next]_vars
               PROVE  PushInvariant'
    OBVIOUS
  <2>1. CASE UNCHANGED vars
    BY <2>1 DEF vars, PushInvariant, LogsOrdered, CursorsInLog, TasksApart,
       RunHolds, PushesRead, PushesDone, PushAccounted, Waiting
  <2>2. CASE Outside
    BY <2>2, OutsideKeeps
  <2>3. CASE \E d \in Dir, both \in BOOLEAN : Sync(d, both)
    BY <2>3, EnqueueKeeps
  <2>4. CASE Run
    BY <2>4, EnqueueKeeps, JobKeeps, FinishKeeps DEF Run
  <2> QED
    BY <2>1, <2>2, <2>3, <2>4 DEF Next
<1> QED
  BY <1>1, <1>2, TypeCorrect, PTL DEF Spec

\* What the local node holds and a push cursor has passed is at the endpoint
\* or waits to be sent there.
THEOREM PushAccountedHolds ==
    Happens \cap Forgetting = {} => (Spec => []PushAccounted)
<1> SUFFICES ASSUME Happens \cap Forgetting = {} PROVE Spec => []PushAccounted
  OBVIOUS
<1>1. PushInvariant => PushAccounted
  BY DEF PushInvariant
<1> QED
  BY <1>1, PushInvariantHolds, PTL

\* A job leaves the push queue only when its endpoint has the message or the
\* local node does not.
THEOREM PushSettledHolds ==
    Happens \cap Forgetting = {} => (Spec => PushSettled)
<1> DEFINE Step == \A op \in queue["push"] \ queue'["push"] :
                      phase = "jobs" =>
                         \/ Covers(dwn[op.peer.url], op.msg)
                         \/ op.msg \notin dwn[Local].stored
<1> SUFFICES ASSUME Happens \cap Forgetting = {} PROVE Spec => PushSettled
  OBVIOUS
<1>1. TypeOK /\ PushInvariant /\ [Next]_vars => [Step]_vars
  <2> SUFFICES ASSUME TypeOK, PushInvariant, Next, phase = "jobs",
                      NEW op \in queue["push"], op \notin queue'["push"]
               PROVE  \/ Covers(dwn[op.peer.url], op.msg)
                      \/ op.msg \notin dwn[Local].stored
    OBVIOUS
  <2>1. FinishJobs
    <3>1. ~UNCHANGED queue
      OBVIOUS
    <3>2. ~Outside
      BY <3>1 DEF Outside, WriteLocal, WriteRemote, RegisterIdentity,
         UpdateIdentityOptions, UnregisterIdentity, Clear, SyncThrows, Crash,
         Forgetting, stored
    <3>3. ~(\E d \in Dir, both \in BOOLEAN : Sync(d, both))
      BY DEF Sync
    <3>4. ~(\E o \in Op : Job(o))
      BY <3>1 DEF Job, SkipErrored, PullKnown, PullDenied, PullUnreachable,
         PullUnreadable, PullRead, PushAbsent, PushRead, PushUnreachable, Refused,
         PushReplyLost, Deliver, AddMessage, Postpone, Settle, stored
    <3> QED
      BY <3>2, <3>3, <3>4 DEF Next, Run, GetSyncPeerState, NoEventLog,
         GetDwnEventLog, Enqueue, StartJobs
  <2>2. dir = "push" /\ op \in done
    BY <2>1 DEF FinishJobs, TypeOK, Dir
  <2> QED
    BY <2>2 DEF PushInvariant, PushesDone
<1> QED
  BY <1>1, TypeCorrect, PushInvariantHolds, PTL DEF Spec, PushSettled

-----------------------------------------------------------------------------
(* Where what the engine works on comes from *)

\* A node that no longer holds what it once took has discarded it.
Discarded == \A n \in Nodes : \A m \in Msg :
                m \in Arrived(dwn[n]) /\ m \notin dwn[n].stored => Superseded(m)

\* Some options ask for peer p; m is p's, and was at its source.
AskedFor(p) == \E o \in Options : o.protocols = {} \/ p.protocol \in o.protocols

Traced(x, p, m) ==
    m \in Scope(p) /\ AskedFor(p) /\ m \in Arrived(dwn[Source(x, p)])

\* Whatever happens, queue and run hold only what is traced, and what has been
\* accepted the local node has.  Between two runs nothing is held.
TraceInvariant ==
    /\ LogsOrdered /\ Discarded
    /\ \A x \in Dir : \A op \in queue[x] : Traced(x, op.peer, op.msg)
    /\ \A p \in Peer : /\ fetch[p].state # "off" => AskedFor(p)
                       /\ \A m \in fetch[p].entries : Traced(dir, p, m)
    /\ \A op \in todo : Traced(dir, op.peer, op.msg)
    /\ fetched # NoOp => Traced(dir, fetched.peer, fetched.msg)
    /\ accepted # NoOp => Covers(dwn[Local], accepted.msg)
    /\ phase = "idle" =>
          /\ \A p \in Peer : fetch[p].state = "off" /\ fetch[p].entries = {}
          /\ todo = {} /\ fetched = NoOp /\ accepted = NoOp

\* What has arrived stays in the log, and what it makes obsolete stays so.
LEMMA ArrivedStays ==
    ASSUME TypeOK, TypeOK', LogsGrow
    PROVE  /\ \A n \in Nodes : Arrived(dwn[n]) \subseteq Arrived(dwn'[n])
           /\ \A m \in Msg : Superseded(m) => Superseded(m)'
           /\ \A m \in Msg : Covers(dwn[Local], m) => Covers(dwn'[Local], m)
           /\ \A x \in Dir, p \in Peer, m \in Msg :
                 Traced(x, p, m) => Traced(x, p, m)'
<1>1. \A n \in Nodes : Arrived(dwn[n]) \subseteq Arrived(dwn'[n])
  BY DEF LogsGrow, Grown, Arrived, TypeOK, Node
<1>2. Local \in Nodes /\ \A x \in Dir, p \in Peer : Source(x, p) \in Nodes
  BY EndsAreNodes DEF Nodes
<1>3. \A x \in Dir, p \in Peer, m \in Msg : Traced(x, p, m) => Traced(x, p, m)'
  BY <1>1, <1>2 DEF Traced, AskedFor
<1> QED
  BY <1>1, <1>2, <1>3 DEF Superseded, Covers

LEMMA AfterArrived ==
    ASSUME NEW n \in Node, NEW m \in Msg
    PROVE  Accepts(n, m) => Arrived(After(n, m)) = Arrived(n) \cup {m}
<1> SUFFICES ASSUME Accepts(n, m)
             PROVE  Arrived(After(n, m)) = Arrived(n) \cup {m}
  OBVIOUS
<1>1. After(n, m).at = [n.at EXCEPT ![m] = n.head + 1] /\ n.head + 1 > 0
  BY DEF After, Node
<1> QED
  BY <1>1 DEF Arrived, Node

LEMMA ProcessingDiscards ==
    ASSUME TypeOK, TypeOK', LogsOrdered, Discarded, NEW x \in Nodes, NEW m \in Msg,
           dwn' = [dwn EXCEPT ![x] = After(dwn[x], m)]
    PROVE  Discarded'
<1>0. LogsGrow
  BY ProcessingGrows
<1> SUFFICES ASSUME NEW n \in Nodes, NEW k \in Msg, k \in Arrived(dwn'[n]),
                    k \notin dwn'[n].stored
             PROVE  Superseded(k)'
  BY DEF Discarded
<1>1. CASE n # x \/ ~Accepts(dwn[x], m)
  <2>1. dwn'[n] = dwn[n]
    BY <1>1 DEF TypeOK, After
  <2> QED
    BY <1>0, <2>1, ArrivedStays DEF Discarded
<1>2. CASE n = x /\ Accepts(dwn[x], m)
  <2>1. /\ dwn[x] \in Node /\ dwn'[n] = After(dwn[x], m)
        /\ dwn'[n].stored = (dwn[x].stored \cup {m}) \ Supersedes[m]
        /\ Arrived(dwn'[n]) = Arrived(dwn[x]) \cup {m}
    BY <1>2, AfterArrived DEF TypeOK, After
  <2>2. CASE k \in Supersedes[m]
    BY <2>1, <2>2 DEF Superseded
  <2>3. CASE k \notin Supersedes[m]
    <3>1. k \in Arrived(dwn[x]) /\ k \notin dwn[x].stored
      BY <2>1, <2>3
    <3> QED
      BY <1>0, <3>1, ArrivedStays DEF Discarded
  <2> QED
    BY <2>2, <2>3
<1> QED
  BY <1>1, <1>2

LEMMA SameNodes ==
    ASSUME TypeOK, LogsOrdered, Discarded, UNCHANGED dwn
    PROVE  LogsGrow /\ LogsOrdered' /\ Discarded'
BY SameLogs DEF Discarded, Superseded

-----------------------------------------------------------------------------
(* The steps keep it *)

\* A step after which the engine works on nothing new.
LEMMA NothingNewTraced ==
    ASSUME TypeOK, TypeOK', TraceInvariant, LogsGrow, LogsOrdered', Discarded',
           UNCHANGED dir, phase' \in {phase, "enqueue", "jobs"},
           \A x \in Dir : queue'[x] \subseteq queue[x],
           \A p \in Peer : /\ fetch'[p].state # "off" => fetch[p].state # "off"
                           /\ fetch'[p].entries \subseteq fetch[p].entries,
           todo' \subseteq todo,
           fetched' \in {fetched, NoOp}, accepted' \in {accepted, NoOp}
    PROVE  TraceInvariant'
<1>1. /\ \A m \in Msg : Covers(dwn[Local], m) => Covers(dwn'[Local], m)
      /\ \A x \in Dir, p \in Peer, m \in Msg : Traced(x, p, m) => Traced(x, p, m)'
  BY ArrivedStays
<1>2. \A x \in Dir : \A op \in queue'[x] : Traced(x, op.peer, op.msg)'
  BY <1>1 DEF TraceInvariant, TypeOK, Op
<1>3. \A p \in Peer : /\ fetch'[p].state # "off" => AskedFor(p)
                      /\ \A m \in fetch'[p].entries : Traced(dir, p, m)'
  BY <1>1 DEF TraceInvariant, TypeOK
<1>4. \A op \in todo' : Traced(dir, op.peer, op.msg)'
  BY <1>1 DEF TraceInvariant, TypeOK, Op
<1>5. (fetched # NoOp => Traced(dir, fetched.peer, fetched.msg))'
  BY <1>1 DEF TraceInvariant, TypeOK, Op
<1>6. accepted' # NoOp => Covers(dwn'[Local], accepted'.msg)
  BY <1>1 DEF TraceInvariant, TypeOK, Op
<1>7. phase' = "idle" =>
          /\ \A p \in Peer : fetch'[p].state = "off" /\ fetch'[p].entries = {}
          /\ todo' = {} /\ fetched' = NoOp /\ accepted' = NoOp
  BY DEF TraceInvariant
<1> QED
  BY <1>2, <1>3, <1>4, <1>5, <1>6, <1>7 DEF TraceInvariant, AskedFor

\* A step after which the run holds nothing.
LEMMA NothingHeldTraced ==
    ASSUME TypeOK, TypeOK', TraceInvariant, UNCHANGED dwn,
           \A x \in Dir : queue'[x] \subseteq queue[x],
           \A p \in Peer : fetch'[p].state = "off" /\ fetch'[p].entries = {},
           todo' = {}, fetched' = NoOp, accepted' = NoOp
    PROVE  TraceInvariant'
<1>1. LogsOrdered' /\ Discarded'
  BY SameNodes DEF TraceInvariant
<1>2. \A x \in Dir : \A op \in queue'[x] : Traced(x, op.peer, op.msg)'
  BY DEF TraceInvariant, Traced, AskedFor
<1> QED
  BY <1>1, <1>2 DEF TraceInvariant

LEMMA OutsideTraced ==
    ASSUME TypeOK, TypeOK', TraceInvariant, Outside
    PROVE  TraceInvariant'
<1>0. LogsOrdered /\ Discarded /\ Local \in Nodes /\ Endpoint \subseteq Nodes
  BY DEF TraceInvariant, Nodes
<1>1. ASSUME NEW m \in Msg, WriteLocal(m) PROVE TraceInvariant'
  <2>1. LogsGrow /\ LogsOrdered' /\ Discarded'
    BY <1>0, <1>1, ProcessingGrows, ProcessingDiscards DEF WriteLocal
  <2> QED
    BY <1>1, <2>1, NothingNewTraced DEF WriteLocal, stored, working
<1>2. ASSUME NEW u \in Endpoint, NEW m \in Msg, WriteRemote(u, m) PROVE TraceInvariant'
  <2>1. LogsGrow /\ LogsOrdered' /\ Discarded'
    BY <1>0, <1>2, ProcessingGrows, ProcessingDiscards DEF WriteRemote
  <2> QED
    BY <1>2, <2>1, NothingNewTraced DEF WriteRemote, stored, working
<1>3. ASSUME UNCHANGED <<dwn, phase, dir, fetch, working>>,
             \A x \in Dir : queue'[x] \subseteq queue[x]
      PROVE  TraceInvariant'
  <2>1. LogsGrow /\ LogsOrdered' /\ Discarded'
    BY <1>0, <1>3, SameNodes
  <2> QED
    BY <1>3, <2>1, NothingNewTraced DEF working
<1>4. ASSUME NEW d \in Did, NEW o \in Options,
             RegisterIdentity(d, o) \/ UpdateIdentityOptions(d, o) \/ UnregisterIdentity(d)
      PROVE  TraceInvariant'
  BY <1>3, <1>4 DEF RegisterIdentity, UpdateIdentityOptions, UnregisterIdentity
<1>5. ASSUME NEW d \in Did, UnregisterIdentity(d) PROVE TraceInvariant'
  BY <1>3, <1>5 DEF UnregisterIdentity
<1>6. CASE Clear
  BY <1>3, <1>6 DEF Clear
<1>7. CASE SyncThrows \/ Crash
  <2>1. UNCHANGED <<dwn, queue>> /\ Drop
    BY <1>7 DEF SyncThrows, Crash, stored
  <2>2. \A p \in Peer : fetch'[p].state = "off" /\ fetch'[p].entries = {}
    BY <2>1 DEF Drop, NotFetching, Fetching
  <2> QED
    BY <2>1, <2>2, NothingHeldTraced DEF Drop
<1> QED
  BY <1>1, <1>2, <1>4, <1>5, <1>6, <1>7 DEF Outside

LEMMA EnqueueTraced ==
    ASSUME TypeOK, TypeOK', TraceInvariant,
           \/ \E d \in Dir, both \in BOOLEAN : Sync(d, both)
           \/ GetSyncPeerState
           \/ \E p \in Peer : NoEventLog(p) \/ GetDwnEventLog(p) \/ Enqueue(p)
           \/ StartJobs
    PROVE  TraceInvariant'
<1>0. UNCHANGED dwn /\ LogsGrow /\ LogsOrdered' /\ Discarded'
  <2>1. UNCHANGED dwn
    BY DEF Sync, GetSyncPeerState, NoEventLog, GetDwnEventLog, Enqueue, StartJobs
  <2> QED
    BY <2>1, SameNodes DEF TraceInvariant
<1>00. \A x \in Dir, p \in Peer, m \in Msg : Traced(x, p, m) => Traced(x, p, m)'
  BY <1>0, ArrivedStays
<1>1. ASSUME NEW d \in Dir, NEW both \in BOOLEAN, Sync(d, both) PROVE TraceInvariant'
  BY <1>0, <1>1, NothingHeldTraced DEF Sync, stored, working, TraceInvariant
<1>2. CASE GetSyncPeerState
  <2>1. /\ UNCHANGED <<dir, queue, todo, fetched, accepted>> /\ phase' = "enqueue"
        /\ \A p \in Peer : fetch'[p].entries = {}
        /\ \A p \in Peer : fetch'[p].state # "off" => p \in ActivePeers
    BY <1>2 DEF GetSyncPeerState, stored, working, Fetching
  <2>2. \A p \in ActivePeers : AskedFor(p)
    BY DEF ActivePeers, AskedFor, TypeOK, Peer
  <2>3. \A p \in Peer : fetch'[p].state # "off" => AskedFor(p)'
    BY <2>1, <2>2 DEF AskedFor
  <2> QED
    BY <1>0, <2>1, <2>3 DEF TraceInvariant, Traced, AskedFor
<1>3. ASSUME NEW p \in Peer, NoEventLog(p) PROVE TraceInvariant'
  <2>1. \A q \in Peer : /\ fetch'[q].state # "off" => fetch[q].state # "off"
                        /\ fetch'[q].entries \subseteq fetch[q].entries
    BY <1>3 DEF NoEventLog, TypeOK, Fetching
  <2> QED
    BY <1>0, <1>3, <2>1, NothingNewTraced DEF NoEventLog, stored, working
<1>4. ASSUME NEW p \in Peer, GetDwnEventLog(p) PROVE TraceInvariant'
  <2> DEFINE new == EntriesAfter(dwn[Source(dir, p)], fetch[p].from, Scope(p))
  <2>1. /\ UNCHANGED <<queue, phase, dir, todo, fetched, accepted>>
        /\ fetch[p].state = "ask"
        /\ \/ fetch' = [fetch EXCEPT ![p] = Fetching("done", 0, {})]
           \/ fetch' = [fetch EXCEPT ![p] = Fetching("put", fetch[p].from, new)]
    BY <1>4 DEF GetDwnEventLog, working
  <2>2. \A m \in new : m \in Msg /\ Traced(dir, p, m)
    <3>1. dwn[Source(dir, p)] \in Node /\ Source(dir, p) \in Nodes
      BY EndsAreNodes DEF TypeOK
    <3> QED
      BY <2>1, <3>1 DEF EntriesAfter, Scope, Traced, TraceInvariant, LogsOrdered, Arrived
  <2> HIDE DEF new
  <2>3. \A q \in Peer : /\ fetch'[q].state # "off" => fetch[q].state # "off"
                        /\ \A m \in fetch'[q].entries :
                              m \in fetch[q].entries \/ (q = p /\ m \in new)
    BY <2>1 DEF TypeOK, Fetching
  <2>4. ASSUME NEW q \in Peer, NEW m \in fetch'[q].entries PROVE Traced(dir, q, m)'
    <3>1. m \in Msg /\ Traced(dir, q, m)
      BY <2>2, <2>3 DEF TraceInvariant, TypeOK
    <3> QED
      BY <1>00, <2>1, <3>1 DEF TypeOK
  <2> QED
    BY <1>0, <2>1, <2>3, <2>4 DEF TraceInvariant, Traced, AskedFor
<1>5. ASSUME NEW p \in Peer, Enqueue(p) PROVE TraceInvariant'
  <2>1. /\ UNCHANGED <<phase, dir, todo, fetched, accepted>> /\ phase = "enqueue"
        /\ fetch' = [fetch EXCEPT ![p] = Fetching("done", 0, {})]
        /\ fetch[p].state = "put"
    BY <1>5 DEF Enqueue, working
  <2>2. \A q \in Peer : /\ fetch'[q].state # "off" => fetch[q].state # "off"
                        /\ fetch'[q].entries \subseteq fetch[q].entries
    BY <2>1 DEF TypeOK, Fetching
  <2>3. ASSUME NEW x \in Dir, NEW op \in queue'[x]
        PROVE  Traced(x, op.peer, op.msg)'
    <3>1. \/ op \in queue[x]
          \/ x = dir /\ \E m \in fetch[p].entries : op = [peer |-> p, msg |-> m]
      BY <1>5 DEF Enqueue, TypeOK
    <3>2. Traced(x, op.peer, op.msg) /\ op \in Op
      BY <3>1 DEF TraceInvariant, TypeOK
    <3> QED
      BY <1>00, <3>2 DEF Op
  <2>4. \A q \in Peer : \A m \in fetch'[q].entries : Traced(dir, q, m)'
    BY <1>00, <2>1, <2>2 DEF TraceInvariant, TypeOK
  <2> QED
    BY <1>0, <2>1, <2>2, <2>3, <2>4 DEF TraceInvariant, Traced, AskedFor
<1>6. CASE StartJobs
  BY <1>0, <1>6 DEF StartJobs, stored, TraceInvariant, Traced, AskedFor, TypeOK
<1> QED
  BY <1>1, <1>2, <1>3, <1>4, <1>5, <1>6

LEMMA JobTraced ==
    ASSUME TypeOK, TypeOK', TraceInvariant, NEW op \in Op, Job(op)
    PROVE  TraceInvariant'
<1>0. /\ LogsOrdered /\ Discarded /\ op.msg \in Msg /\ op.peer \in Peer
      /\ Source(dir, op.peer) \in Nodes /\ Target(dir, op.peer) \in Nodes
      /\ op.peer.url \in Nodes /\ NoOp # op
  BY EndsAreNodes, SyncAssumption DEF TraceInvariant, TypeOK, Op
<1>1. CASE \/ SkipErrored(op) \/ PullKnown(op) \/ PullDenied(op)
           \/ PullUnreachable(op) \/ PullUnreadable(op) \/ PushAbsent(op)
           \/ PushUnreachable(op) \/ Refused(op) \/ AddMessage(op)
  <2>1. /\ UNCHANGED <<dwn, queue, phase, dir, fetch>>
        /\ todo' = todo \ {op}
        /\ fetched' \in {fetched, NoOp} /\ accepted' \in {accepted, NoOp}
    BY <1>1 DEF SkipErrored, PullKnown, PullDenied, PullUnreachable, PullUnreadable,
       PushAbsent, PushUnreachable, Refused, AddMessage, Postpone, Settle, stored
  <2> QED
    BY <1>0, <2>1, SameNodes, NothingNewTraced
<1>2. CASE PullRead(op) \/ PushRead(op)
  <2>1. /\ UNCHANGED <<dwn, queue, phase, dir, fetch, todo, accepted>>
        /\ fetched' = op /\ op \in todo /\ phase = "jobs"
    BY <1>2 DEF PullRead, PushRead, IsNext, stored
  <2>2. LogsOrdered' /\ Discarded'
    BY <1>0, <2>1, SameNodes
  <2> QED
    BY <2>1, <2>2 DEF TraceInvariant, Traced, AskedFor
<1>3. CASE PushReplyLost(op)
  <2>1. LogsGrow /\ LogsOrdered' /\ Discarded'
    BY <1>0, <1>3, ProcessingGrows, ProcessingDiscards DEF PushReplyLost
  <2> QED
    BY <1>3, <2>1, NothingNewTraced DEF PushReplyLost, stored
<1>4. CASE Deliver(op)
  <2> DEFINE t == Target(dir, op.peer)
  <2>1. /\ fetched = op /\ fetched' = NoOp
        /\ dwn' = [dwn EXCEPT ![t] = After(dwn[t], op.msg)]
        /\ UNCHANGED <<queue, phase, dir, fetch>> /\ todo' \subseteq todo
        /\ \/ accepted' = op /\ ReplyIsSuccessful(Reply(dwn[t], op.msg))
           \/ accepted' = accepted
    BY <1>4 DEF Deliver, stored
  <2>2. LogsGrow /\ LogsOrdered' /\ Discarded'
    BY <1>0, <2>1, ProcessingGrows, ProcessingDiscards
  <2>3. CASE accepted' = accepted
    BY <2>1, <2>2, <2>3, NothingNewTraced
  <2>4. CASE accepted' = op /\ ReplyIsSuccessful(Reply(dwn[t], op.msg))
    <3>1. Covers(dwn'[Local], op.msg)
      <4>1. CASE dir = "push"
        <5>1. op.msg \in Arrived(dwn[Local]) /\ Local \in Nodes
          BY <1>0, <2>1, <4>1 DEF TraceInvariant, Traced, Source, Nodes
        <5>2. Covers(dwn[Local], op.msg)
          BY <5>1 DEF Covers
        <5> QED
          BY <1>0, <2>2, <5>2, ArrivedStays
      <4>2. CASE dir = "pull"
        <5>1. t = Local /\ dwn[Local] \in Node /\ InOrder(dwn[Local])
          BY <1>0, <4>2 DEF Target, TypeOK, LogsOrdered, InOrder
        <5>2. dwn'[Local] = After(dwn[Local], op.msg)
          BY <1>0, <2>1, <5>1 DEF TypeOK
        <5> QED
          BY <1>0, <2>4, <5>1, <5>2, SuccessCovers
      <4> QED
        BY <4>1, <4>2 DEF TypeOK, Dir
    <3>2. phase # "idle"
      BY <1>0, <2>1 DEF TraceInvariant
    <3>3. \A x \in Dir, p \in Peer, m \in Msg : Traced(x, p, m) => Traced(x, p, m)'
      BY <2>2, ArrivedStays
    <3>4. /\ \A x \in Dir : \A o \in queue'[x] : Traced(x, o.peer, o.msg)'
          /\ \A o \in todo' : Traced(dir, o.peer, o.msg)'
      BY <2>1, <3>3 DEF TraceInvariant, TypeOK, Op
    <3>5. \A p \in Peer : /\ fetch'[p].state # "off" => AskedFor(p)
                          /\ \A m \in fetch'[p].entries : Traced(dir, p, m)'
      BY <2>1, <3>3 DEF TraceInvariant, TypeOK
    <3> QED
      BY <2>1, <2>2, <2>4, <3>1, <3>2, <3>4, <3>5 DEF TraceInvariant, AskedFor
  <2> QED
    BY <2>1, <2>3, <2>4
<1> QED
  BY <1>1, <1>2, <1>3, <1>4 DEF Job

LEMMA TraceInvariantHolds == Spec => []TraceInvariant
<1>1. Init => TraceInvariant
  <2> SUFFICES ASSUME Init PROVE TraceInvariant
    OBVIOUS
  <2>1. \A n \in Nodes : dwn[n] = EmptyNode /\ Arrived(dwn[n]) = {}
    BY DEF Init, EmptyNode, Arrived
  <2>2. LogsOrdered /\ Discarded
    BY <2>1 DEF LogsOrdered, Discarded, EmptyNode
  <2>3. \A p \in Peer : fetch[p].state = "off" /\ fetch[p].entries = {}
    BY DEF Init, NotFetching, Fetching
  <2> QED
    BY <2>2, <2>3 DEF Init, TraceInvariant
<1>2. TypeOK /\ TypeOK' /\ TraceInvariant /\ [Next]_vars => TraceInvariant'
  <2> SUFFICES ASSUME TypeOK, TypeOK', TraceInvariant, [Next]_vars
               PROVE  TraceInvariant'
    OBVIOUS
  <2>1. CASE UNCHANGED vars
    <3>1. LogsGrow /\ LogsOrdered' /\ Discarded'
      BY <2>1, SameNodes DEF vars, TraceInvariant
    <3> QED
      BY <2>1, <3>1, NothingNewTraced DEF vars
  <2>2. CASE FinishJobs
    <3>1. \A p \in Peer : fetch'[p].state = "off" /\ fetch'[p].entries = {}
      BY <2>2 DEF FinishJobs, NotFetching, Fetching
    <3> QED
      BY <2>2, <3>1, NothingHeldTraced DEF FinishJobs, TypeOK
  <2> QED
    BY <2>1, <2>2, OutsideTraced, EnqueueTraced, JobTraced DEF Next, Run
<1> QED
  BY <1>1, <1>2, TypeCorrect, PTL DEF Spec

-----------------------------------------------------------------------------
(* The refinement of Replication *)

LogOf == [n \in Nodes |-> Arrived(dwn[n])]

\* What a node takes, Replication's node takes; what it does not is a stutter.
LEMMA ProcessingTakes ==
    ASSUME TypeOK, NEW x \in Nodes, NEW m \in Msg,
           dwn' = [dwn EXCEPT ![x] = After(dwn[x], m)]
    PROVE  R!Take(x, m) \/ UNCHANGED LogOf
<1>1. dwn[x] \in Node
  BY DEF TypeOK
<1>2. CASE ~Accepts(dwn[x], m)
  <2>1. dwn' = dwn
    BY <1>2 DEF After, TypeOK
  <2> QED
    BY <2>1 DEF LogOf
<1>3. CASE Accepts(dwn[x], m)
  <2>1. Arrived(dwn'[x]) = Arrived(dwn[x]) \cup {m}
    BY <1>1, <1>3, AfterArrived DEF TypeOK
  <2>2. \A n \in Nodes : n # x => dwn'[n] = dwn[n]
    BY DEF TypeOK
  <2>3. LogOf' = [LogOf EXCEPT ![x] = @ \cup {m}]
    <3>1. LogOf' = [n \in Nodes |-> Arrived(dwn'[n])]
      BY DEF LogOf
    <3>2. \A n \in Nodes : Arrived(dwn'[n]) = IF n = x THEN Arrived(dwn[x]) \cup {m}
                                             ELSE Arrived(dwn[n])
      BY <2>1, <2>2
    <3> QED
      BY <3>1, <3>2 DEF LogOf
  <2>4. ~R!Settled(x, m) /\ Needs[m] \subseteq LogOf[x]
    BY <1>3 DEF R!Settled, Accepts, Covers, LogOf
  <2> QED
    BY <2>3, <2>4 DEF R!Take, LogOf
<1> QED
  BY <1>2, <1>3

\* What is traced to a source may be copied from it.
LEMMA TracedMayBeCopied ==
    ASSUME NEW x \in Dir, NEW p \in Peer, NEW m \in Msg, Traced(x, p, m)
    PROVE  /\ m \in Synced /\ p.url \in EndpointsOf[TenantOf[m]]
           /\ m \in LogOf[Source(x, p)]
<1>1. m \in Scope(p) /\ AskedFor(p) /\ m \in Arrived(dwn[Source(x, p)])
  BY DEF Traced
<1>2. PICK o \in Options : o.protocols = {} \/ p.protocol \in o.protocols
  BY <1>1 DEF AskedFor
<1>3. p.protocol \in o.protocols => p.protocol = ProtocolOf[m]
  BY <1>1, SyncAssumption DEF Scope
<1>4. TenantOf[m] = p.did /\ p.url \in EndpointsOf[p.did]
  BY <1>1 DEF Scope, Peer
<1> QED
  BY <1>1, <1>2, <1>3, <1>4, EndsAreNodes DEF Synced, LogOf

LEMMA StepReplicates ==
    ASSUME TypeOK, TypeOK', TraceInvariant, Next
    PROVE  R!Next \/ UNCHANGED LogOf
<1>0. Local \in Nodes /\ Endpoint \subseteq Nodes
  BY DEF Nodes
<1>1. ASSUME NEW m \in Msg, WriteLocal(m) PROVE R!Next \/ UNCHANGED LogOf
  <2>1. R!Take(Local, m) \/ UNCHANGED LogOf
    BY <1>0, <1>1, ProcessingTakes DEF WriteLocal
  <2>2. Local \in Origins[m]
    BY <1>1 DEF WriteLocal
  <2> QED
    BY <2>1, <2>2 DEF R!Next, R!Write
<1>2. ASSUME NEW u \in Endpoint, NEW m \in Msg, WriteRemote(u, m)
      PROVE  R!Next \/ UNCHANGED LogOf
  <2>1. R!Take(u, m) \/ UNCHANGED LogOf
    BY <1>0, <1>2, ProcessingTakes DEF WriteRemote
  <2>2. u \in Origins[m]
    BY <1>2 DEF WriteRemote
  <2> QED
    BY <2>1, <2>2 DEF R!Next, R!Write
<1>3. ASSUME NEW op \in Op, PushReplyLost(op) \/ Deliver(op)
      PROVE  R!Next \/ UNCHANGED LogOf
  <2> DEFINE m == op.msg
             u == op.peer.url
  <2>1. /\ m \in Msg /\ op.peer \in Peer /\ u \in Nodes
        /\ Target(dir, op.peer) \in Nodes /\ dir \in Dir
    BY EndsAreNodes DEF Op, TypeOK
  <2>2. fetched = op /\ fetched # NoOp
    BY <1>3, SyncAssumption DEF PushReplyLost, Deliver, Op
  <2>3. /\ m \in Synced /\ u \in EndpointsOf[TenantOf[m]]
        /\ m \in LogOf[Source(dir, op.peer)]
    BY <2>1, <2>2, TracedMayBeCopied DEF TraceInvariant
  <2>4. R!Take(Target(dir, op.peer), m) \/ UNCHANGED LogOf
    <3>1. CASE PushReplyLost(op)
      BY <2>1, <3>1, ProcessingTakes DEF PushReplyLost, Target
    <3>2. CASE Deliver(op)
      BY <2>1, <3>2, ProcessingTakes DEF Deliver
    <3> QED
      BY <1>3, <3>1, <3>2
  <2>5. CASE dir = "push"
    <3>1. Source(dir, op.peer) = Local /\ Target(dir, op.peer) = u
      BY <2>5 DEF Source, Target
    <3>2. R!Take(u, m) => R!Push(m, u)
      BY <2>1, <2>3, <3>1 DEF R!Push, R!Copy, LogOf
    <3> QED
      BY <2>1, <2>3, <2>4, <3>1, <3>2 DEF R!Next
  <2>6. CASE dir = "pull"
    <3>1. Source(dir, op.peer) = u /\ Target(dir, op.peer) = Local
      BY <2>6 DEF Source, Target
    <3>2. R!Take(Local, m) => R!Pull(m, u)
      BY <2>1, <2>3, <3>1 DEF R!Pull, R!Copy, LogOf
    <3> QED
      BY <2>1, <2>3, <2>4, <3>1, <3>2 DEF R!Next
  <2> QED
    BY <2>1, <2>5, <2>6 DEF Dir
<1>4. CASE UNCHANGED dwn
  BY <1>4 DEF LogOf
<1>5. ASSUME NEW op \in Op, Job(op)
      PROVE  PushReplyLost(op) \/ Deliver(op) \/ UNCHANGED dwn
  BY <1>5 DEF Job, SkipErrored, PullKnown, PullDenied, PullUnreachable, PullUnreadable,
     PullRead, PushAbsent, PushRead, PushUnreachable, Refused, AddMessage, Postpone, Settle
<1>6. \/ \E m \in Msg : WriteLocal(m) \/ \E u \in Endpoint : WriteRemote(u, m)
      \/ \E op \in Op : Job(op)
      \/ UNCHANGED dwn
  <2>1. CASE Outside
    BY <2>1 DEF Outside, RegisterIdentity, UpdateIdentityOptions, UnregisterIdentity,
       Clear, SyncThrows, Crash
  <2>2. CASE \E d \in Dir, both \in BOOLEAN : Sync(d, both)
    BY <2>2 DEF Sync
  <2>3. CASE Run
    BY <2>3 DEF Run, GetSyncPeerState, NoEventLog, GetDwnEventLog, Enqueue, StartJobs,
       FinishJobs
  <2> QED
    BY <2>1, <2>2, <2>3 DEF Next
<1> QED
  BY <1>1, <1>2, <1>3, <1>4, <1>5, <1>6

\* Sync copies the messages of a tenant that it was asked to sync between the
\* nodes of that tenant, whole and after what they depend on, and otherwise
\* leaves the nodes alone, whatever fails.
THEOREM OnlyReplicatesHolds == Spec => OnlyReplicates
<1>1. Init => R!Init
  <2>1. Init => LogOf = [n \in Nodes |-> {}]
    BY DEF Init, EmptyNode, Arrived, LogOf
  <2> QED
    BY <2>1 DEF R!Init, LogOf
<1>2. TypeOK /\ TypeOK' /\ TraceInvariant /\ [Next]_vars
         => [R!Next]_([n \in Nodes |-> Arrived(dwn[n])])
  <2> SUFFICES ASSUME TypeOK, TypeOK', TraceInvariant, [Next]_vars
               PROVE  R!Next \/ UNCHANGED LogOf
    BY DEF LogOf
  <2>1. CASE UNCHANGED vars
    BY <2>1 DEF vars, LogOf
  <2> QED
    BY <2>1, StepReplicates
<1> QED
  BY <1>1, <1>2, TypeCorrect, TraceInvariantHolds, PTL DEF Spec, OnlyReplicates, R!Spec

-----------------------------------------------------------------------------
(* The Sync Message Store *)

\* A step has one node process one message, or leaves the nodes alone.
LEMMA NextProcesses ==
    ASSUME TypeOK, [Next]_vars
    PROVE  \/ UNCHANGED dwn
           \/ \E x \in Nodes, m \in Msg : dwn' = [dwn EXCEPT ![x] = After(dwn[x], m)]
<1>0. Local \in Nodes /\ Endpoint \subseteq Nodes
  BY DEF Nodes
<1>1. CASE UNCHANGED vars
  BY <1>1 DEF vars
<1>2. CASE Outside
  BY <1>0, <1>2 DEF Outside, WriteLocal, WriteRemote, RegisterIdentity,
     UpdateIdentityOptions, UnregisterIdentity, Clear, SyncThrows, Crash
<1>3. CASE \E d \in Dir, both \in BOOLEAN : Sync(d, both)
  BY <1>3 DEF Sync
<1>4. ASSUME NEW op \in Op, PushReplyLost(op) \/ Deliver(op)
      PROVE  \E x \in Nodes, m \in Msg : dwn' = [dwn EXCEPT ![x] = After(dwn[x], m)]
  <2>1. /\ op.msg \in Msg /\ op.peer.url \in Nodes /\ Target(dir, op.peer) \in Nodes
    BY EndsAreNodes DEF Op, TypeOK, Dir
  <2> QED
    BY <1>4, <2>1 DEF PushReplyLost, Deliver
<1>5. ASSUME NEW op \in Op, Job(op)
      PROVE  PushReplyLost(op) \/ Deliver(op) \/ UNCHANGED dwn
  BY <1>5 DEF Job, SkipErrored, PullKnown, PullDenied, PullUnreachable, PullUnreadable,
     PullRead, PushAbsent, PushRead, PushUnreachable, Refused, AddMessage, Postpone, Settle
<1>6. CASE Run
  BY <1>4, <1>5, <1>6 DEF Run, GetSyncPeerState, NoEventLog, GetDwnEventLog, Enqueue,
     StartJobs, FinishJobs
<1> QED
  BY <1>1, <1>2, <1>3, <1>6 DEF Next

LEMMA NextGrows ==
    ASSUME TypeOK, LogsOrdered, [Next]_vars
    PROVE  LogsGrow
<1>1. CASE UNCHANGED dwn
  BY <1>1, SameLogs
<1>2. CASE \E x \in Nodes, m \in Msg : dwn' = [dwn EXCEPT ![x] = After(dwn[x], m)]
  BY <1>2, ProcessingGrows
<1> QED
  BY <1>1, <1>2, NextProcesses

\* While no node refuses a delegate whose grant is there, the store names only
\* messages the local node has, or that some node has discarded.
THEOREM HistoryJustifiedHolds ==
    "denied" \notin Happens => (Spec => []HistoryJustified)
<1> SUFFICES ASSUME "denied" \notin Happens PROVE Spec => []HistoryJustified
  OBVIOUS
<1>1. Init => HistoryJustified
  BY DEF Init, HistoryJustified
<1>2. TypeOK /\ TypeOK' /\ TraceInvariant /\ TraceInvariant'
         /\ HistoryJustified /\ [Next]_vars => HistoryJustified'
  <2> SUFFICES ASSUME TypeOK, TypeOK', TraceInvariant, TraceInvariant',
                      HistoryJustified, [Next]_vars
               PROVE  HistoryJustified'
    OBVIOUS
  <2>1. LogsGrow
    BY NextGrows DEF TraceInvariant
  <2>2. \A m \in history : Covers(dwn'[Local], m) \/ Superseded(m)'
    BY <2>1, ArrivedStays DEF HistoryJustified, TypeOK
  <2>3. CASE history' \subseteq history
    BY <2>2, <2>3 DEF HistoryJustified
  <2>4. ASSUME NEW op \in Op, PullUnreadable(op) \/ PushAbsent(op) \/ AddMessage(op)
        PROVE  HistoryJustified'
    <3>1. /\ history' = history \cup {op.msg} /\ UNCHANGED dwn
          /\ op.msg \in Msg /\ op.peer \in Peer /\ NoOp # op
      BY <2>4, SyncAssumption
         DEF PullUnreadable, PushAbsent, AddMessage, Settle, Op
    <3>2. Covers(dwn[Local], op.msg) \/ Superseded(op.msg)
      <4>1. CASE PullUnreadable(op)
        <5>1. /\ op.msg \notin dwn[op.peer.url].stored
              /\ op.msg \in Arrived(dwn[op.peer.url])
          BY <2>4, <4>1 DEF PullUnreadable, Denied, IsNext, TraceInvariant, Traced, Source
        <5> QED
          BY <3>1, <5>1, EndsAreNodes DEF TraceInvariant, Discarded, Dir
      <4>2. CASE PushAbsent(op)
        <5>1. op.msg \in Arrived(dwn[Local])
          BY <4>2 DEF PushAbsent, IsNext, TraceInvariant, Traced, Source
        <5> QED
          BY <5>1 DEF Covers
      <4>3. CASE AddMessage(op)
        BY <3>1, <4>3 DEF AddMessage, TraceInvariant
      <4> QED
        BY <2>4, <4>1, <4>2, <4>3
    <3> QED
      BY <2>2, <3>1, <3>2 DEF HistoryJustified, Superseded
  <2>5. \/ history' \subseteq history
        \/ \E op \in Op : PullUnreadable(op) \/ PushAbsent(op) \/ AddMessage(op)
    <3>1. CASE UNCHANGED vars
      BY <3>1 DEF vars
    <3>2. CASE Outside
      BY <3>2 DEF Outside, WriteLocal, WriteRemote, RegisterIdentity,
         UpdateIdentityOptions, UnregisterIdentity, Clear, SyncThrows, Crash, stored
    <3>3. CASE \E d \in Dir, both \in BOOLEAN : Sync(d, both)
      BY <3>3 DEF Sync, stored
    <3>4. CASE Run
      <4>1. ASSUME NEW op \in Op, Job(op)
            PROVE  \/ PullUnreadable(op) \/ PushAbsent(op) \/ AddMessage(op)
                   \/ UNCHANGED history
        BY <4>1 DEF Job, SkipErrored, PullKnown, PullDenied, PullUnreachable, PullRead,
           PushRead, PushUnreachable, Refused, PushReplyLost, Deliver, Postpone, stored
      <4> QED
        BY <3>4, <4>1 DEF Run, GetSyncPeerState, NoEventLog, GetDwnEventLog, Enqueue,
           StartJobs, FinishJobs, stored
    <3> QED
      BY <3>1, <3>2, <3>3, <3>4 DEF Next
  <2> QED
    BY <2>3, <2>4, <2>5
<1> QED
  BY <1>1, <1>2, TypeCorrect, TraceInvariantHolds, PTL DEF Spec

-----------------------------------------------------------------------------
(* Nothing the pull cursor has passed is forgotten *)

\* A pull of m is over: the local node has it, or some node has discarded it.
PullOver(m) == Covers(dwn[Local], m) \/ Superseded(m)

PullInvariant ==
    /\ \A k \in Key : cursor["pull"][k] <= dwn[k.url].head
    /\ dir = "pull" => \A op \in done : PullOver(op.msg)
    /\ PullAccounted

\* A step that leaves the pull cursors alone, and takes from the queue and the
\* tasks only what is over.
LEMMA PullsKept ==
    ASSUME TypeOK, TypeOK', LogsOrdered, PullInvariant, LogsGrow,
           cursor'["pull"] = cursor["pull"],
           \A k \in Key, m \in Msg :
              Waiting("pull", k, m) => (Waiting("pull", k, m) \/ PullOver(m))',
           (dir = "pull" => \A op \in done : PullOver(op.msg))'
    PROVE  PullInvariant'
<1>0. /\ \A m \in Msg : PullOver(m) => PullOver(m)'
      /\ \A k \in Key : k.url \in Nodes
  BY ArrivedStays DEF PullOver, Key, Nodes
<1>1. ASSUME NEW k \in Key PROVE cursor'["pull"][k] <= dwn'[k.url].head
  BY <1>0 DEF PullInvariant, LogsGrow, Grown, TypeOK, Dir, Node
<1>2. PullAccounted'
  <2> SUFFICES ASSUME NEW k \in Key, NEW m \in dwn'[k.url].stored \cap Scope(k),
                      dwn'[k.url].at[m] <= cursor["pull"][k]
               PROVE  (PullOver(m) \/ Waiting("pull", k, m))'
    BY DEF PullAccounted, PullOver
  <2>1. /\ m \in Msg /\ dwn[k.url] \in Node /\ dwn'[k.url] \in Node
        /\ Grown(dwn[k.url], dwn'[k.url])
        /\ cursor["pull"][k] \in Nat /\ cursor["pull"][k] <= dwn[k.url].head
    BY <1>0 DEF Scope, TypeOK, LogsGrow, PullInvariant, Dir
  <2>2. m \in dwn[k.url].stored /\ dwn[k.url].at[m] > 0
    BY <1>0, <2>1 DEF Grown, LogsOrdered, Node
  <2>3. dwn[k.url].at[m] <= cursor["pull"][k]
    BY <2>1, <2>2 DEF Grown
  <2>4. PullOver(m) \/ Waiting("pull", k, m)
    BY <2>2, <2>3 DEF PullInvariant, PullAccounted, PullOver
  <2> QED
    BY <1>0, <2>1, <2>4
<1> QED
  BY <1>1, <1>2 DEF PullInvariant

\* The same when no task was about to queue anything and the queue stays.
LEMMA PullsKeptIdle ==
    ASSUME TypeOK, TypeOK', PushInvariant, PullInvariant, UNCHANGED <<dwn, cursor, queue>>,
           \A p \in Peer : fetch[p].state # "put", done' = {}
    PROVE  PullInvariant'
<1>1. LogsGrow
  BY SameLogs DEF PushInvariant
<1>2. \A k \in Key, m \in Msg : Waiting("pull", k, m) => Waiting("pull", k, m)'
  BY DEF Waiting
<1> QED
  BY <1>1, <1>2, PullsKept DEF PushInvariant

LEMMA OutsidePulls ==
    ASSUME TypeOK, TypeOK', PushInvariant, PullInvariant, LogsGrow,
           Happens \cap Forgetting = {}, Outside
    PROVE  PullInvariant'
<1>1. ASSUME UNCHANGED <<cursor, queue, dir, fetch, done>>
      PROVE  PullInvariant'
  <2>1. \A k \in Key, m \in Msg : Waiting("pull", k, m) => Waiting("pull", k, m)'
    BY <1>1 DEF Waiting
  <2>2. (dir = "pull" => \A op \in done : PullOver(op.msg))'
    BY <1>1, ArrivedStays DEF PullInvariant, PullOver, TypeOK, Op
  <2> QED
    BY <1>1, <2>1, <2>2, PullsKept DEF PushInvariant
<1>2. CASE Clear
  <2>1. /\ phase = "idle" /\ UNCHANGED <<dwn, dir, done>>
        /\ cursor' = [x \in Dir |-> [k \in Key |-> 0]]
    BY <1>2 DEF Clear, Forgetting, working
  <2>2. \A k \in Key : cursor'["pull"][k] = 0 /\ dwn[k.url] \in Node
    BY <2>1 DEF Dir, TypeOK, Key, Nodes
  <2>3. done = {}
    BY <2>1 DEF PushInvariant, RunHolds
  <2>4. PullAccounted'
    BY <2>1, <2>2 DEF PullAccounted, PushInvariant, LogsOrdered, Node, Key, Nodes, Scope
  <2> QED
    BY <2>1, <2>2, <2>3, <2>4 DEF PullInvariant, Node
<1>3. CASE SyncThrows
  <2>1. \A p \in Peer : fetch[p].state # "put"
    BY <1>3 DEF SyncThrows, PushInvariant, RunHolds
  <2> QED
    BY <1>3, <2>1, PullsKeptIdle DEF SyncThrows, Drop, stored
<1>4. ~Crash
  BY DEF Crash, Forgetting
<1> QED
  BY <1>1, <1>2, <1>3, <1>4 DEF Outside, WriteLocal, WriteRemote, RegisterIdentity,
     UpdateIdentityOptions, UnregisterIdentity, stored, working

\* The step that moves a cursor past entries that are not queued yet.
LEMMA EventLogPulls ==
    ASSUME TypeOK, TypeOK', PushInvariant, PullInvariant, NEW p \in Peer, GetDwnEventLog(p)
    PROVE  PullInvariant'
<1> DEFINE n == dwn[Source(dir, p)]
           new == EntriesAfter(n, fetch[p].from, Scope(p))
<1>0. /\ n \in Node /\ KeyOf(p) \in Key /\ fetch[p].from \in Nat /\ new \subseteq Msg
      /\ dir \in Dir /\ \A k \in Key : dwn[k.url] \in Node
  BY EndsAreNodes, KeyOfType DEF TypeOK, Nodes, EntriesAfter, Scope, Key
<1>1. /\ phase = "enqueue" /\ fetch[p].state = "ask"
      /\ UNCHANGED <<dwn, queue, dir, done>>
      /\ LogsOrdered /\ LogsGrow
      /\ \A m \in Msg : PullOver(m) => PullOver(m)'
  BY SameLogs DEF GetDwnEventLog, working, PushInvariant, PullOver, Superseded
<1>2. (dir = "pull" => \A op \in done : PullOver(op.msg))'
  BY <1>1 DEF PullInvariant, TypeOK, Op
<1>3. ASSUME NEW s \in {"put", "done"}, NEW c \in Nat, NEW ms \in SUBSET Msg,
             fetch' = [fetch EXCEPT ![p] = Fetching(s, c, ms)]
      PROVE  /\ \A q \in Peer : q # p => fetch'[q] = fetch[q]
             /\ fetch'[p].state = s /\ fetch'[p].entries = ms
             /\ \A k \in Key, m \in Msg : Waiting("pull", k, m) => Waiting("pull", k, m)'
  <2>1. /\ \A q \in Peer : q # p => fetch'[q] = fetch[q]
        /\ fetch'[p].state = s /\ fetch'[p].entries = ms
    BY <1>3 DEF TypeOK, Fetching
  <2> QED
    BY <1>1, <2>1 DEF Waiting
<1>4. CASE UNCHANGED cursor /\ fetch' = [fetch EXCEPT ![p] = Fetching("done", 0, {})]
  <2>1. \A k \in Key, m \in Msg : Waiting("pull", k, m) => Waiting("pull", k, m)'
    <3>1. /\ "done" \in {"put", "done"} /\ 0 \in Nat /\ {} \in SUBSET Msg
          /\ fetch' = [fetch EXCEPT ![p] = Fetching("done", 0, {})]
      BY <1>4
    <3> QED
      BY <1>3, <3>1, Zenon
  <2> QED
    BY <1>1, <1>2, <1>4, <2>1, PullsKept
<1>5. ASSUME NEW c \in {n.at[m] : m \in new}, IsCursorOf(n, new, c),
             cursor' = [cursor EXCEPT ![dir][KeyOf(p)] = c],
             fetch' = [fetch EXCEPT ![p] = Fetching("put", fetch[p].from, new)]
      PROVE  PullInvariant'
  <2>1. /\ \A q \in Peer : q # p => fetch'[q] = fetch[q]
        /\ fetch'[p].state = "put" /\ fetch'[p].entries = new
        /\ \A k \in Key, m \in Msg : Waiting("pull", k, m) => Waiting("pull", k, m)'
    <3>1. new \in SUBSET Msg /\ fetch[p].from \in Nat
      BY <1>0
    <3> HIDE DEF new
    <3> QED
      BY <1>3, <1>5, <3>1
  <2>2. /\ cursor'[dir][KeyOf(p)] = c
        /\ \A k \in Key : k # KeyOf(p) => cursor'[dir][k] = cursor[dir][k]
        /\ dir = "push" => cursor'["pull"] = cursor["pull"]
    BY <1>0, <1>5 DEF TypeOK, Dir
  <2>3. c \in Nat /\ c <= n.head
    BY <1>0, <1>1, <1>5, EndsAreNodes DEF LogsOrdered, IsCursorOf, EntriesAfter, Node, TypeOK
  <2>4. CASE dir = "push"
    BY <1>1, <1>2, <2>1, <2>2, <2>4, PullsKept
  <2>5. CASE dir = "pull"
    <3>0. Source(dir, p) = p.url /\ KeyOf(p).url = p.url
      BY <2>5 DEF Source, KeyOf
    <3>1. \A k \in Key : cursor'["pull"][k] <= dwn[k.url].head
      BY <2>2, <2>3, <2>5, <3>0 DEF PullInvariant
    <3>2. ASSUME NEW k \in Key, NEW m \in dwn[k.url].stored \cap Scope(k),
                 dwn[k.url].at[m] <= cursor'["pull"][k]
          PROVE  (PullOver(m) \/ Waiting("pull", k, m))'
      <4>0. m \in Msg /\ dwn[k.url].at[m] \in Nat
        BY <1>0 DEF Scope, Node
      <4>1. ASSUME dwn[k.url].at[m] <= cursor["pull"][k]
            PROVE  (PullOver(m) \/ Waiting("pull", k, m))'
        <5>1. PullOver(m) \/ Waiting("pull", k, m)
          BY <4>1 DEF PullInvariant, PullAccounted, PullOver
        <5> QED
          BY <1>1, <2>1, <4>0, <5>1
      <4>2. CASE k # KeyOf(p)
        BY <2>2, <2>5, <3>2, <4>1, <4>2
      <4>3. CASE k = KeyOf(p) /\ dwn[k.url].at[m] > fetch[p].from
        <5>1. m \in new
          <6>1. Scope(k) = Scope(p)
            BY <4>3 DEF Scope, KeyOf
          <6> QED
            BY <3>0, <4>3, <6>1 DEF EntriesAfter
        <5> QED
          BY <1>1, <2>1, <2>5, <4>3, <5>1 DEF Waiting
      <4>4. CASE k = KeyOf(p) /\ dwn[k.url].at[m] <= fetch[p].from
        <5>1. /\ cursor[dir][KeyOf(p)] \in Nat
              /\ fetch[p].from <= cursor[dir][KeyOf(p)]
          BY <1>0, <1>1 DEF PushInvariant, TasksApart, TypeOK
        <5> QED
          BY <1>0, <2>5, <4>0, <4>1, <4>4, <5>1
      <4> QED
        BY <1>0, <4>0, <4>2, <4>3, <4>4
    <3> QED
      BY <1>1, <1>2, <3>1, <3>2 DEF PullInvariant, PullAccounted, PullOver
  <2> QED
    BY <1>0, <2>4, <2>5 DEF Dir
<1> QED
  BY <1>4, <1>5 DEF GetDwnEventLog

LEMMA EnqueuePulls ==
    ASSUME TypeOK, TypeOK', PushInvariant, PullInvariant, Happens \cap Forgetting = {},
           \/ \E d \in Dir, both \in BOOLEAN : Sync(d, both)
           \/ GetSyncPeerState
           \/ \E p \in Peer : NoEventLog(p) \/ GetDwnEventLog(p) \/ Enqueue(p)
           \/ StartJobs
    PROVE  PullInvariant'
<1>1. CASE GetSyncPeerState \/ \E d \in Dir, both \in BOOLEAN : Sync(d, both)
  <2>1. UNCHANGED <<dwn, cursor, queue, done>> /\ phase \in {"idle", "peers"}
    BY <1>1 DEF GetSyncPeerState, Sync, stored, working
  <2>2. done = {} /\ \A p \in Peer : fetch[p].state # "put"
    BY <2>1 DEF PushInvariant, RunHolds
  <2> QED
    BY <2>1, <2>2, PullsKeptIdle
<1>2. ASSUME UNCHANGED <<dwn, cursor, dir, done>>,
             \A k \in Key, m \in Msg : Waiting("pull", k, m) => Waiting("pull", k, m)'
      PROVE  PullInvariant'
  <2>1. LogsGrow /\ LogsOrdered
    BY <1>2, SameLogs DEF PushInvariant
  <2>2. (dir = "pull" => \A op \in done : PullOver(op.msg))'
    BY <1>2, <2>1, ArrivedStays DEF PullInvariant, PullOver, TypeOK, Op
  <2> QED
    BY <1>2, <2>1, <2>2, PullsKept
<1>3. ASSUME NEW p \in Peer, NoEventLog(p) PROVE PullInvariant'
  <2>1. UNCHANGED <<dwn, cursor, queue, dir, done>> /\ fetch[p].state = "ask"
    BY <1>3 DEF NoEventLog, stored, working
  <2>2. \A q \in Peer : q # p => fetch'[q] = fetch[q]
    BY <1>3 DEF NoEventLog, TypeOK
  <2> QED
    BY <1>2, <2>1, <2>2 DEF Waiting
<1>4. ASSUME NEW p \in Peer, Enqueue(p) PROVE PullInvariant'
  <2> DEFINE jobs == {[peer |-> p, msg |-> m] : m \in fetch[p].entries}
  <2>1. /\ UNCHANGED <<dwn, cursor, dir, done>>
        /\ queue' = [queue EXCEPT ![dir] = @ \cup jobs]
    BY <1>4 DEF Enqueue, Forgetting, working
  <2>2. \A q \in Peer : q # p => fetch'[q] = fetch[q]
    BY <1>4 DEF Enqueue, TypeOK
  <2>3. /\ queue'[dir] = queue[dir] \cup jobs
        /\ \A x \in Dir : x # dir => queue'[x] = queue[x]
    BY <2>1 DEF TypeOK
  <2>4. \A k \in Key, m \in Msg : Waiting("pull", k, m) => Waiting("pull", k, m)'
    BY <2>1, <2>2, <2>3 DEF Waiting, Dir
  <2> QED
    BY <1>2, <2>1, <2>4
<1>5. CASE StartJobs
  BY <1>2, <1>5 DEF StartJobs, stored, Waiting
<1> QED
  BY <1>1, <1>3, <1>4, <1>5, EventLogPulls

\* A pull leaves the queue because the message is known, is gone from its
\* endpoint, or has been accepted here.
LEMMA JobPulls ==
    ASSUME TypeOK, TypeOK', PushInvariant, TraceInvariant, HistoryJustified, PullInvariant,
           LogsGrow, Happens \cap Forgetting = {}, NEW op \in Op, Job(op)
    PROVE  PullInvariant'
<1>0. /\ op.msg \in Msg /\ op.peer.url \in Nodes /\ NoOp # op
      /\ \A m \in Msg : PullOver(m) => PullOver(m)'
  BY EndsAreNodes, ArrivedStays, SyncAssumption DEF Op, Dir, PullOver
<1>1. UNCHANGED <<cursor, queue, dir, fetch>>
  BY DEF Job, SkipErrored, PullKnown, PullDenied, PullUnreachable, PullUnreadable,
     PullRead, PushAbsent, PushRead, PushUnreachable, Refused, PushReplyLost, Deliver,
     AddMessage, Postpone, Settle, stored
<1>2. done' = done \/ (done' = done \cup {op} /\ (dir = "pull" => PullOver(op.msg)))
  <2>1. CASE PullKnown(op)
    BY <2>1 DEF PullKnown, Settle, HistoryJustified, PullOver
  <2>2. CASE PullUnreadable(op)
    <3>1. op.msg \notin dwn[op.peer.url].stored /\ op.msg \in Arrived(dwn[op.peer.url])
      BY <2>2 DEF PullUnreadable, Denied, Forgetting, IsNext, TraceInvariant, Traced, Source
    <3>2. Superseded(op.msg)
      BY <1>0, <3>1 DEF TraceInvariant, Discarded
    <3> QED
      BY <2>2, <3>2 DEF PullUnreadable, Settle, PullOver
  <2>3. CASE PushAbsent(op)
    BY <2>3 DEF PushAbsent, Settle
  <2>4. CASE AddMessage(op)
    BY <1>0, <2>4 DEF AddMessage, TraceInvariant, PullOver
  <2>5. CASE UNCHANGED done
    BY <2>5
  <2> QED
    BY <2>1, <2>2, <2>3, <2>4, <2>5 DEF Job, SkipErrored, PullDenied, PullUnreachable,
       PullRead, PushRead, PushUnreachable, Refused, PushReplyLost, Deliver, Postpone
<1>3. (dir = "pull" => \A o \in done : PullOver(o.msg))'
  <2> SUFFICES ASSUME dir = "pull", NEW o \in done' PROVE PullOver(o.msg)'
    BY <1>1
  <2>1. PullOver(o.msg) /\ o.msg \in Msg
    BY <1>0, <1>2 DEF PullInvariant, TypeOK, Op
  <2> QED
    BY <1>0, <2>1
<1>4. \A k \in Key, m \in Msg : Waiting("pull", k, m) => Waiting("pull", k, m)'
  BY <1>1 DEF Waiting
<1> QED
  BY <1>1, <1>3, <1>4, PullsKept DEF PushInvariant

LEMMA FinishPulls ==
    ASSUME TypeOK, TypeOK', PushInvariant, PullInvariant, FinishJobs
    PROVE  PullInvariant'
<1>1. /\ UNCHANGED <<dwn, cursor>> /\ phase = "jobs" /\ done' = {}
      /\ queue' = [queue EXCEPT ![dir] = @ \ done]
  BY DEF FinishJobs
<1>2. LogsGrow /\ LogsOrdered /\ \A m \in Msg : PullOver(m) => PullOver(m)'
  BY <1>1, SameLogs, ArrivedStays DEF PushInvariant, PullOver
<1>3. \A p \in Peer : fetch[p].state # "put"
  BY <1>1 DEF PushInvariant, RunHolds
<1>4. ASSUME NEW k \in Key, NEW m \in Msg, Waiting("pull", k, m)
      PROVE  (Waiting("pull", k, m) \/ PullOver(m))'
  <2>1. PICK p \in Peer : KeyOf(p) = k /\ [peer |-> p, msg |-> m] \in queue["pull"]
    BY <1>3, <1>4 DEF Waiting
  <2>2. CASE dir = "pull" /\ [peer |-> p, msg |-> m] \in done
    BY <1>2, <2>2 DEF PullInvariant
  <2>3. CASE ~(dir = "pull" /\ [peer |-> p, msg |-> m] \in done)
    <3>1. [peer |-> p, msg |-> m] \in queue'["pull"]
      BY <1>1, <2>1, <2>3 DEF TypeOK, Dir
    <3> QED
      BY <2>1, <3>1 DEF Waiting
  <2> QED
    BY <2>2, <2>3
<1> QED
  BY <1>1, <1>2, <1>4, PullsKept

\* What an endpoint holds and a pull cursor has passed is on the local node,
\* waits to be pulled, or has been discarded by some node for a later message,
\* unless one of the forgetting events happens.
THEOREM PullAccountedHolds ==
    Happens \cap Forgetting = {} => (Spec => []PullAccounted)
<1> SUFFICES ASSUME Happens \cap Forgetting = {} PROVE Spec => []PullAccounted
  OBVIOUS
<1>0. "denied" \notin Happens
  BY DEF Forgetting
<1>1. Init => PullInvariant
  <2> SUFFICES ASSUME Init PROVE PullInvariant
    OBVIOUS
  <2>1. \A k \in Key : dwn[k.url] = EmptyNode /\ cursor["pull"][k] = 0
    BY DEF Init, Key, Nodes, Dir
  <2>2. EmptyNode.stored = {} /\ EmptyNode.head = 0
    BY DEF EmptyNode
  <2>3. PullAccounted
    BY <2>1, <2>2 DEF PullAccounted
  <2> QED
    BY <2>1, <2>2, <2>3 DEF Init, PullInvariant
<1>2. TypeOK /\ TypeOK' /\ PushInvariant /\ TraceInvariant /\ HistoryJustified
         /\ PullInvariant /\ [Next]_vars => PullInvariant'
  <2> SUFFICES ASSUME TypeOK, TypeOK', PushInvariant, TraceInvariant, HistoryJustified,
                      PullInvariant, [Next]_vars
               PROVE  PullInvariant'
    OBVIOUS
  <2>1. LogsGrow
    BY NextGrows DEF PushInvariant
  <2>2. CASE UNCHANGED vars
    BY <2>2 DEF vars, PullInvariant, PullOver, PullAccounted, Waiting, Superseded
  <2> QED
    BY <2>1, <2>2, OutsidePulls, EnqueuePulls, JobPulls, FinishPulls DEF Next, Run
<1>3. PullInvariant => PullAccounted
  BY DEF PullInvariant
<1>4. Spec => []HistoryJustified
  BY <1>0, HistoryJustifiedHolds
<1> QED
  BY <1>1, <1>2, <1>3, <1>4, TypeCorrect, PushInvariantHolds, TraceInvariantHolds,
     PTL DEF Spec

-----------------------------------------------------------------------------
(* No message is read back from where it went *)

\* The events that make the engine forget what it has sent or received.
Echoing == {"lostReply", "throws", "crash", "clear", "clearBusy"}

\* m is in the Sync Message Store, or the next step of its job puts it there.
Recorded(m) == m \in history \/ (accepted # NoOp /\ accepted.msg = m)

\* What a node has that nobody but sync writes to it is recorded.
EchoInvariant ==
    /\ \A m \in Msg, n \in Nodes :
          m \in Arrived(dwn[n]) => Recorded(m) \/ n \in Origins[m]
    /\ fetched # NoOp =>
          accepted = NoOp /\ (dir = "pull" => fetched.msg \notin history)

\* A step by which nothing arrives anywhere.
LEMMA NothingArrives ==
    ASSUME EchoInvariant, UNCHANGED dwn, history \subseteq history',
           \A m \in Msg : Recorded(m) => Recorded(m)',
           (fetched # NoOp =>
               accepted = NoOp /\ (dir = "pull" => fetched.msg \notin history))'
    PROVE  EchoInvariant'
BY SyncAssumption DEF EchoInvariant

\* What arrives at a node is one message at most.
LEMMA ProcessingArrives ==
    ASSUME TypeOK, NEW x \in Nodes, NEW m \in Msg,
           dwn' = [dwn EXCEPT ![x] = After(dwn[x], m)]
    PROVE  /\ \A n \in Nodes : n # x => Arrived(dwn'[n]) = Arrived(dwn[n])
           /\ Arrived(dwn[x]) \subseteq Arrived(dwn'[x])
           /\ \A k \in Arrived(dwn'[x]) : k \in Arrived(dwn[x]) \/ k = m
           /\ ~Accepts(dwn[x], m) => UNCHANGED dwn
<1>1. dwn[x] \in Node
  BY DEF TypeOK
<1>2. /\ dwn'[x] = After(dwn[x], m)
      /\ \A n \in Nodes : n # x => dwn'[n] = dwn[n]
  BY DEF TypeOK
<1>3. CASE Accepts(dwn[x], m)
  BY <1>1, <1>2, <1>3, AfterArrived
<1>4. CASE ~Accepts(dwn[x], m)
  BY <1>2, <1>4 DEF After, TypeOK
<1> QED
  BY <1>2, <1>3, <1>4

\* Another writer's step.
LEMMA WriterEcho ==
    ASSUME TypeOK, TypeOK', EchoInvariant, TraceInvariant,
           \/ \E m \in Msg : WriteLocal(m)
           \/ \E u \in Endpoint, m \in Msg : WriteRemote(u, m)
    PROVE  EchoInvariant'
<1>0. /\ Local \in Nodes /\ Endpoint \subseteq Nodes /\ Local \notin Endpoint
      /\ UNCHANGED <<history, dir, fetched, accepted>>
  BY SyncAssumption DEF Nodes, WriteLocal, WriteRemote, stored, working
<1>1. ASSUME NEW m \in Msg, WriteLocal(m) PROVE EchoInvariant'
  <2>1. /\ Local \in Origins[m]
        /\ dwn' = [dwn EXCEPT ![Local] = After(dwn[Local], m)]
    BY <1>1 DEF WriteLocal
  <2>2. /\ \A n \in Nodes : n # Local => Arrived(dwn'[n]) = Arrived(dwn[n])
        /\ Arrived(dwn[Local]) \subseteq Arrived(dwn'[Local])
        /\ \A k \in Arrived(dwn'[Local]) : k \in Arrived(dwn[Local]) \/ k = m
    BY <1>0, <2>1, ProcessingArrives
  <2> QED
    BY <1>0, <2>1, <2>2 DEF EchoInvariant, Recorded
<1>2. ASSUME NEW u \in Endpoint, NEW m \in Msg, WriteRemote(u, m) PROVE EchoInvariant'
  <2>1. /\ u \in Origins[m]
        /\ dwn' = [dwn EXCEPT ![u] = After(dwn[u], m)]
    BY <1>2 DEF WriteRemote
  <2>2. /\ \A n \in Nodes : n # u => Arrived(dwn'[n]) = Arrived(dwn[n])
        /\ \A k \in Arrived(dwn'[u]) : k \in Arrived(dwn[u]) \/ k = m
    BY <1>0, <2>1, ProcessingArrives
  <2> QED
    BY <1>0, <2>1, <2>2 DEF EchoInvariant, Recorded
<1> QED
  BY <1>1, <1>2

\* The target of a job takes its message.
LEMMA DeliverEcho ==
    ASSUME TypeOK, TypeOK', EchoInvariant, TraceInvariant, NEW op \in Op, Deliver(op)
    PROVE  EchoInvariant'
<1> DEFINE m == op.msg
           t == Target(dir, op.peer)
<1>0. /\ m \in Msg /\ op.peer \in Peer /\ dir \in Dir /\ t \in Nodes /\ NoOp # op
      /\ op.peer.url \in Endpoint /\ Local \notin Endpoint /\ Local \in Nodes
      /\ Endpoint \subseteq Nodes /\ Nodes \subseteq Endpoint \cup {Local}
  BY EndsAreNodes, SyncAssumption DEF Op, TypeOK, Peer, Nodes
<1>1. /\ fetched = op /\ fetched' = NoOp /\ accepted = NoOp
      /\ dwn' = [dwn EXCEPT ![t] = After(dwn[t], m)]
      /\ UNCHANGED <<history, dir>>
      /\ Accepts(dwn[t], m) => accepted' = op
      /\ accepted' \in {op, NoOp}
  BY <1>0 DEF Deliver, EchoInvariant, stored, Reply, ReplyIsSuccessful
<1>2. /\ \A n \in Nodes : n # t => Arrived(dwn'[n]) = Arrived(dwn[n])
      /\ Arrived(dwn[t]) \subseteq Arrived(dwn'[t])
      /\ \A k \in Arrived(dwn'[t]) : k \in Arrived(dwn[t]) \/ k = m
      /\ ~Accepts(dwn[t], m) => UNCHANGED dwn
  BY <1>0, <1>1, ProcessingArrives
<1>3. \A k \in Msg : Recorded(k) => Recorded(k)'
  BY <1>1 DEF Recorded
<1>4. CASE UNCHANGED dwn
  BY <1>1, <1>3, <1>4, NothingArrives
<1>5. CASE accepted' = op
  <2>1. Recorded(m)'
    BY <1>0, <1>5 DEF Recorded
  <2> QED
    BY <1>0, <1>1, <1>2, <1>3, <2>1 DEF EchoInvariant
<1> QED
  BY <1>1, <1>2, <1>4, <1>5

LEMMA JobEcho ==
    ASSUME TypeOK, TypeOK', EchoInvariant, TraceInvariant, Happens \cap Echoing = {},
           NEW op \in Op, Job(op)
    PROVE  EchoInvariant'
<1>0. NoOp # op /\ ~PushReplyLost(op) /\ op.msg \in Msg
  BY SyncAssumption DEF Op, PushReplyLost, Echoing
<1>1. CASE PullRead(op) \/ PushRead(op)
  <2>1. /\ UNCHANGED <<dwn, history, dir, accepted>> /\ accepted = NoOp
        /\ fetched' = op /\ (dir = "pull" => op.msg \notin history)
    BY <1>1 DEF PullRead, PushRead, IsNext, stored
  <2> QED
    BY <2>1, NothingArrives DEF Recorded
<1>2. CASE AddMessage(op)
  <2>1. /\ UNCHANGED <<dwn, dir, fetched>> /\ accepted = op /\ accepted' = NoOp
        /\ history' = history \cup {op.msg}
    BY <1>2 DEF AddMessage
  <2>2. fetched = NoOp
    BY <1>0, <2>1 DEF EchoInvariant
  <2> QED
    BY <2>1, <2>2, NothingArrives DEF Recorded
<1>3. CASE PullUnreadable(op) \/ PushAbsent(op)
  <2>1. /\ UNCHANGED <<dwn, fetched, accepted>> /\ fetched = NoOp
        /\ history' = history \cup {op.msg}
    BY <1>3 DEF PullUnreadable, PushAbsent, IsNext, Settle
  <2> QED
    BY <2>1, NothingArrives DEF Recorded
<1>4. CASE \/ SkipErrored(op) \/ PullKnown(op) \/ PullDenied(op)
           \/ PullUnreachable(op) \/ PushUnreachable(op) \/ Refused(op)
  <2>1. /\ UNCHANGED <<dwn, history, dir, accepted>> /\ fetched' \in {fetched, NoOp}
    BY <1>4 DEF SkipErrored, PullKnown, PullDenied, PullUnreachable, PushUnreachable,
       Refused, Postpone, Settle, stored
  <2> QED
    BY <2>1, NothingArrives DEF Recorded, EchoInvariant
<1> QED
  BY <1>0, <1>1, <1>2, <1>3, <1>4, DeliverEcho DEF Job

\* What an endpoint has from the local node, or the local node from it, is not
\* read back from it, unless it is written to both without sync, an answer is
\* lost, a run is cut short or the stores are cleared.
THEOREM NoEchoHolds == Happens \cap Echoing = {} => (Spec => []NoEcho)
<1> SUFFICES ASSUME Happens \cap Echoing = {} PROVE Spec => []NoEcho
  OBVIOUS
<1>1. Init => EchoInvariant
  <2> SUFFICES ASSUME Init PROVE EchoInvariant
    OBVIOUS
  <2>1. \A n \in Nodes : Arrived(dwn[n]) = {}
    BY DEF Init, EmptyNode, Arrived
  <2> QED
    BY <2>1 DEF Init, EchoInvariant, Nodes
<1>2. TypeOK /\ TypeOK' /\ TraceInvariant /\ EchoInvariant /\ [Next]_vars
         => EchoInvariant'
  <2> SUFFICES ASSUME TypeOK, TypeOK', TraceInvariant, EchoInvariant, [Next]_vars
               PROVE  EchoInvariant'
    OBVIOUS
  <2>1. ASSUME UNCHANGED <<dwn, history, accepted, fetched>>, dir' = dir \/ fetched = NoOp
        PROVE  EchoInvariant'
    BY <2>1, NothingArrives DEF Recorded, EchoInvariant
  <2>2. CASE UNCHANGED vars
    BY <2>1, <2>2 DEF vars
  <2>3. CASE Outside
    <3>1. ~Clear /\ ~SyncThrows /\ ~Crash
      BY DEF Clear, SyncThrows, Crash, Echoing
    <3> QED
      BY <2>1, <2>3, <3>1, WriterEcho DEF Outside, RegisterIdentity,
         UpdateIdentityOptions, UnregisterIdentity, stored, working
  <2>4. CASE \E d \in Dir, both \in BOOLEAN : Sync(d, both)
    BY <2>1, <2>4 DEF Sync, stored, working, TraceInvariant
  <2>5. CASE Run
    <3>1. CASE \E op \in Op : Job(op)
      BY <3>1, JobEcho
    <3>2. CASE FinishJobs
      BY <2>1, <3>2 DEF FinishJobs
    <3> QED
      BY <2>1, <2>5, <3>1, <3>2 DEF Run, GetSyncPeerState, NoEventLog, GetDwnEventLog,
         Enqueue, StartJobs, stored, working
  <2> QED
    BY <2>2, <2>3, <2>4, <2>5 DEF Next
<1>3. TypeOK /\ TraceInvariant /\ EchoInvariant => NoEcho
  <2> SUFFICES ASSUME TypeOK, TraceInvariant, EchoInvariant, fetched # NoOp, dir = "pull"
               PROVE  \/ fetched.msg \notin Arrived(dwn[Local])
                      \/ {Local, fetched.peer.url} \subseteq Origins[fetched.msg]
    BY DEF NoEcho
  <2>1. /\ fetched.msg \in Msg /\ fetched.peer.url \in Nodes /\ Local \in Nodes
        /\ fetched.msg \in Arrived(dwn[fetched.peer.url])
    BY DEF TypeOK, Op, Peer, Nodes, TraceInvariant, Traced, Source
  <2>2. ~Recorded(fetched.msg)
    BY DEF EchoInvariant, Recorded
  <2> QED
    BY <2>1, <2>2 DEF EchoInvariant
<1> QED
  BY <1>1, <1>2, <1>3, TypeCorrect, TraceInvariantHolds, PTL DEF Spec

-----------------------------------------------------------------------------
(* What is pushed finds what it needs *)

\* The callers sync every identity with one delegate, or all with none.  With
\* two, a message and what it needs may wait for peers of one key whose places
\* in the queue say nothing of the log.
OneDelegate == \A o, r \in Options : o.delegate = r.delegate

\* What a message needs is of its tenant and protocol, is no delete, and is
\* never discarded, as the initial write of a record is; and Needs names all
\* of it, what is needed by what is needed included.
NeedsKept == \A m \in Msg : \A k \in Needs[m] :
    /\ Needs[k] \subseteq Needs[m]
    /\ TenantOf[k] = TenantOf[m] /\ ProtocolOf[k] = ProtocolOf[m]
    /\ k \notin Deletes
    /\ \A x \in Msg : k \notin Supersedes[x]

Chosen(p) == \E o \in Options : o.delegate = p.delegate

\* A node holds what its messages need, at earlier places of its log.
HoldsNeeds(n) == \A m \in Arrived(n) : \A k \in Needs[m] :
    k \in n.stored /\ n.at[k] < n.at[m]

\* What is queued for a push the cursor of its key has passed.
QueuePassed == \A op \in queue["push"] :
    Chosen(op.peer) /\ dwn[Local].at[op.msg] <= cursor["push"][KeyOf(op.peer)]

\* So it has what is about to be queued; a task that has yet to ask works from
\* the cursor itself.
TasksPassed == \A p \in Peer : fetch[p].state # "off" =>
    /\ Chosen(p)
    /\ dir = "push" =>
          /\ fetch[p].state = "ask" => cursor["push"][KeyOf(p)] <= fetch[p].from
          /\ fetch[p].state = "put" => \A m \in fetch[p].entries :
                dwn[Local].at[m] <= cursor["push"][KeyOf(p)]

\* A run leaves a push undone only for an endpoint it has given up, because
\* it is a delete of what is not there, or after a refusal.
LeftBehind == dir = "push" /\ phase = "jobs" => \A op \in queue["push"] :
    \/ op \in todo \cup done \/ op.peer.url \in errored
    \/ op.msg \in Deletes \/ Refusable(op.peer.url, op.msg)

OrderInvariant ==
    /\ \A n \in Nodes : HoldsNeeds(dwn[n])
    /\ QueuePassed /\ TasksPassed /\ LeftBehind
    /\ dir = "push" /\ fetched # NoOp => accepted = NoOp
    /\ PushedInOrder

\* A node accepts a message only after what it needs, which it then keeps.
LEMMA NeedsHeld ==
    ASSUME NeedsKept, TypeOK, TraceInvariant, \A n \in Nodes : HoldsNeeds(dwn[n]),
           [Next]_vars
    PROVE  \A n \in Nodes : HoldsNeeds(dwn'[n])
<1>1. CASE UNCHANGED dwn
  BY <1>1
<1>2. ASSUME NEW x \in Nodes, NEW m \in Msg,
             dwn' = [dwn EXCEPT ![x] = After(dwn[x], m)], Accepts(dwn[x], m)
      PROVE  HoldsNeeds(dwn'[x])
  <2> DEFINE a == dwn[x]
             b == dwn'[x]
  <2>1. /\ a \in Node /\ b = After(a, m)
        /\ b.at = [a.at EXCEPT ![m] = a.head + 1]
        /\ b.stored = (a.stored \cup {m}) \ Supersedes[m]
        /\ Arrived(b) = Arrived(a) \cup {m}
    BY <1>2, AfterArrived DEF TypeOK, After
  <2>2. m \notin Arrived(a) /\ Needs[m] \subseteq Arrived(a)
    BY <1>2 DEF Accepts, Covers
  <2>3. \A q \in Msg : a.at[q] \in Nat /\ a.at[q] <= a.head /\ a.head \in Nat
    BY <2>1 DEF TraceInvariant, LogsOrdered, Node
  <2> HIDE DEF a, b
  <2> SUFFICES ASSUME NEW q \in Arrived(b), NEW k \in Needs[q]
               PROVE  k \in b.stored /\ b.at[k] < b.at[q]
    BY DEF HoldsNeeds, b
  <2>4. q \in Msg /\ k \in Msg /\ k \notin Supersedes[m]
    BY MsgAssumption DEF Arrived, NeedsKept
  <2>5. CASE q = m
    <3>1. k \in Arrived(a) /\ k # m
      BY <2>2, <2>5
    <3>2. k \in a.stored
      BY <2>4, <3>1 DEF TraceInvariant, Discarded, Superseded, NeedsKept, Arrived, a
    <3>3. b.at[k] = a.at[k] /\ b.at[q] = a.head + 1
      BY <2>1, <2>4, <2>5, <3>1 DEF Node
    <3> QED
      BY <2>1, <2>3, <2>4, <3>2, <3>3
  <2>6. CASE q # m
    <3>1. q \in Arrived(a)
      BY <2>1, <2>6
    <3>2. k \in a.stored /\ a.at[k] < a.at[q]
      BY <1>2, <3>1 DEF HoldsNeeds, a
    <3>3. a.at[k] > 0
      BY <2>4, <3>2 DEF TraceInvariant, LogsOrdered, a
    <3>4. k # m
      BY <2>2, <2>4, <3>3 DEF Arrived
    <3>5. b.at[k] = a.at[k] /\ b.at[q] = a.at[q]
      BY <2>1, <2>4, <2>6, <3>4 DEF Node
    <3> QED
      BY <2>1, <2>4, <3>2, <3>5
  <2> QED
    BY <2>5, <2>6
<1>3. ASSUME NEW x \in Nodes, NEW m \in Msg,
             dwn' = [dwn EXCEPT ![x] = After(dwn[x], m)]
      PROVE  \A n \in Nodes : HoldsNeeds(dwn'[n])
  <2>1. \A n \in Nodes : n # x => dwn'[n] = dwn[n]
    BY <1>3 DEF TypeOK
  <2>2. ~Accepts(dwn[x], m) => dwn'[x] = dwn[x]
    BY <1>3 DEF TypeOK, After
  <2> QED
    BY <1>2, <1>3, <2>1, <2>2
<1> QED
  BY <1>1, <1>3, NextProcesses

\* A step that queues nothing and reads nothing.
LEMMA OrderKept ==
    ASSUME TypeOK, TypeOK', PushInvariant, OrderInvariant, LogsGrow,
           \A n \in Nodes : HoldsNeeds(dwn'[n]),
           cursor'["push"] = cursor["push"], queue'["push"] \subseteq queue["push"],
           UNCHANGED dir,
           \A p \in Peer : fetch'[p] = fetch[p] \/ fetch'[p].state = "off"
                           \/ (fetch'[p].state = "done" /\ fetch[p].state # "off"),
           LeftBehind', fetched' \in {fetched, NoOp},
           fetched' # NoOp => accepted' = accepted
    PROVE  OrderInvariant'
<1>0. /\ \A n \in Nodes : dwn[n] \in Node /\ dwn'[n] \in Node /\ Grown(dwn[n], dwn'[n])
      /\ Local \in Nodes
  BY DEF TypeOK, LogsGrow, Nodes
<1>1. \A m \in Msg : dwn[Local].at[m] > 0 => dwn'[Local].at[m] = dwn[Local].at[m]
  BY <1>0 DEF Grown
<1>2. QueuePassed'
  <2>1. \A op \in queue["push"] : op.msg \in Msg /\ dwn[Local].at[op.msg] > 0
    BY DEF PushInvariant, PushesRead, TypeOK, Op, Dir
  <2> QED
    BY <1>1, <2>1 DEF OrderInvariant, QueuePassed, Chosen
<1>3. TasksPassed'
  <2> SUFFICES ASSUME NEW p \in Peer, fetch'[p].state # "off" PROVE
          /\ Chosen(p)
          /\ dir = "push" =>
              /\ fetch'[p].state = "ask" => cursor["push"][KeyOf(p)] <= fetch'[p].from
              /\ fetch'[p].state = "put" => \A m \in fetch'[p].entries :
                    dwn'[Local].at[m] <= cursor["push"][KeyOf(p)]
    BY DEF TasksPassed, Chosen
  <2>1. CASE fetch'[p].state = "done" /\ fetch[p].state # "off"
    BY <2>1 DEF OrderInvariant, TasksPassed
  <2>2. CASE fetch'[p] = fetch[p]
    <3>1. dir = "push" /\ fetch[p].state = "put" =>
             \A m \in fetch[p].entries : m \in Msg /\ dwn[Local].at[m] > 0
      BY DEF PushInvariant, PushesRead, TypeOK
    <3> QED
      BY <1>1, <2>2, <3>1 DEF OrderInvariant, TasksPassed
  <2> QED
    BY <2>1, <2>2
<1>4. PushedInOrder'
  <2> SUFFICES ASSUME fetched' # NoOp, dir = "push"
               PROVE  \A k \in Needs[fetched.msg] :
                         \/ k \in Arrived(dwn'[fetched.peer.url])
                         \/ Refusable(fetched.peer.url, k)
    BY DEF PushedInOrder, Refusable
  <2>1. fetched \in Op /\ fetched.peer.url \in Nodes
    BY EndsAreNodes DEF TypeOK, Op, Dir
  <2>2. Arrived(dwn[fetched.peer.url]) \subseteq Arrived(dwn'[fetched.peer.url])
    BY <2>1, ArrivedStays
  <2> QED
    BY <2>2 DEF OrderInvariant, PushedInOrder
<1> QED
  BY <1>2, <1>3, <1>4 DEF OrderInvariant

\* A step between two phases that hold nothing, or one that ends the run.
LEMMA OrderKeptIdle ==
    ASSUME OrderInvariant, UNCHANGED <<dwn, cursor>>,
           queue'["push"] \subseteq queue["push"],
           \A p \in Peer : fetch'[p].state = "off",
           phase' # "jobs", fetched' = NoOp
    PROVE  OrderInvariant'
<1>1. QueuePassed' /\ TasksPassed' /\ LeftBehind' /\ PushedInOrder'
  BY DEF OrderInvariant, QueuePassed, TasksPassed, LeftBehind, PushedInOrder, Chosen
<1> QED
  BY <1>1 DEF OrderInvariant

LEMMA OutsideOrder ==
    ASSUME TypeOK, TypeOK', PushInvariant, OrderInvariant, LogsGrow,
           \A n \in Nodes : HoldsNeeds(dwn'[n]),
           Happens \cap Forgetting = {}, Outside
    PROVE  OrderInvariant'
<1>1. ASSUME UNCHANGED <<cursor, queue, dir, phase, fetch, todo, done, errored,
                         fetched, accepted>>
      PROVE  OrderInvariant'
  <2>1. LeftBehind'
    BY <1>1 DEF OrderInvariant, LeftBehind
  <2> QED
    BY <1>1, <2>1, OrderKept
<1>2. CASE Clear
  <2>1. /\ phase = "idle" /\ UNCHANGED <<dwn, phase, fetch, fetched>>
        /\ queue' = [x \in Dir |-> {}]
    BY <1>2 DEF Clear, Forgetting, working
  <2>2. fetched = NoOp /\ \A p \in Peer : fetch[p].state = "off"
    BY <2>1 DEF PushInvariant, RunHolds
  <2>3. queue'["push"] = {}
    BY <2>1 DEF Dir
  <2> QED
    BY <2>1, <2>2, <2>3
       DEF OrderInvariant, QueuePassed, TasksPassed, LeftBehind, PushedInOrder
<1>3. CASE SyncThrows
  BY <1>3, OrderKeptIdle DEF SyncThrows, Drop, NotFetching, Fetching, stored
<1>4. ~Crash
  BY DEF Crash, Forgetting
<1> QED
  BY <1>1, <1>2, <1>3, <1>4 DEF Outside, WriteLocal, WriteRemote, RegisterIdentity,
     UpdateIdentityOptions, UnregisterIdentity, stored, working

\* The cursor moves past what the task is about to queue, and past nothing
\* that another task has yet to ask for.
LEMMA EventLogOrder ==
    ASSUME TypeOK, TypeOK', PushInvariant, OrderInvariant, NEW p \in Peer,
           GetDwnEventLog(p)
    PROVE  OrderInvariant'
<1> DEFINE n == dwn[Source(dir, p)]
           new == EntriesAfter(n, fetch[p].from, Scope(p))
<1>1. /\ phase = "enqueue" /\ fetch[p].state = "ask" /\ fetched = NoOp
      /\ UNCHANGED <<dwn, queue, dir, phase, todo, done, errored, fetched, accepted>>
      /\ LogsGrow /\ LeftBehind' /\ \A x \in Nodes : HoldsNeeds(dwn'[x])
  BY SameLogs DEF GetDwnEventLog, working, PushInvariant, RunHolds, OrderInvariant,
     LeftBehind
<1>2. CASE UNCHANGED cursor /\ fetch' = [fetch EXCEPT ![p] = Fetching("done", 0, {})]
  <2>1. \A q \in Peer : fetch'[q] = fetch[q] \/ fetch'[q].state = "off"
                        \/ (fetch'[q].state = "done" /\ fetch[q].state # "off")
    BY <1>1, <1>2 DEF TypeOK, Fetching
  <2> QED
    BY <1>1, <1>2, <2>1, OrderKept
<1>3. ASSUME NEW c \in {n.at[m] : m \in new}, IsCursorOf(n, new, c),
             cursor' = [cursor EXCEPT ![dir][KeyOf(p)] = c],
             fetch' = [fetch EXCEPT ![p] = Fetching("put", fetch[p].from, new)]
      PROVE  OrderInvariant'
  <2>1. /\ \A q \in Peer : q # p => fetch'[q] = fetch[q]
        /\ fetch'[p].state = "put" /\ fetch'[p].entries = new
    BY <1>3 DEF TypeOK, Fetching
  <2>2. /\ dir = "push" => cursor'["push"][KeyOf(p)] = c
        /\ \A k \in Key : k # KeyOf(p) \/ dir = "pull"
                             => cursor'["push"][k] = cursor["push"][k]
    BY <1>3, KeyOfType DEF TypeOK, Dir
  <2>3. dir = "push" => /\ cursor["push"][KeyOf(p)] <= c
                        /\ \A m \in new : dwn[Local].at[m] <= c
    <3> SUFFICES ASSUME dir = "push"
                 PROVE  cursor["push"][KeyOf(p)] <= c
                        /\ \A m \in new : dwn[Local].at[m] <= c
      OBVIOUS
    <3>1. n = dwn[Local] /\ n \in Node
      BY EndsAreNodes DEF Source, TypeOK, Nodes
    <3>2. /\ cursor["push"][KeyOf(p)] \in Nat /\ fetch[p].from \in Nat
          /\ cursor["push"][KeyOf(p)] <= fetch[p].from
      BY <1>1, KeyOfType DEF OrderInvariant, TasksPassed, TypeOK, Dir
    <3>3. PICK m \in new : c = n.at[m]
      BY <1>3
    <3>4. n.at[m] \in Nat /\ fetch[p].from < n.at[m]
      BY <3>1, <3>3 DEF EntriesAfter, Scope, Node
    <3> QED
      BY <1>3, <3>1, <3>2, <3>3, <3>4 DEF IsCursorOf
  <2>4. c \in Nat /\ \A k \in Key : cursor["push"][k] \in Nat
    BY <1>3, EndsAreNodes DEF EntriesAfter, Scope, Node, TypeOK, Dir
  <2>5. \A k \in Key : cursor["push"][k] <= cursor'["push"][k]
    BY <2>2, <2>3, <2>4 DEF TypeOK, Dir
  <2>6. QueuePassed'
    <3> SUFFICES ASSUME NEW op \in queue["push"]
                 PROVE  /\ Chosen(op.peer)
                        /\ dwn[Local].at[op.msg] <= cursor'["push"][KeyOf(op.peer)]
      BY <1>1 DEF QueuePassed, Chosen
    <3>1. /\ op.msg \in Msg /\ KeyOf(op.peer) \in Key
          /\ dwn[Local].at[op.msg] \in Nat
      BY KeyOfType DEF TypeOK, Op, Dir, Nodes, Node
    <3>2. Chosen(op.peer) /\ dwn[Local].at[op.msg] <= cursor["push"][KeyOf(op.peer)]
      BY DEF OrderInvariant, QueuePassed
    <3>3. cursor'["push"][KeyOf(op.peer)] \in Nat
      BY <3>1 DEF TypeOK, Dir
    <3> QED
      BY <2>4, <2>5, <3>1, <3>2, <3>3
  <2>7. TasksPassed'
    <3> SUFFICES ASSUME NEW q \in Peer, fetch'[q].state # "off" PROVE
            /\ Chosen(q)
            /\ dir = "push" =>
                /\ fetch'[q].state = "ask"
                      => cursor'["push"][KeyOf(q)] <= fetch'[q].from
                /\ fetch'[q].state = "put" => \A m \in fetch'[q].entries :
                      dwn[Local].at[m] <= cursor'["push"][KeyOf(q)]
      BY <1>1 DEF TasksPassed, Chosen
    <3>1. CASE q = p
      BY <1>1, <2>1, <2>2, <2>3, <3>1 DEF OrderInvariant, TasksPassed
    <3>2. CASE q # p
      <4>1. fetch'[q] = fetch[q] /\ KeyOf(q) # KeyOf(p)
        BY <1>1, <2>1, <3>2 DEF PushInvariant, TasksApart
      <4>2. cursor'["push"][KeyOf(q)] = cursor["push"][KeyOf(q)]
        BY <2>2, <4>1, KeyOfType
      <4> QED
        BY <4>1, <4>2 DEF OrderInvariant, TasksPassed
    <3> QED
      BY <3>1, <3>2
  <2> QED
    BY <1>1, <2>6, <2>7 DEF OrderInvariant, PushedInOrder
<1> QED
  BY <1>2, <1>3 DEF GetDwnEventLog

LEMMA EnqueueOrder ==
    ASSUME TypeOK, TypeOK', PushInvariant, OrderInvariant, Happens \cap Forgetting = {},
           \/ \E d \in Dir, both \in BOOLEAN : Sync(d, both)
           \/ GetSyncPeerState
           \/ \E p \in Peer : NoEventLog(p) \/ GetDwnEventLog(p) \/ Enqueue(p)
           \/ StartJobs
    PROVE  OrderInvariant'
<1>1. ASSUME NEW d \in Dir, NEW both \in BOOLEAN, Sync(d, both) PROVE OrderInvariant'
  <2>1. /\ UNCHANGED <<dwn, cursor, queue, fetch, fetched>> /\ phase = "idle"
        /\ phase' = "peers"
    BY <1>1 DEF Sync, stored, working
  <2>2. fetched = NoOp /\ \A p \in Peer : fetch[p].state = "off"
    BY <2>1 DEF PushInvariant, RunHolds
  <2> QED
    BY <2>1, <2>2, OrderKeptIdle
<1>2. CASE GetSyncPeerState
  <2>1. /\ UNCHANGED <<dwn, cursor, queue, dir, fetched>> /\ phase = "peers"
        /\ phase' = "enqueue"
        /\ fetch' = [p \in Peer |-> IF p \in ActivePeers
                                    THEN Fetching("ask", cursor[dir][KeyOf(p)], {})
                                    ELSE Fetching("off", 0, {})]
    BY <1>2 DEF GetSyncPeerState, stored, working
  <2>2. fetched = NoOp
    BY <2>1 DEF PushInvariant, RunHolds
  <2>3. \A p \in ActivePeers : Chosen(p)
    BY DEF ActivePeers, Peer, TypeOK, Chosen
  <2>4. \A p \in Peer : cursor["push"][KeyOf(p)] \in Nat
    BY KeyOfType DEF TypeOK, Dir
  <2>5. TasksPassed'
    BY <2>1, <2>3, <2>4 DEF TasksPassed, Fetching, Chosen
  <2>6. QueuePassed' /\ LeftBehind' /\ PushedInOrder'
    BY <2>1, <2>2 DEF OrderInvariant, QueuePassed, LeftBehind, PushedInOrder, Chosen
  <2> QED
    BY <2>1, <2>2, <2>5, <2>6 DEF OrderInvariant
<1>3. ASSUME NEW p \in Peer, NoEventLog(p) PROVE OrderInvariant'
  <2>1. /\ UNCHANGED <<dwn, cursor, queue, dir, phase, fetched>> /\ phase = "enqueue"
        /\ fetch' = [fetch EXCEPT ![p] = Fetching("done", 0, {})]
        /\ fetch[p].state = "ask"
    BY <1>3 DEF NoEventLog, stored, working
  <2>2. \A q \in Peer : fetch'[q] = fetch[q] \/ fetch'[q].state = "off"
                        \/ (fetch'[q].state = "done" /\ fetch[q].state # "off")
    BY <2>1 DEF TypeOK, Fetching
  <2>3. LogsGrow /\ fetched = NoOp /\ \A x \in Nodes : HoldsNeeds(dwn[x])
    BY <2>1, SameLogs DEF PushInvariant, RunHolds, OrderInvariant
  <2>4. LeftBehind'
    BY <2>1 DEF LeftBehind
  <2> QED
    BY <2>1, <2>2, <2>3, <2>4, OrderKept
<1>4. ASSUME NEW p \in Peer, Enqueue(p) PROVE OrderInvariant'
  <2> DEFINE jobs == {[peer |-> p, msg |-> m] : m \in fetch[p].entries}
  <2>1. /\ UNCHANGED <<dwn, cursor, dir, phase, fetched>> /\ phase = "enqueue"
        /\ queue' = [queue EXCEPT ![dir] = @ \cup jobs]
        /\ fetch' = [fetch EXCEPT ![p] = Fetching("done", 0, {})]
        /\ fetch[p].state = "put"
    BY <1>4 DEF Enqueue, Forgetting, working
  <2>2. /\ \A q \in Peer : q # p => fetch'[q] = fetch[q]
        /\ fetch'[p].state = "done"
    BY <2>1 DEF TypeOK, Fetching
  <2>3. \A op \in queue'["push"] : op \in queue["push"] \/ (dir = "push" /\ op \in jobs)
    BY <2>1 DEF TypeOK, Dir
  <2>4. QueuePassed'
    <3> SUFFICES ASSUME NEW op \in queue'["push"]
                 PROVE  /\ Chosen(op.peer)
                        /\ dwn[Local].at[op.msg] <= cursor["push"][KeyOf(op.peer)]
      BY <2>1 DEF QueuePassed, Chosen
    <3>1. CASE op \in queue["push"]
      BY <3>1 DEF OrderInvariant, QueuePassed
    <3>2. CASE dir = "push" /\ op \in jobs
      <4>1. op.peer = p /\ op.msg \in fetch[p].entries
        BY <3>2
      <4> QED
        BY <2>1, <3>2, <4>1 DEF OrderInvariant, TasksPassed
    <3> QED
      BY <2>3, <3>1, <3>2
  <2>5. TasksPassed'
    BY <2>1, <2>2 DEF OrderInvariant, TasksPassed, Chosen
  <2>6. fetched = NoOp /\ LeftBehind' /\ PushedInOrder'
    BY <2>1 DEF PushInvariant, RunHolds, LeftBehind, PushedInOrder
  <2> QED
    BY <2>1, <2>4, <2>5, <2>6 DEF OrderInvariant
<1>5. CASE StartJobs
  <2>1. /\ UNCHANGED <<dwn, cursor, queue, dir, fetch, fetched>> /\ phase = "enqueue"
        /\ todo' = queue[dir]
    BY <1>5 DEF StartJobs, stored
  <2>2. LeftBehind'
    BY <2>1 DEF LeftBehind
  <2>3. LogsGrow /\ fetched = NoOp /\ \A x \in Nodes : HoldsNeeds(dwn[x])
    BY <2>1, SameLogs DEF PushInvariant, RunHolds, OrderInvariant
  <2> QED
    BY <2>1, <2>2, <2>3, OrderKept
<1> QED
  BY <1>1, <1>2, <1>3, <1>4, <1>5, EventLogOrder

\* When a push is read, what it needs was queued before it for the same peer
\* and has been dealt with, in this run or in an earlier one.
LEMMA PushReadInOrder ==
    ASSUME OneDelegate, NeedsKept, TypeOK, PushInvariant, TraceInvariant,
           OrderInvariant, NEW op \in Op, PushRead(op)
    PROVE  \A k \in Needs[op.msg] :
              k \in Arrived(dwn[op.peer.url]) \/ Refusable(op.peer.url, k)
<1> DEFINE p == op.peer
<1>1. /\ dir = "push" /\ phase = "jobs" /\ op \in todo /\ p.url \notin errored
      /\ \A o \in todo : ~Before("push", o, op)
  BY DEF PushRead, IsNext
<1>2. /\ op.msg \in Msg /\ p \in Peer /\ KeyOf(p) \in Key /\ op \in queue["push"]
      /\ KeyOf(p).url = p.url /\ Local \in Nodes
  BY <1>1, KeyOfType DEF Op, PushInvariant, RunHolds, KeyOf, Nodes
<1>3. op.msg \in Arrived(dwn[Local]) /\ op.msg \in Scope(p)
  BY <1>1 DEF TraceInvariant, Traced, Source
<1> SUFFICES ASSUME NEW k \in Needs[op.msg], ~Refusable(p.url, k)
             PROVE  k \in Arrived(dwn[p.url])
  OBVIOUS
<1>4. /\ k \in Msg /\ k \notin Deletes /\ \A x \in Msg : k \notin Supersedes[x]
      /\ k \in Scope(KeyOf(p))
  BY <1>2, <1>3, MsgAssumption DEF NeedsKept, Scope, KeyOf
<1>5. k \in dwn[Local].stored /\ dwn[Local].at[k] < dwn[Local].at[op.msg]
  BY <1>2, <1>3 DEF OrderInvariant, HoldsNeeds
<1>6. dwn[Local].at[k] <= cursor["push"][KeyOf(p)]
  <2>1. /\ dwn[Local].at[k] \in Nat /\ dwn[Local].at[op.msg] \in Nat
        /\ cursor["push"][KeyOf(p)] \in Nat
    BY <1>2, <1>4 DEF TypeOK, Node, Dir
  <2>2. dwn[Local].at[op.msg] <= cursor["push"][KeyOf(p)]
    BY <1>2 DEF OrderInvariant, QueuePassed
  <2> QED
    BY <1>5, <2>1, <2>2
<1>7. Covers(dwn[p.url], k) \/ Waiting("push", KeyOf(p), k)
  BY <1>2, <1>4, <1>5, <1>6 DEF PushInvariant, PushAccounted
<1>8. Covers(dwn[p.url], k) => k \in Arrived(dwn[p.url])
  BY <1>4 DEF Covers, Arrived
<1>9. CASE Waiting("push", KeyOf(p), k)
  <2>1. PICK q \in Peer : KeyOf(q) = KeyOf(p) /\ [peer |-> q, msg |-> k] \in queue["push"]
    BY <1>1, <1>9 DEF Waiting, PushInvariant, RunHolds
  <2>2. q = p
    <3>1. Chosen(q) /\ Chosen(p)
      BY <1>2, <2>1 DEF OrderInvariant, QueuePassed
    <3>2. q.delegate = p.delegate
      BY <3>1 DEF Chosen, OneDelegate
    <3> QED
      BY <1>2, <2>1, <3>2 DEF KeyOf, Peer
  <2> DEFINE o == [peer |-> p, msg |-> k]
  <2>3. o \in todo \cup done
    BY <1>1, <1>4, <2>1, <2>2 DEF OrderInvariant, LeftBehind
  <2>4. Before("push", o, op)
    BY <1>5 DEF Before, Place, Source
  <2>5. o \in done
    BY <1>1, <2>3, <2>4
  <2> QED
    BY <1>1, <1>5, <1>8, <2>5 DEF PushInvariant, PushesDone
<1> QED
  BY <1>7, <1>8, <1>9

\* A push that fails is a delete of what is not there, or the endpoint lacks
\* what the message needs.
LEMMA FailedDeliver ==
    ASSUME NEW n \in Node, NEW m \in Msg, ~ReplyIsSuccessful(Reply(n, m))
    PROVE  m \in Deletes \/ ~(Needs[m] \subseteq Arrived(n))
BY DEF Reply, ReplyIsSuccessful, Accepts

LEMMA JobOrder ==
    ASSUME OneDelegate, NeedsKept, TypeOK, TypeOK', PushInvariant, TraceInvariant,
           OrderInvariant, LogsGrow, \A n \in Nodes : HoldsNeeds(dwn'[n]),
           NEW op \in Op, Job(op)
    PROVE  OrderInvariant'
<1>0. /\ op.msg \in Msg /\ op.peer \in Peer /\ op.peer.url \in Nodes /\ NoOp # op
      /\ UNCHANGED <<cursor, queue, dir, phase, fetch>>
  BY EndsAreNodes, SyncAssumption DEF Op, Dir, Job, SkipErrored, PullKnown, PullDenied,
     PullUnreachable, PullUnreadable, PullRead, PushAbsent, PushRead, PushUnreachable, Refused,
     PushReplyLost, Deliver, AddMessage, Postpone, Settle, stored
<1>1. LeftBehind'
  <2> SUFFICES ASSUME dir = "push", phase = "jobs", NEW o \in queue["push"]
               PROVE  \/ o \in todo' \cup done' \/ o.peer.url \in errored'
                      \/ o.msg \in Deletes \/ Refusable(o.peer.url, o.msg)
    BY <1>0 DEF LeftBehind, Refusable
  <2>1. \/ o \in todo \cup done \/ o.peer.url \in errored
        \/ o.msg \in Deletes \/ Refusable(o.peer.url, o.msg)
    BY DEF OrderInvariant, LeftBehind
  <2>2. /\ todo \ {op} \subseteq todo' /\ done \subseteq done' /\ errored \subseteq errored'
        /\ \/ op \notin todo \/ op \in todo' \cup done' \/ op.peer.url \in errored'
           \/ op.msg \in Deletes \/ Refusable(op.peer.url, op.msg)
    <3>1. CASE Deliver(op)
      <4>1. /\ fetched = op /\ Target(dir, op.peer) = op.peer.url
            /\ UNCHANGED <<done, errored>>
            /\ \/ UNCHANGED todo
               \/ /\ todo' = todo \ {op}
                  /\ ~ReplyIsSuccessful(Reply(dwn[op.peer.url], op.msg))
        BY <3>1 DEF Deliver, Target
      <4>2. /\ dwn[op.peer.url] \in Node
            /\ \A k \in Needs[op.msg] : \/ k \in Arrived(dwn[op.peer.url])
                                        \/ Refusable(op.peer.url, k)
        BY <1>0, <4>1 DEF OrderInvariant, PushedInOrder, TypeOK
      <4>3. \A k \in Needs[op.msg] :
               Refusable(op.peer.url, k) => Refusable(op.peer.url, op.msg)
        BY <1>0 DEF NeedsKept, Refusable
      <4> QED
        BY <1>0, <4>1, <4>2, <4>3, FailedDeliver
    <3>5. CASE Refused(op)
      BY <3>5 DEF Refused, Target, Refusable
    <3>2. CASE SkipErrored(op) \/ PushUnreachable(op) \/ PushReplyLost(op)
      BY <3>2 DEF SkipErrored, PushUnreachable, PushReplyLost, Postpone
    <3>3. CASE PushAbsent(op) \/ PushRead(op) \/ AddMessage(op)
      BY <3>3 DEF PushAbsent, PushRead, AddMessage, Settle
    <3>4. CASE \/ PullKnown(op) \/ PullDenied(op) \/ PullUnreachable(op)
               \/ PullUnreadable(op) \/ PullRead(op)
      BY <3>4 DEF PullKnown, PullDenied, PullUnreachable, PullUnreadable, PullRead
    <3> QED
      BY <3>1, <3>2, <3>3, <3>4, <3>5 DEF Job
  <2> QED
    BY <2>1, <2>2
<1>2. ASSUME fetched' \in {fetched, NoOp}, fetched' # NoOp => accepted' = accepted
      PROVE  OrderInvariant'
  BY <1>0, <1>1, <1>2, OrderKept
<1>3. CASE PullRead(op) \/ PushRead(op)
  <2>1. /\ fetched' = op /\ accepted' = NoOp /\ UNCHANGED dwn
        /\ dir = "push" => PushRead(op)
    BY <1>3 DEF PullRead, PushRead, IsNext
  <2>2. PushedInOrder'
    BY <1>0, <2>1, PushReadInOrder DEF PushedInOrder
  <2>3. QueuePassed' /\ TasksPassed'
    BY <1>0, <2>1 DEF OrderInvariant, QueuePassed, TasksPassed, Chosen
  <2> QED
    BY <1>1, <2>1, <2>2, <2>3 DEF OrderInvariant
<1>4. CASE AddMessage(op)
  <2>1. fetched' = fetched /\ accepted = op
    BY <1>4 DEF AddMessage
  <2>2. CASE dir = "pull"
    <3>1. UNCHANGED dwn
      BY <1>4 DEF AddMessage
    <3> QED
      BY <1>0, <1>1, <2>2, <3>1
         DEF OrderInvariant, QueuePassed, TasksPassed, PushedInOrder, Chosen
  <2>3. CASE dir = "push"
    BY <1>0, <1>2, <2>1, <2>3 DEF OrderInvariant
  <2> QED
    BY <2>2, <2>3 DEF TypeOK, Dir
<1>5. CASE ~PullRead(op) /\ ~PushRead(op) /\ ~AddMessage(op)
  <2>1. fetched' \in {fetched, NoOp} /\ (fetched' # NoOp => accepted' = accepted)
    BY <1>5 DEF Job, SkipErrored, PullKnown, PullDenied, PullUnreachable, PullUnreadable,
       PushAbsent, PushUnreachable, Refused, PushReplyLost, Deliver, Postpone, Settle
  <2> QED
    BY <1>2, <2>1
<1> QED
  BY <1>3, <1>4, <1>5

\* A message is pushed only after what it needs is at the endpoint or may be
\* refused there, when the callers use one delegate, unless one of the
\* forgetting events happens.
THEOREM PushedInOrderHolds ==
    Happens \cap Forgetting = {} /\ OneDelegate /\ NeedsKept
        => (Spec => []PushedInOrder)
<1> SUFFICES ASSUME Happens \cap Forgetting = {}, OneDelegate, NeedsKept
             PROVE  Spec => []PushedInOrder
  OBVIOUS
<1>1. Init => OrderInvariant
  <2> SUFFICES ASSUME Init PROVE OrderInvariant
    OBVIOUS
  <2>1. \A n \in Nodes : Arrived(dwn[n]) = {}
    BY DEF Init, EmptyNode, Arrived
  <2>2. queue["push"] = {} /\ \A p \in Peer : fetch[p].state = "off"
    BY DEF Init, NotFetching, Fetching, Dir
  <2> QED
    BY <2>1, <2>2 DEF Init, OrderInvariant, HoldsNeeds, QueuePassed, TasksPassed,
       LeftBehind, PushedInOrder
<1>2. TypeOK /\ TypeOK' /\ PushInvariant /\ TraceInvariant /\ OrderInvariant
         /\ [Next]_vars => OrderInvariant'
  <2> SUFFICES ASSUME TypeOK, TypeOK', PushInvariant, TraceInvariant, OrderInvariant,
                      [Next]_vars
               PROVE  OrderInvariant'
    OBVIOUS
  <2>1. LogsGrow /\ \A n \in Nodes : HoldsNeeds(dwn'[n])
    BY NextGrows, NeedsHeld DEF PushInvariant, OrderInvariant
  <2>2. CASE UNCHANGED vars
    BY <2>2 DEF vars, OrderInvariant, QueuePassed, TasksPassed, LeftBehind,
       PushedInOrder, Chosen
  <2>3. CASE FinishJobs
    <3>1. /\ UNCHANGED <<dwn, cursor>> /\ queue'["push"] \subseteq queue["push"]
          /\ fetch' = NotFetching /\ phase' # "jobs" /\ fetched' = NoOp
      BY <2>3 DEF FinishJobs, TypeOK, Dir
    <3> QED
      BY <3>1, OrderKeptIdle DEF NotFetching, Fetching
  <2>4. CASE Outside
    BY <2>1, <2>4, OutsideOrder
  <2>5. CASE \E op \in Op : Job(op)
    BY <2>1, <2>5, JobOrder
  <2> QED
    BY <2>2, <2>3, <2>4, <2>5, EnqueueOrder DEF Next, Run
<1>3. OrderInvariant => PushedInOrder
  BY DEF OrderInvariant
<1> QED
  BY <1>1, <1>2, <1>3, TypeCorrect, PushInvariantHolds, TraceInvariantHolds,
     PTL DEF Spec
=============================================================================
