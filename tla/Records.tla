------------------------------ MODULE Records ------------------------------
(***************************************************************************)
(* The objects of one DWN record that an application holds (record.ts),    *)
(* against what the nodes have: write, read, query, subscribe and delete   *)
(* of DwnApi make objects or change a node (api/src/dwn-api.ts); update,   *)
(* delete, store, import and send change an object and its nodes.          *)
(*                                                                         *)
(* Who writes is "me", the connected DID, or "other".  "local" is my node  *)
(* in the agent; "remote" is mine too if I have made the record, and the   *)
(* other's if the other has.  A message carries its time, whether I have   *)
(* signed it as the owner, and the time of the write its data come from.   *)
(* A node is external: what it answers is modelled as far as objects depend*)
(* on it.  A call is split where it waits for a node a second time; one    *)
(* call per object is under way.                                           *)
(***************************************************************************)
EXTENDS Integers, FiniteSets

CONSTANTS
    Object,
    MaxTime,     \* bound: messages ever made of the record
    MayRefuse    \* nodes that may refuse a message for reasons of their own

Node == {"local", "remote"}
Who  == {"me", "other"}

\* A RecordsDelete has no data, and is never signed by an owner.
Message == [kind : {"write"}, time : 1..MaxTime, by : Who,
            owned : BOOLEAN, data : 1..MaxTime]
           \cup [kind : {"delete"}, time : 2..MaxTime, by : Who,
                 owned : {FALSE}, data : {0}]
NoMessage == [kind |-> "none", time |-> 0, by |-> "me", owned |-> FALSE, data |-> 0]

Answer == {"ok", "refused", "unauthorized", "noInitial", "notFound", "deleted",
           "conflict", "badData"}

VARIABLES
    creator,    \* who makes the record
    clock,      \* the time of the last message made
    node,       \* whether a node has the initial write, and its latest message
    object,
    sendCache,  \* SendCache: nodes the initial write was sent to
    draft       \* history: objects whose state was not stored by this app

vars == <<creator, clock, node, object, sendCache, draft>>

NoObject == [at |-> "none", msg |-> NoMessage, author |-> "me", data |-> 0,
             origin |-> "local", initial |-> FALSE, initialOwned |-> FALSE,
             initialStored |-> FALSE, initialSigned |-> FALSE,
             store |-> FALSE, sign |-> FALSE]

TypeOK ==
    /\ creator \in Who
    /\ clock \in 0..MaxTime
    /\ node \in [Node -> [initial : BOOLEAN, latest : Message \cup {NoMessage}]]
    /\ object \in [Object ->
          [at : {"none", "idle", "process", "delete", "send"},
           msg : Message \cup {NoMessage}, author : Who, data : 0..MaxTime,
           origin : Node, initial : BOOLEAN, initialOwned : BOOLEAN,
           initialStored : BOOLEAN, initialSigned : BOOLEAN,
           store : BOOLEAN, sign : BOOLEAN]]
    /\ sendCache \subseteq Node
    /\ draft \subseteq Object

Init ==
    /\ creator \in Who
    /\ clock = 0
    /\ node = [n \in Node |-> [initial |-> FALSE, latest |-> NoMessage]]
    /\ object = [o \in Object |-> NoObject]
    /\ sendCache = {}
    /\ draft = {}

-----------------------------------------------------------------------------
(* What a node does with a message. *)

Authorized(n, m) ==
    m.by = "me" \/ m.owned \/ (n = "remote" /\ creator = "other")

\* data is 0 when none come with the message.
Verdict(n, m, data) ==
    LET has == node[n].latest IN
    IF ~Authorized(n, m) THEN "unauthorized"
    ELSE IF m.time = 1
    THEN IF has # NoMessage \/ (data = 0 /\ node[n].initial) THEN "conflict" ELSE "ok"
    ELSE IF ~node[n].initial
    THEN IF m.kind = "delete" THEN "notFound" ELSE "noInitial"
    ELSE IF has.kind = "delete"
    THEN IF m.kind = "delete" THEN "notFound" ELSE "deleted"
    ELSE IF m.time <= has.time THEN "conflict"
    ELSE IF m.kind = "write" /\ m.data # (IF data = 0 THEN has.data ELSE data)
    THEN "badData"
    ELSE "ok"

Answers(n, m, data) ==
    {Verdict(n, m, data)} \cup (IF n \in MayRefuse THEN {"refused"} ELSE {})

\* The node with m; an initial write without data is not its state.
With(n, m, data) ==
    [node EXCEPT ![n] =
        [initial |-> TRUE, latest |-> IF m.time = 1 /\ data = 0 THEN @.latest ELSE m]]

\* processRequest(): a message that is not to be stored is just built.
Processed(n, m, data, store, answer) ==
    IF store THEN /\ answer \in Answers(n, m, data)
                  /\ node' = IF answer = "ok" THEN With(n, m, data) ELSE node
             ELSE answer = "ok" /\ UNCHANGED node

Idle(o) == object[o].at = "idle"
Deleted(o) == object[o].msg.kind = "delete"

InitialOf(o) ==
    [kind |-> "write", time |-> 1, by |-> creator,
     owned |-> object[o].initialOwned, data |-> 1]

\* What the node has by now, or an exception.
ReadRecordData(o) ==
    LET has == node[object[o].origin].latest IN
    IF has.kind = "write" THEN has.data ELSE 0

\* record.data: in memory, or read.
DataOf(o) == IF object[o].data # 0 THEN object[o].data ELSE ReadRecordData(o)

-----------------------------------------------------------------------------
(* Objects come from writes, reads, queries and subscriptions. *)

Write(o, store) ==
    LET m == [kind |-> "write", time |-> 1, by |-> "me", owned |-> FALSE,
              data |-> 1]
    IN
    /\ object[o].at = "none" /\ clock = 0 /\ creator = "me"
    /\ clock' = 1
    /\ \E answer \in Answer :
          /\ Processed("local", m, 1, store, answer)
          /\ object' = IF answer # "ok" THEN object
                       ELSE [object EXCEPT ![o] =
                               [NoObject EXCEPT !.at = "idle", !.msg = m, !.data = 1]]
          /\ draft' = IF store THEN draft ELSE draft \cup {o}
    /\ UNCHANGED <<creator, sendCache>>

\* An object of a node's message, with the initial write if that is another.
Get(o, n, data) ==
    LET m == node[n].latest IN
    /\ object[o].at = "none"
    /\ object' = [object EXCEPT ![o] =
          [NoObject EXCEPT !.at = "idle", !.msg = m, !.author = m.by,
                           !.data = data, !.origin = n,
                           !.initial = m.time > 1]]
    /\ draft' = draft \cup {o}
    /\ UNCHANGED <<creator, clock, node, sendCache>>

\* The data of a read are a stream, and are gone once it has been read.
Read(o, n) ==
    LET m == node[n].latest IN
    m.kind = "write" /\ \E data \in {0, m.data} : Get(o, n, data)

\* Small data come with the entry of a query.
Query(o, n) ==
    LET m == node[n].latest IN
    m.kind = "write" /\ \E data \in {0, m.data} : Get(o, n, data)

\* An event has none, and may tell of a delete.
Subscribe(o, n) == node[n].latest # NoMessage /\ Get(o, n, 0)

\* The application lets go of an object.
Drop(o) ==
    /\ Idle(o)
    /\ object' = [object EXCEPT ![o] = NoObject]
    /\ draft' = draft \ {o}
    /\ UNCHANGED <<creator, clock, node, sendCache>>

\* dwn.records.delete(), by the record's id, here or at my remote node.
DeleteById(n) ==
    LET m == [kind |-> "delete", time |-> clock + 1, by |-> "me",
              owned |-> FALSE, data |-> 0]
    IN
    /\ clock \in 1..(MaxTime - 1)
    /\ clock' = clock + 1
    /\ \E answer \in Answer : Processed(n, m, 0, TRUE, answer)
    /\ UNCHANGED <<creator, object, sendCache, draft>>

\* Another device of mine, or the other, at the remote node.
Elsewhere ==
    /\ clock < MaxTime
    /\ clock' = clock + 1
    /\ \E kind \in {"write", "delete"} : \E by \in Who :
          /\ clock = 0 => kind = "write" /\ by = creator /\ creator = "other"
          /\ clock > 0 => node["remote"].latest.kind = "write"
          /\ node' = [node EXCEPT !["remote"] =
                [initial |-> TRUE,
                 latest |-> [kind |-> kind, time |-> clock', by |-> by, owned |-> FALSE,
                             data |-> IF kind = "write" THEN clock' ELSE 0]]]
    /\ UNCHANGED <<creator, object, sendCache, draft>>

-----------------------------------------------------------------------------
(* update() *)

\* The initial write is kept; the author stays who it was (lines 787-806).
Updated(o, m, newData) ==
    [object[o] EXCEPT
        !.initial = TRUE,
        !.initialOwned = IF object[o].initial THEN @ ELSE object[o].msg.owned,
        !.msg = m,
        !.data = IF newData THEN m.data ELSE @]

\* Mutant: the answer of the node is not looked at.
UpdateUnchecked(o, store, newData) ==
    LET m == [kind |-> "write", time |-> clock + 1, by |-> "me", owned |-> FALSE,
              data |-> IF newData THEN clock + 1 ELSE object[o].msg.data]
    IN
    /\ Idle(o) /\ ~Deleted(o) /\ clock < MaxTime
    /\ clock' = clock + 1
    /\ \E answer \in Answer :
          /\ Processed("local", m, IF newData THEN m.data ELSE 0, store, answer)
          /\ object' = [object EXCEPT ![o] = Updated(o, m, newData)]
          /\ draft' = IF store THEN draft \ {o} ELSE draft \cup {o}
    /\ UNCHANGED <<creator, sendCache>>

Update(o, store, newData) ==
    LET m == [kind |-> "write", time |-> clock + 1, by |-> "me", owned |-> FALSE,
              data |-> IF newData THEN clock + 1 ELSE object[o].msg.data]
    IN
    /\ Idle(o) /\ ~Deleted(o) /\ clock < MaxTime
    /\ clock' = clock + 1
    /\ \E answer \in Answer :
          /\ Processed("local", m, IF newData THEN m.data ELSE 0, store, answer)
          /\ IF answer = "ok"
             THEN /\ object' = [object EXCEPT ![o] = Updated(o, m, newData)]
                  /\ draft' = IF store THEN draft \ {o} ELSE draft \cup {o}
             ELSE UNCHANGED <<object, draft>>
    /\ UNCHANGED <<creator, sendCache>>

-----------------------------------------------------------------------------
(* store(), import() and delete() offer the initial write first. *)

\* Mutant: an initial write that has been signed is not stored any more.
NeedsInitialOnce(obj, store, sign) ==
    obj.initial /\ ~obj.initialSigned /\ (sign \/ (store /\ ~obj.initialStored))

NeedsInitial(obj, store, sign) ==
    obj.initial /\ ((sign /\ ~obj.initialSigned) \/ (store /\ ~obj.initialStored))

InitialProcessed(obj, store, sign) ==
    [obj EXCEPT !.initialStored = @ \/ store,
                !.initialSigned = @ \/ sign,
                !.initialOwned = @ \/ sign]

\* processInitialWriteIfNeeded(), as the first step of a call on obj.
ProcessInitial(o, obj, step, store, sign) ==
    LET m    == [InitialOf(o) EXCEPT !.owned = obj.initialOwned \/ sign]
        goes == [obj EXCEPT !.at = step, !.store = store, !.sign = sign]
    IN
    /\ IF ~NeedsInitial(obj, store, sign)
       THEN /\ object' = [object EXCEPT ![o] = goes]
            /\ UNCHANGED node
       ELSE \E answer \in Answer :
               /\ Processed("local", m, 0, store, answer)
               /\ object' = [object EXCEPT ![o] =
                     IF answer = "ok" THEN InitialProcessed(goes, store, sign)
                     ELSE goes]
    /\ UNCHANGED <<creator, clock, sendCache, draft>>

\* store(sign) and import(store).
BeginProcess(o, store, sign) ==
    /\ Idle(o) /\ (store \/ sign)
    /\ ProcessInitial(o, object[o], "process", store, sign)

\* A RecordsDelete is not signed as the owner (agent/src/dwn-api.ts line 359).
ToProcess(o) ==
    [object[o].msg EXCEPT !.owned = @ \/ (object[o].sign /\ ~Deleted(o))]

Ended(obj) == [obj EXCEPT !.at = "idle", !.store = FALSE, !.sign = FALSE]

Process(o) ==
    LET obj == object[o] IN
    /\ obj.at = "process"
    /\ Deleted(o) \/ DataOf(o) # 0
    /\ \E answer \in Answer :
          /\ Processed("local", ToProcess(o), DataOf(o), obj.store, answer)
          /\ object' = [object EXCEPT ![o] =
                IF answer = "ok" THEN [Ended(@) EXCEPT !.msg = ToProcess(o)]
                ELSE Ended(@)]
          /\ draft' = IF answer = "ok" /\ obj.store THEN draft \ {o} ELSE draft
    /\ UNCHANGED <<creator, clock, sendCache>>

\* The write at hand becomes the initial one if there was none (line 826).
BeginDelete(o, store, sign) ==
    LET obj == object[o] IN
    /\ Idle(o)
    /\ ~(Deleted(o) /\ ~obj.initial)
    /\ LET known == IF obj.initial THEN obj
                    ELSE [obj EXCEPT !.initial = TRUE,
                                     !.initialOwned = obj.msg.owned]
       IN  ProcessInitial(o, known, "delete", store, sign)

\* A deleted record's own message again, or a new one.
Delete(o) ==
    LET obj == object[o]
        m   == IF Deleted(o) THEN obj.msg
               ELSE [kind |-> "delete", time |-> clock + 1, by |-> "me",
                     owned |-> FALSE, data |-> 0]
    IN
    /\ obj.at = "delete"
    /\ Deleted(o) \/ clock < MaxTime
    /\ clock' = IF Deleted(o) THEN clock ELSE clock + 1
    /\ \E answer \in Answer :
          /\ Processed("local", m, 0, obj.store, answer)
          /\ object' = [object EXCEPT ![o] =
                IF answer = "ok"
                THEN [Ended(obj) EXCEPT !.msg = m, !.author = m.by, !.data = 0]
                ELSE Ended(obj)]
          /\ draft' = IF answer # "ok" THEN draft
                      ELSE IF obj.store THEN draft \ {o} ELSE draft \cup {o}
    /\ UNCHANGED <<creator, sendCache>>
-----------------------------------------------------------------------------
(* send() *)

\* The initial write first, once per target, whatever the target answers; an
\* endpoint that cannot be reached is an exception (lines 594-615).
BeginSend(o) ==
    /\ Idle(o)
    /\ IF ~object[o].initial \/ "remote" \in sendCache
       THEN UNCHANGED <<node, sendCache>>
       ELSE /\ \E answer \in Answer :
                  Processed("remote", InitialOf(o), 0, TRUE, answer)
            /\ sendCache' = sendCache \cup {"remote"}
    /\ object' = [object EXCEPT ![o].at = "send"]
    /\ UNCHANGED <<creator, clock, draft>>

\* Then the record as it is by now.
Send(o) ==
    /\ object[o].at = "send"
    /\ Deleted(o) \/ DataOf(o) # 0
    /\ \E answer \in Answer :
          Processed("remote", object[o].msg, DataOf(o), TRUE, answer)
    /\ object' = [object EXCEPT ![o] = Ended(@)]
    /\ UNCHANGED <<creator, clock, sendCache, draft>>

\* A call throws half-way: there is no grant for the delegate, the data are not
\* available, or no endpoint can be reached.
Throws(o) ==
    /\ object[o].at \in {"process", "delete", "send"}
    /\ object' = [object EXCEPT ![o] = Ended(@)]
    /\ UNCHANGED <<creator, clock, node, sendCache, draft>>

\* The sends of other records push the target out of the cache.
Evict(n) ==
    /\ n \in sendCache
    /\ sendCache' = sendCache \ {n}
    /\ UNCHANGED <<creator, clock, node, object, draft>>

Next ==
    \/ \E o \in Object :
          \/ Drop(o) \/ Process(o) \/ Delete(o)
          \/ BeginSend(o) \/ Send(o) \/ Throws(o)
          \/ \E n \in Node : Read(o, n) \/ Query(o, n) \/ Subscribe(o, n)
          \/ \E store \in BOOLEAN :
                \/ Write(o, store)
                \/ \E other \in BOOLEAN :
                      \/ Update(o, store, other) \/ BeginProcess(o, store, other)
                      \/ BeginDelete(o, store, other)
    \/ Elsewhere
    \/ \E n \in Node : DeleteById(n) \/ Evict(n)

Spec == Init /\ [][Next]_vars

-----------------------------------------------------------------------------
\* Safety: an object whose state is not the initial write has that write, to
\* offer or send it first (record.ts lines 594, 789 and 826).
InitialKnown ==
    \A o \in Object :
        object[o].msg.time > 1 => object[o].initial

\* Safety: an object that takes its initial write for stored or signed is right
\* (lines 943-949), so that it may leave it out.
FlagsTrue ==
    \A o \in Object :
        /\ object[o].initialStored => node["local"].initial
        /\ object[o].initialSigned => object[o].initialOwned

\* Safety: what this application has updated, deleted or stored with success is
\* on the local node, or something newer.
Backed ==
    \A o \in Object \ draft :
        object[o].msg.time <= node["local"].latest.time

\* Safety: a write that import() offers the local node is not refused for want of
\* a signature or of the initial write, which import() provides (lines 957-1017).
ImportAccepted ==
    \A o \in Object :
        object[o].at = "process" /\ object[o].store /\ object[o].sign /\ ~Deleted(o)
        => Verdict("local", ToProcess(o), DataOf(o)) \notin {"unauthorized", "noInitial"}
=============================================================================
