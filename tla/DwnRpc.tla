------------------------------- MODULE DwnRpc -------------------------------
(***************************************************************************)
(* Sending a message to a tenant's endpoints: AgentDwnApi.sendDwnRpcRequest*)
(* tries them in turn (dwn-api.ts), Web5RpcClient picks the transport      *)
(* (rpc-client.ts): one HTTP request (http-dwn-rpc-client.ts) or, for a    *)
(* subscription and for endpoints with ws: URLs, a JSON-RPC request over a *)
(* shared WebSocket (web-socket-clients.ts, json-rpc-socket.ts).           *)
(*                                                                         *)
(* Each member of Call is one call of sendRequest().  Its tries at the     *)
(* endpoints are numbered by them; a try has a request id, a subscription  *)
(* id and, when it is closed, the id of the closing request.               *)
(***************************************************************************)
EXTENDS Integers, Sequences, SequencesExt, FiniteSets

CONSTANTS
    Call,
    Subscribes,     \* calls with a subscription handler
    Endpoint,       \* DWN hosts
    EndpointsOf,    \* the endpoints of a call's target, in their order
    WsUrl,          \* the calls and places whose URL is ws: or wss:
    WsSupport,      \* endpoints whose server supports WebSockets
    MaxSocket,      \* bound: sockets ever created
    MaxEvent,       \* bound: events of a subscription
    MayDisconnect   \* whether sockets may close

Socket   == 1..MaxSocket
NoSocket == 0
Place    == UNION {DOMAIN EndpointsOf[c] : c \in Call}

ASSUME RpcAssumption ==
    /\ MaxSocket \in Nat /\ MaxEvent \in Nat
    /\ EndpointsOf \in [Call -> Seq(Endpoint)]
    /\ Subscribes \subseteq Call
    /\ WsUrl \subseteq Call \X Place /\ WsSupport \subseteq Endpoint
    /\ MayDisconnect \in BOOLEAN

Id == [call : Call, place : Place,
       kind : {"request", "events", "close"}]
Response == [id : Id, error : BOOLEAN, subscription : BOOLEAN]

CallStep == {"new", "info", "send", "connect", "wait", "fetch",
             "returned", "failed", "subscribed", "closed"}

VARIABLES
    call,        \* where every call is: its step, its place among the
                 \* endpoints, and its socket
    socket,      \* the state of every socket
    connection,  \* WebSocketDwnRpcClient.connections
    handler,     \* messageHandlers of every socket
    toServer, toClient,
    serves,      \* server: subscriptions of every socket
    owes,        \* server: those whose request it has not answered yet
    sent,        \* server: events sent on every subscription
    delivered,   \* history: events the handler of a call has been given
    expired      \* history: tries whose request has timed out

net == <<socket, connection, handler, toServer, toClient, serves, owes>>
vars == <<call, net, sent, delivered, expired>>

Try == Call \X Place

TypeOK ==
    /\ call \in [Call -> [at : CallStep, place : Place \cup {0},
                          socket : Socket \cup {NoSocket}]]
    /\ socket \in [Socket -> {"none", "connecting", "open", "closed"}]
    /\ connection \in [Endpoint -> Socket \cup {NoSocket}]
    /\ handler \in [Socket -> SUBSET Id]
    /\ toServer \in [Socket -> Seq(Id)]
    /\ toClient \in [Socket -> Seq(Response)]
    /\ serves \in [Socket -> SUBSET Try]
    /\ owes \in [Socket -> SUBSET Try]
    /\ sent \in [Try -> 0..MaxEvent]
    /\ delivered \in [Try -> 0..MaxEvent]
    /\ expired \subseteq Try

Init ==
    /\ call = [c \in Call |-> [at |-> "new", place |-> 0, socket |-> NoSocket]]
    /\ socket = [s \in Socket |-> "none"]
    /\ connection = [e \in Endpoint |-> NoSocket]
    /\ handler = [s \in Socket |-> {}]
    /\ toServer = [s \in Socket |-> << >>]
    /\ toClient = [s \in Socket |-> << >>]
    /\ serves = [s \in Socket |-> {}]
    /\ owes = [s \in Socket |-> {}]
    /\ sent = [t \in Try |-> 0]
    /\ delivered = [t \in Try |-> 0]
    /\ expired = {}

-----------------------------------------------------------------------------
At(c, step) == call[c].at = step
Goto(c, step) == call' = [call EXCEPT ![c].at = step]
Tries(c) == <<c, call[c].place>>
Host(c) == EndpointsOf[c][call[c].place]
IdOf(t, kind) == [call |-> t[1], place |-> t[2], kind |-> kind]

IsOpen(s) == socket[s] = "open"

\* What is sent on a socket that is not open is lost.
Sends(s, id) ==
    toServer' = IF IsOpen(s) THEN [toServer EXCEPT ![s] = Append(@, id)]
                ELSE toServer

\* The endpoint failed: the next one, if there is one.
TryNext(c) ==
    call' = [call EXCEPT ![c] =
        IF @.place = Len(EndpointsOf[c]) THEN [@ EXCEPT !.at = "failed"]
        ELSE [at |-> IF c \in Subscribes THEN "info" ELSE "send",
              place |-> @.place + 1, socket |-> NoSocket]]

SendRequest(c) ==
    /\ At(c, "new")
    /\ TryNext(c)
    /\ UNCHANGED <<net, sent, delivered, expired>>

\* getServerInfo(): a request, which may fail, or the cache's entry, which may
\* have expired; the WebSocket transport does not implement it.
GetServerInfo(c) ==
    /\ At(c, "info")
    /\ \/ /\ Host(c) \in WsSupport /\ Tries(c) \notin WsUrl
          /\ Goto(c, "send")
       \/ TryNext(c)
    /\ UNCHANGED <<net, sent, delivered, expired>>

UsesSocket(c) == c \in Subscribes \/ Tries(c) \in WsUrl

\* One request and its answer: the reply, or an exception.
SendHttp(c) ==
    /\ At(c, "send") /\ ~UsesSocket(c)
    /\ Goto(c, "fetch")
    /\ UNCHANGED <<net, sent, delivered, expired>>

Fetched(c) ==
    /\ At(c, "fetch")
    /\ Goto(c, "returned") \/ TryNext(c)
    /\ UNCHANGED <<net, sent, delivered, expired>>

-----------------------------------------------------------------------------
(* JsonRpcSocket.request() and subscribe(). *)

\* The handlers are set before the request is sent.
Handlers(c) ==
    {IdOf(Tries(c), "request")} \cup
    (IF c \in Subscribes THEN {IdOf(Tries(c), "events")} ELSE {})

Waits(c, s) == call' = [call EXCEPT ![c].at = "wait", ![c].socket = s]

\* A connection is used for good, whether its socket is open or not.
SendOnConnection(c) ==
    LET s == connection[Host(c)] IN
    /\ At(c, "send") /\ UsesSocket(c)
    /\ s # NoSocket
    /\ handler' = [handler EXCEPT ![s] = @ \cup Handlers(c)]
    /\ Sends(s, IdOf(Tries(c), "request"))
    /\ Waits(c, s)
    /\ UNCHANGED <<socket, connection, toClient, serves, owes, sent,
                   delivered, expired>>

Connect(c) ==
    LET new == {s \in Socket : socket[s] = "none"}
        s   == CHOOSE n \in new : \A m \in new : n <= m
    IN
    /\ At(c, "send") /\ UsesSocket(c)
    /\ connection[Host(c)] = NoSocket
    /\ new # {}
    /\ socket' = [socket EXCEPT ![s] = "connecting"]
    /\ call' = [call EXCEPT ![c].at = "connect", ![c].socket = s]
    /\ UNCHANGED <<connection, handler, toServer, toClient, serves, owes,
                   sent, delivered, expired>>

\* The connection takes the place of one that another call has made meanwhile.
Opened(c) ==
    LET s == call[c].socket IN
    /\ At(c, "connect")
    /\ socket' = [socket EXCEPT ![s] = "open"]
    /\ connection' = [connection EXCEPT ![Host(c)] = s]
    /\ handler' = [handler EXCEPT ![s] = Handlers(c)]
    /\ toServer' = [toServer EXCEPT ![s] = <<IdOf(Tries(c), "request")>>]
    /\ Waits(c, s)
    /\ UNCHANGED <<toClient, serves, owes, sent, delivered, expired>>

ConnectError(c) ==
    /\ At(c, "connect")
    /\ socket' = [socket EXCEPT ![call[c].socket] = "closed"]
    /\ TryNext(c)
    /\ UNCHANGED <<connection, handler, toServer, toClient, serves, owes,
                   sent, delivered, expired>>

\* Mutant: the timeout names reject and does not call it, as the connection's.
TimeoutUnrejected(c) ==
    /\ At(c, "wait")
    /\ handler' = [handler EXCEPT ![call[c].socket] =
                      @ \ {IdOf(Tries(c), "request")}]
    /\ expired' = expired \cup {Tries(c)}
    /\ UNCHANGED <<call, socket, connection, toServer, toClient, serves,
                   owes, sent, delivered>>

\* The timeout of a request takes its handler away, never that of the events.
Timeout(c) ==
    /\ At(c, "wait")
    /\ handler' = [handler EXCEPT ![call[c].socket] =
                      @ \ {IdOf(Tries(c), "request")}]
    /\ expired' = expired \cup {Tries(c)}
    /\ TryNext(c)
    /\ UNCHANGED <<socket, connection, toServer, toClient, serves, owes,
                   sent, delivered>>

\* A closing request that is not answered has its handler taken away, too.
CloseTimeout(s, id) ==
    /\ id \in handler[s] /\ id.kind = "close"
    /\ handler' = [handler EXCEPT ![s] = @ \ {id}]
    /\ UNCHANGED <<call, socket, connection, toServer, toClient, serves,
                   owes, sent, delivered, expired>>

\* Mutant: the handler goes, and the server is not told.
CloseLocally(s, t) ==
    /\ handler' = [handler EXCEPT ![s] = @ \ {IdOf(t, "events")}]
    /\ UNCHANGED toServer

\* The handler of the events goes, and the server is asked to end them.
CloseSubscription(s, t) ==
    /\ handler' = [handler EXCEPT ![s] =
          (@ \ {IdOf(t, "events")}) \cup {IdOf(t, "close")}]
    /\ Sends(s, IdOf(t, "close"))

\* Mutant: the handler of the events stays until the server has confirmed.
CloseKeepsHandler(c) ==
    LET s == call[c].socket IN
    /\ At(c, "subscribed")
    /\ handler' = [handler EXCEPT ![s] = @ \cup {IdOf(Tries(c), "close")}]
    /\ Sends(s, IdOf(Tries(c), "close"))
    /\ Goto(c, "closed")
    /\ UNCHANGED <<socket, connection, toClient, serves, owes, sent,
                   delivered, expired>>

Close(c) ==
    LET s == call[c].socket IN
    /\ At(c, "subscribed")
    /\ CloseSubscription(s, Tries(c))
    /\ Goto(c, "closed")
    /\ UNCHANGED <<socket, connection, toClient, serves, owes, sent,
                   delivered, expired>>

-----------------------------------------------------------------------------
(* Messages that arrive. *)

\* The response to the request of a try that is waited for.  An error is thrown
\* and the handler of the events goes; a reply without a subscription is handed
\* to the caller, and the handler stays.
Responded(s, m) ==
    LET c == m.id.call  t == <<c, m.id.place>> IN
    /\ m.id.kind = "request"
    /\ IF m.error
       THEN /\ handler' = [handler EXCEPT ![s] =
                              @ \ {m.id, IdOf(t, "events")}]
            /\ TryNext(c)
       ELSE /\ handler' = [handler EXCEPT ![s] = @ \ {m.id}]
            /\ Goto(c, IF c \in Subscribes /\ m.subscription
                       THEN "subscribed" ELSE "returned")
    /\ UNCHANGED <<toServer, delivered>>

\* An event, or an error in place of one, upon which the socket closes the
\* subscription, and the client, if it has it, once more: one request here.
\* Either may come before the response, which then finds no handler to remove.
EventArrives(s, m) ==
    LET c == m.id.call  t == <<c, m.id.place>> IN
    /\ m.id.kind = "events"
    /\ IF m.error
       THEN /\ CloseSubscription(s, t)
            /\ call' = IF At(c, "subscribed") /\ Tries(c) = t
                       THEN [call EXCEPT ![c].at = "closed"] ELSE call
            /\ UNCHANGED delivered
       ELSE /\ delivered' = [delivered EXCEPT ![t] = @ + 1]
            /\ UNCHANGED <<handler, toServer, call>>

CloseConfirmed(s, m) ==
    /\ m.id.kind = "close"
    /\ handler' = [handler EXCEPT ![s] = @ \ {m.id}]
    /\ UNCHANGED <<call, toServer, delivered>>

\* Mutant: the handler of the events is set when the response is there.
ReceiveHandlerLate(s) ==
    /\ toClient[s] # << >>
    /\ toClient' = [toClient EXCEPT ![s] = Tail(@)]
    /\ LET m == Head(toClient[s]) IN
       IF \/ m.id \notin handler[s]
          \/ m.id.kind = "events" /\ [m.id EXCEPT !.kind = "request"] \in handler[s]
       THEN UNCHANGED <<call, handler, toServer, delivered>>
       ELSE Responded(s, m) \/ EventArrives(s, m) \/ CloseConfirmed(s, m)
    /\ UNCHANGED <<socket, connection, serves, owes, sent, expired>>

Receive(s) ==
    /\ toClient[s] # << >>
    /\ toClient' = [toClient EXCEPT ![s] = Tail(@)]
    /\ LET m == Head(toClient[s]) IN
       IF m.id \notin handler[s] THEN UNCHANGED <<call, handler, toServer, delivered>>
       ELSE Responded(s, m) \/ EventArrives(s, m) \/ CloseConfirmed(s, m)
    /\ UNCHANGED <<socket, connection, serves, owes, sent, expired>>

-----------------------------------------------------------------------------
(* The server, and the network. *)

Answers(s, id, error, subscription) ==
    toClient' = [toClient EXCEPT ![s] =
        Append(@, [id |-> id, error |-> error, subscription |-> subscription])]

\* A request is answered with an error or a reply; a server that accepts a
\* subscription serves it from then on and answers when it gets to it.  What
\* the answer to a closing request says is read by nobody.
Process(s) ==
    /\ toServer[s] # << >>
    /\ toServer' = [toServer EXCEPT ![s] = Tail(@)]
    /\ LET id == Head(toServer[s])  t == <<id.call, id.place>> IN
       CASE id.kind = "request" ->
               \/ /\ \E error \in BOOLEAN : Answers(s, id, error, FALSE)
                  /\ UNCHANGED <<serves, owes>>
               \/ /\ id.call \in Subscribes
                  /\ serves' = [serves EXCEPT ![s] = @ \cup {t}]
                  /\ owes' = [owes EXCEPT ![s] = @ \cup {t}]
                  /\ UNCHANGED toClient
         [] id.kind # "request" ->
               /\ Answers(s, id, FALSE, FALSE)
               /\ serves' = [serves EXCEPT ![s] = @ \ {t}]
               /\ UNCHANGED owes
    /\ UNCHANGED <<call, socket, connection, handler, sent, delivered,
                   expired>>

\* The response to an accepted request, behind the events sent before it.
Respond(s, t) ==
    /\ t \in owes[s]
    /\ Answers(s, IdOf(t, "request"), FALSE, TRUE)
    /\ owes' = [owes EXCEPT ![s] = @ \ {t}]
    /\ UNCHANGED <<call, socket, connection, handler, toServer, serves, sent,
                   delivered, expired>>

Event(s, t) ==
    /\ t \in serves[s]
    /\ \/ /\ sent[t] < MaxEvent
          /\ sent' = [sent EXCEPT ![t] = @ + 1]
          /\ Answers(s, IdOf(t, "events"), FALSE, FALSE)
          /\ UNCHANGED serves
       \/ /\ Answers(s, IdOf(t, "events"), TRUE, FALSE)
          /\ serves' = [serves EXCEPT ![s] = @ \ {t}]
          /\ UNCHANGED sent
    /\ UNCHANGED <<call, socket, connection, handler, toServer, owes,
                   delivered, expired>>

\* Nobody is told but by the log.
Disconnect(s) ==
    /\ MayDisconnect
    /\ IsOpen(s)
    /\ socket' = [socket EXCEPT ![s] = "closed"]
    /\ toServer' = [toServer EXCEPT ![s] = << >>]
    /\ toClient' = [toClient EXCEPT ![s] = << >>]
    /\ serves' = [serves EXCEPT ![s] = {}]
    /\ owes' = [owes EXCEPT ![s] = {}]
    /\ UNCHANGED <<call, connection, handler, sent, delivered, expired>>

Next ==
    \/ \E c \in Call :
          \/ SendRequest(c) \/ GetServerInfo(c) \/ SendHttp(c) \/ Fetched(c)
          \/ SendOnConnection(c) \/ Connect(c) \/ Opened(c) \/ ConnectError(c)
          \/ Timeout(c) \/ Close(c)
    \/ \E s \in Socket :
          \/ Receive(s) \/ Process(s) \/ Disconnect(s)
          \/ \E t \in serves[s] : Event(s, t)
          \/ \E t \in owes[s] : Respond(s, t)
          \/ \E id \in handler[s] : CloseTimeout(s, id)

Spec == Init /\ [][Next]_vars

\* The agent's own steps are taken, and the timer of a request fires.  Nothing
\* is assumed of the servers and the network: an HTTP request need not be
\* answered, and a connection need neither be made nor refused.
FairSpec ==
    /\ Spec
    /\ \A c \in Call : WF_vars(\/ SendRequest(c) \/ SendHttp(c)
                               \/ SendOnConnection(c) \/ Connect(c) \/ Timeout(c))

-----------------------------------------------------------------------------
Pending(s, t) ==
    Cardinality({i \in DOMAIN toClient[s] :
                    toClient[s][i].id = IdOf(t, "events") /\ ~toClient[s][i].error})

Subscribed(c) == At(c, "subscribed") /\ IsOpen(call[c].socket)

\* Safety: a subscription that is up loses no event: those sent have been given
\* to its handler or are on their way, the ones that came before the response
\* to the request included (json-rpc-socket.ts lines 137-139).
NoEventLost ==
    \A c \in Call : Subscribed(c) =>
        sent[Tries(c)] = delivered[Tries(c)] + Pending(call[c].socket, Tries(c))

\* Action: after close(), or an error among the events, the handler is left
\* alone, whatever is still on its way (lines 128-131 and 147).
SilentAfterClose ==
    [][\A c \in Call : At(c, "closed") =>
          delivered'[Tries(c)] = delivered[Tries(c)]]_vars

\* Safety: every handler a socket holds belongs to a request that is waited for
\* or to a subscription that is up.  Two kinds are left over: that of the events
\* of a subscription whose request has timed out (line 102), and of one that the
\* reply to its request does not have (lines 138-141; web-socket-clients.ts 93).
HandlersAccounted ==
    \A s \in Socket : \A id \in handler[s] :
        LET c == id.call  t == <<c, id.place>> IN
        \/ t \in expired /\ id.kind = "events"
        \/ id.kind = "close"
        \/ /\ Tries(c) = t /\ call[c].socket = s
           /\ \/ At(c, "wait")
              \/ id.kind = "events" /\ call[c].at \in {"subscribed", "returned"}

\* Safety: a server keeps a subscription only for a call that has it, waits for
\* it, or has sent for its end; or whose request has timed out.
ServedAccounted ==
    \A s \in Socket : \A t \in serves[s] :
        \/ t \in expired
        \/ IdOf(t, "close") \in ToSet(toServer[s])
        \/ Tries(t[1]) = t /\ (At(t[1], "wait") \/ At(t[1], "subscribed"))

\* Safety: the handler of a call hears of one endpoint only, unless the request
\* to another has timed out (dwn-api.ts lines 260-296).
OneSource ==
    \A c \in Call : \A e, f \in Place :
        e # f /\ delivered[<<c, e>>] > 0 /\ delivered[<<c, f>>] > 0 =>
            <<c, e>> \in expired \/ <<c, f>> \in expired

\* Safety: on either side nothing is left behind but what is named above, and
\* nobody is served twice.
Accounted == TypeOK /\ HandlersAccounted /\ ServedAccounted /\ OneSource

\* Liveness: a call that has been made ends, unless a server leaves it waiting
\* for its info, for the answer to an HTTP request or for a connection, for none
\* of which the code has a timeout that works (json-rpc-socket.ts line 72).
CallEnds ==
    \A c \in Call :
        <>[](call[c].at \in {"new", "info", "fetch", "connect",
                             "returned", "failed", "subscribed", "closed"})
=============================================================================
