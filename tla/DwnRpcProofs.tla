----------------------------- MODULE DwnRpcProofs -----------------------------
(* Theorems about DwnRpc, for any calls, endpoints, sockets and events,      *)
(* whatever is refused, times out, is closed or disconnected.                *)
EXTENDS DwnRpc, FiniteSetTheorems, WellFoundedInduction, TLAPS

-----------------------------------------------------------------------------
(* Queues *)

LEMMA AppendAt ==
    ASSUME NEW S, NEW q \in Seq(S), NEW m \in S
    PROVE  /\ Append(q, m) \in Seq(S)
           /\ DOMAIN q = 1..Len(q) /\ Len(q) \in Nat
           /\ DOMAIN Append(q, m) = 1..(Len(q) + 1)
           /\ \A i \in 1..Len(q) : Append(q, m)[i] = q[i]
           /\ Append(q, m)[Len(q) + 1] = m
OBVIOUS

LEMMA TailAt ==
    ASSUME NEW S, NEW q \in Seq(S), q # << >>
    PROVE  /\ Tail(q) \in Seq(S) /\ Head(q) \in S /\ Head(q) = q[1]
           /\ DOMAIN q = 1..Len(q) /\ Len(q) \in Nat /\ Len(q) >= 1
           /\ DOMAIN Tail(q) = 1..(Len(q) - 1)
           /\ \A i \in 1..(Len(q) - 1) : Tail(q)[i] = q[i + 1]
OBVIOUS

\* An id is in a queue of requests, is there once; a response to it is in a queue,
\* an error, and one that brings no subscription.
In(q, id)      == \E i \in DOMAIN q : q[i] = id
Once(q, id)    == \A i, j \in DOMAIN q : q[i] = id /\ q[j] = id => i = j
Told(q, id)    == \E i \in DOMAIN q : q[i].id = id
Refused(q, id) == \E i \in DOMAIN q : q[i].id = id /\ q[i].error
Denied(q, id)  ==
    \E i \in DOMAIN q : q[i].id = id /\ (q[i].error \/ ~q[i].subscription)

\* An error is the last that a queue has with the id.
Ends(q, id) ==
    \A i, j \in DOMAIN q : q[i].id = id /\ q[i].error /\ q[j].id = id => j <= i

\* The events in a queue.
Left(q, id) == {i \in DOMAIN q : q[i].id = id /\ ~q[i].error}

LEMMA InAppend ==
    ASSUME NEW q \in Seq(Id), NEW m \in Id, NEW id
    PROVE  /\ In(Append(q, m), id) <=> In(q, id) \/ m = id
           /\ Once(q, id) /\ (m # id \/ ~In(q, id)) => Once(Append(q, m), id)
           /\ id \in ToSet(q) <=> In(q, id)
<1>1. /\ DOMAIN q = 1..Len(q) /\ Len(q) \in Nat
      /\ DOMAIN Append(q, m) = 1..(Len(q) + 1)
      /\ \A i \in 1..Len(q) : Append(q, m)[i] = q[i]
      /\ Append(q, m)[Len(q) + 1] = m
  BY AppendAt
<1> DEFINE r == Append(q, m)
<1> HIDE DEF r
<1>2. In(r, id) <=> In(q, id) \/ m = id
  BY <1>1 DEF In, r
<1>3. ASSUME Once(q, id), m # id \/ ~In(q, id), NEW i \in DOMAIN r, NEW j \in DOMAIN r,
             r[i] = id, r[j] = id
      PROVE  i = j
  <2>1. \A k \in DOMAIN r : \/ k \in DOMAIN q /\ r[k] = q[k]
                            \/ k = Len(q) + 1 /\ r[k] = m
    BY <1>1 DEF r
  <2> QED
    BY <1>3, <2>1 DEF Once, In
<1>4. id \in ToSet(q) <=> In(q, id)
  BY DEF ToSet, In
<1> QED
  BY <1>2, <1>3, <1>4 DEF Once, r

LEMMA InTail ==
    ASSUME NEW q \in Seq(Id), q # << >>, NEW id
    PROVE  /\ In(Tail(q), id) => In(q, id)
           /\ In(q, id) => In(Tail(q), id) \/ Head(q) = id
           /\ Once(q, id) => Once(Tail(q), id)
           /\ Once(q, id) /\ Head(q) = id => ~In(Tail(q), id)
           /\ In(q, Head(q)) /\ Head(q) \in Id
<1>1. /\ Head(q) = q[1] /\ Head(q) \in Id
      /\ DOMAIN q = 1..Len(q) /\ Len(q) \in Nat /\ Len(q) >= 1
      /\ DOMAIN Tail(q) = 1..(Len(q) - 1)
      /\ \A i \in 1..(Len(q) - 1) : Tail(q)[i] = q[i + 1]
  BY TailAt
<1> DEFINE r == Tail(q)
<1> HIDE DEF r
<1>2. \A i \in DOMAIN r : i + 1 \in DOMAIN q /\ r[i] = q[i + 1] /\ i \in Int /\ i >= 1
  BY <1>1 DEF r
<1>3. \A i \in DOMAIN q : i = 1 \/ (i - 1 \in DOMAIN r /\ r[i - 1] = q[i])
  BY <1>1 DEF r
<1>4. In(r, id) => In(q, id)
  BY <1>2 DEF In
<1>5. In(q, id) => In(r, id) \/ Head(q) = id
  BY <1>1, <1>3 DEF In
<1>6. ASSUME Once(q, id), NEW i \in DOMAIN r, NEW j \in DOMAIN r, r[i] = id, r[j] = id
      PROVE  i = j
  <2>1. i + 1 = j + 1
    BY <1>2, <1>6 DEF Once
  <2> QED
    BY <1>2, <2>1
<1>7. ASSUME Once(q, id), Head(q) = id, In(r, id) PROVE FALSE
  <2>1. PICK i \in DOMAIN r : r[i] = id
    BY <1>7 DEF In
  <2>2. i + 1 = 1
    BY <1>1, <1>2, <1>7, <2>1 DEF Once
  <2> QED
    BY <1>2, <2>2
<1>8. In(q, Head(q))
  BY <1>1 DEF In
<1> QED
  BY <1>1, <1>4, <1>5, <1>6, <1>7, <1>8 DEF Once, r

LEMMA ToldAppend ==
    ASSUME NEW q \in Seq(Response), NEW m \in Response, NEW id
    PROVE  /\ Append(q, m) \in Seq(Response)
           /\ Told(Append(q, m), id) <=> Told(q, id) \/ m.id = id
           /\ Refused(Append(q, m), id) <=> Refused(q, id) \/ (m.id = id /\ m.error)
           /\ Denied(Append(q, m), id)
                 <=> Denied(q, id) \/ (m.id = id /\ (m.error \/ ~m.subscription))
           /\ Ends(q, id) /\ (m.id # id \/ ~Refused(q, id)) => Ends(Append(q, m), id)
<1>1. /\ DOMAIN q = 1..Len(q) /\ Len(q) \in Nat
      /\ Append(q, m) \in Seq(Response)
      /\ DOMAIN Append(q, m) = 1..(Len(q) + 1)
      /\ \A i \in 1..Len(q) : Append(q, m)[i] = q[i]
      /\ Append(q, m)[Len(q) + 1] = m
  BY AppendAt
<1> DEFINE r == Append(q, m)
<1> HIDE DEF r
<1>2. Told(r, id) <=> Told(q, id) \/ m.id = id
  BY <1>1 DEF Told, r
<1>3. Refused(r, id) <=> Refused(q, id) \/ (m.id = id /\ m.error)
  BY <1>1 DEF Refused, r
<1>4. Denied(r, id) <=> Denied(q, id) \/ (m.id = id /\ (m.error \/ ~m.subscription))
  BY <1>1 DEF Denied, r
<1>5. ASSUME Ends(q, id), m.id # id \/ ~Refused(q, id),
             NEW i \in DOMAIN r, NEW j \in DOMAIN r,
             r[i].id = id, r[i].error, r[j].id = id
      PROVE  j <= i
  <2>1. \A k \in DOMAIN r : \/ k \in DOMAIN q /\ r[k] = q[k]
                            \/ k = Len(q) + 1 /\ r[k] = m
    BY <1>1 DEF r
  <2>2. CASE i \in DOMAIN q /\ r[i] = q[i]
    BY <1>5, <2>1, <2>2 DEF Ends, Refused
  <2>3. CASE i = Len(q) + 1
    BY <1>1, <2>1, <2>3
  <2> QED
    BY <2>1, <2>2, <2>3
<1> QED
  BY <1>1, <1>2, <1>3, <1>4, <1>5 DEF Ends, r

LEMMA ToldTail ==
    ASSUME NEW q \in Seq(Response), q # << >>, NEW id
    PROVE  /\ Tail(q) \in Seq(Response) /\ Head(q) \in Response
           /\ Told(q, Head(q).id) /\ (Head(q).error => Refused(q, Head(q).id))
           /\ Head(q).error \/ ~Head(q).subscription => Denied(q, Head(q).id)
           /\ Told(Tail(q), id) => Told(q, id)
           /\ Told(q, id) => Told(Tail(q), id) \/ Head(q).id = id
           /\ Refused(Tail(q), id) => Refused(q, id)
           /\ Denied(Tail(q), id) => Denied(q, id)
           /\ Ends(q, id) => Ends(Tail(q), id)
           /\ Ends(q, id) /\ Head(q).id = id /\ Head(q).error => ~Told(Tail(q), id)
<1>1. /\ Head(q) = q[1] /\ Head(q) \in Response /\ Tail(q) \in Seq(Response)
      /\ DOMAIN q = 1..Len(q) /\ Len(q) \in Nat /\ Len(q) >= 1
      /\ DOMAIN Tail(q) = 1..(Len(q) - 1)
      /\ \A i \in 1..(Len(q) - 1) : Tail(q)[i] = q[i + 1]
  BY TailAt
<1> DEFINE r == Tail(q)
<1> HIDE DEF r
<1>2. \A i \in DOMAIN r : i + 1 \in DOMAIN q /\ r[i] = q[i + 1] /\ i \in Int /\ i >= 1
  BY <1>1 DEF r
<1>3. \A i \in DOMAIN q : i = 1 \/ (i - 1 \in DOMAIN r /\ r[i - 1] = q[i])
  BY <1>1 DEF r
<1>4. /\ Told(q, Head(q).id) /\ (Head(q).error => Refused(q, Head(q).id))
      /\ Head(q).error \/ ~Head(q).subscription => Denied(q, Head(q).id)
  BY <1>1 DEF Told, Refused, Denied
<1>5. Told(r, id) => Told(q, id)
  BY <1>2 DEF Told
<1>6. Told(q, id) => Told(r, id) \/ Head(q).id = id
  BY <1>1, <1>3 DEF Told
<1>7. Refused(r, id) => Refused(q, id)
  BY <1>2 DEF Refused
<1>8. Denied(r, id) => Denied(q, id)
  BY <1>2 DEF Denied
<1>9. ASSUME Ends(q, id), NEW i \in DOMAIN r, NEW j \in DOMAIN r,
             r[i].id = id, r[i].error, r[j].id = id
      PROVE  j <= i
  <2>1. j + 1 <= i + 1
    BY <1>2, <1>9 DEF Ends
  <2> QED
    BY <1>2, <2>1
<1>10. ASSUME Ends(q, id), Head(q).id = id, Head(q).error, Told(r, id) PROVE FALSE
  <2>1. PICK j \in DOMAIN r : r[j].id = id
    BY <1>10 DEF Told
  <2>2. j + 1 <= 1
    BY <1>1, <1>2, <1>10, <2>1 DEF Ends
  <2> QED
    BY <1>2, <2>2
<1> QED
  BY <1>1, <1>4, <1>5, <1>6, <1>7, <1>8, <1>9, <1>10 DEF Ends, r

\* Counting the events of a queue.
LEMMA LeftFinite ==
    ASSUME NEW q \in Seq(Response), NEW id
    PROVE  IsFiniteSet(Left(q, id)) /\ Cardinality(Left(q, id)) \in Nat
<1>1. DOMAIN q = 1..Len(q) /\ Len(q) \in Nat
  OBVIOUS
<1>2. IsFiniteSet(1..Len(q))
  BY <1>1, FS_Interval
<1>3. Left(q, id) \subseteq 1..Len(q)
  BY <1>1 DEF Left
<1>4. IsFiniteSet(Left(q, id))
  BY <1>2, <1>3, FS_Subset
<1> QED
  BY <1>4, FS_CardinalityType

LEMMA LeftAppend ==
    ASSUME NEW q \in Seq(Response), NEW m \in Response, NEW id
    PROVE  Cardinality(Left(Append(q, m), id)) =
              Cardinality(Left(q, id)) + (IF m.id = id /\ ~m.error THEN 1 ELSE 0)
<1>1. /\ DOMAIN q = 1..Len(q) /\ Len(q) \in Nat
      /\ DOMAIN Append(q, m) = 1..(Len(q) + 1)
      /\ \A i \in 1..Len(q) : Append(q, m)[i] = q[i]
      /\ Append(q, m)[Len(q) + 1] = m
  BY AppendAt
<1> DEFINE n == Len(q) + 1
<1>2. Left(Append(q, m), id) = IF m.id = id /\ ~m.error THEN Left(q, id) \cup {n}
                               ELSE Left(q, id)
  BY <1>1 DEF Left
<1>3. n \notin Left(q, id)
  BY <1>1 DEF Left
<1>4. IsFiniteSet(Left(q, id)) /\ Cardinality(Left(q, id)) \in Nat
  BY LeftFinite
<1>5. Cardinality(Left(q, id) \cup {n}) = Cardinality(Left(q, id)) + 1
  BY <1>3, <1>4, FS_AddElement
<1> QED
  BY <1>2, <1>4, <1>5

LEMMA LeftTail ==
    ASSUME NEW q \in Seq(Response), q # << >>, NEW id
    PROVE  Cardinality(Left(q, id)) =
              Cardinality(Left(Tail(q), id))
                 + (IF Head(q).id = id /\ ~Head(q).error THEN 1 ELSE 0)
<1>1. /\ Head(q) = q[1] /\ Tail(q) \in Seq(Response)
      /\ DOMAIN q = 1..Len(q) /\ Len(q) \in Nat /\ Len(q) >= 1
      /\ DOMAIN Tail(q) = 1..(Len(q) - 1)
      /\ \A i \in 1..(Len(q) - 1) : Tail(q)[i] = q[i + 1]
  BY TailAt
<1> DEFINE L == Left(q, id) \ {1}
           R == Left(Tail(q), id)
           f == [i \in R |-> i + 1]
<1>2. \A i \in R : i \in Int /\ i >= 1 /\ i + 1 \in L
  BY <1>1 DEF Left
<1>3. \A j \in L : j \in Int /\ j - 1 \in R
  BY <1>1 DEF Left
<1>4. IsFiniteSet(R)
  BY <1>1, LeftFinite
<1>5. f \in Bijection(R, L)
  <2>1. f \in [R -> L]
    BY <1>2
  <2>2. \A i, j \in R : f[i] = f[j] => i = j
    BY <1>2
  <2>3. \A j \in L : \E i \in R : f[i] = j
    <3>1. ASSUME NEW j \in L PROVE j - 1 \in R /\ f[j - 1] = j
      BY <1>3
    <3> QED
      BY <3>1
  <2> HIDE DEF L, R, f
  <2> QED
    BY <2>1, <2>2, <2>3 DEF Bijection, Injection, Surjection, IsInjective
<1>6. Cardinality(L) = Cardinality(R) /\ IsFiniteSet(L)
  <2>1. ExistsBijection(R, L)
    BY <1>5 DEF ExistsBijection
  <2> HIDE DEF L, R, f
  <2> QED
    BY <1>4, <2>1, FS_Bijection
<1>7. CASE Head(q).id = id /\ ~Head(q).error
  <2>1. Left(q, id) = L \cup {1} /\ 1 \notin L
    BY <1>1, <1>7 DEF Left
  <2>2. Cardinality(L \cup {1}) = Cardinality(L) + 1
    BY <1>6, <2>1, FS_AddElement
  <2> QED
    BY <1>6, <1>7, <2>1, <2>2
<1>8. CASE ~(Head(q).id = id /\ ~Head(q).error)
  <2>1. Left(q, id) = L
    BY <1>1, <1>8 DEF Left
  <2>2. Cardinality(R) \in Nat
    BY <1>1, LeftFinite
  <2>3. Cardinality(Left(q, id)) = Cardinality(R)
    BY <1>6, <2>1
  <2> HIDE DEF L
  <2> QED
    BY <1>8, <2>2, <2>3
<1> QED
  BY <1>7, <1>8

-----------------------------------------------------------------------------
(* The invariant *)

\* A try is the one its call is at, or an earlier one.
Now(t)  == call[t[1]].place = t[2]
Past(t) == t[2] < call[t[1]].place

\* A try has used a socket, and it has come to nothing.
Begun(t) ==
    \/ Past(t)
    \/ Now(t) /\ call[t[1]].at \in {"wait", "subscribed", "closed", "returned", "failed"}
Over(t) == Past(t) \/ (Now(t) /\ call[t[1]].at = "failed")

WaitsOn(t, s) == Now(t) /\ call[t[1]].at = "wait" /\ call[t[1]].socket = s
UpOn(t, s) ==
    Now(t) /\ call[t[1]].at \in {"wait", "subscribed"} /\ call[t[1]].socket = s

\* A try that was answered, but has no subscription, keeps its handler, too.
HoldsOn(t, s) ==
    UpOn(t, s) \/ (Now(t) /\ call[t[1]].at = "returned" /\ call[t[1]].socket = s)

\* What a call has at its step; a connection in the making is its own.
CallHolds(c) ==
    /\ call[c].place \in 0..Len(EndpointsOf[c])
    /\ call[c].at \notin {"new", "failed"} => call[c].place # 0
    /\ call[c].at = "connect" =>
          /\ call[c].socket \in Socket /\ socket[call[c].socket] = "connecting"
          /\ \A d \in Call \ {c} :
                call[d].at = "connect" => call[d].socket # call[c].socket
    /\ call[c].at \in {"wait", "subscribed"} =>
          /\ call[c].socket \in Socket
          /\ socket[call[c].socket] \in {"open", "closed"}
    /\ call[c].at = "wait" => IdOf(Tries(c), "request") \in handler[call[c].socket]
    /\ call[c].at = "subscribed" => c \in Subscribes

\* A socket that is not open carries nothing.
SocketsHold ==
    /\ \A e \in Endpoint : connection[e] # NoSocket =>
          socket[connection[e]] \in {"open", "closed"}
    /\ \A s \in Socket : ~IsOpen(s) =>
          /\ toServer[s] = << >> /\ toClient[s] = << >>
          /\ serves[s] = {} /\ owes[s] = {}

HandlersHold ==
    \A s \in Socket, t \in Try :
        /\ IdOf(t, "request") \in handler[s] => WaitsOn(t, s)
        /\ IdOf(t, "events") \in handler[s] =>
              t[1] \in Subscribes /\ (t \in expired \/ HoldsOn(t, s))

\* A try that is up without a handler for its events has had the last of them.
EndsHold(t) ==
    \A s \in Socket :
        /\ Ends(toClient[s], IdOf(t, "events"))
        /\ UpOn(t, s) /\ t[1] \in Subscribes /\ IdOf(t, "events") \notin handler[s] =>
              \A r \in Socket :
                 /\ t \notin serves[r]
                 /\ ~In(toServer[r], IdOf(t, "request"))
                 /\ ~Told(toClient[r], IdOf(t, "events"))

\* A request on its way is on its way once, and nothing has come of it.
AsksHold(t) ==
    \A s \in Socket :
        /\ ~In(toServer[s], IdOf(t, "events"))
        /\ In(toServer[s], IdOf(t, "request")) =>
              /\ t \in expired \/ WaitsOn(t, s)
              /\ Once(toServer[s], IdOf(t, "request"))
              /\ sent[t] = 0
              /\ \A r \in Socket :
                    /\ t \notin serves[r] /\ t \notin owes[r]
                    /\ ~Told(toClient[r], IdOf(t, "request"))
                    /\ ~Told(toClient[r], IdOf(t, "events"))
                    /\ In(toServer[r], IdOf(t, "request")) => r = s

\* A server serves a try on one socket, and has not told of its end.
ServesHold(t) ==
    \A s \in Socket : t \in serves[s] =>
        /\ t[1] \in Subscribes /\ Begun(t)
        /\ \/ t \in expired
           \/ In(toServer[s], IdOf(t, "close"))
           \/ UpOn(t, s)
        /\ \A r \in Socket :
              /\ t \in serves[r] \/ Told(toClient[r], IdOf(t, "events")) \/ UpOn(t, r)
                    => r = s
              /\ ~Refused(toClient[r], IdOf(t, "events"))

\* What a server has accepted it does not deny.
OwesHold(t) ==
    /\ \A s \in Socket : t \in owes[s] =>
          /\ t[1] \in Subscribes /\ Begun(t)
          /\ \A r \in Socket : UpOn(t, r) => r = s
    /\ sent[t] > 0 \/ (\E s \in Socket : t \in serves[s] \/ t \in owes[s]) =>
          \A r \in Socket : ~Denied(toClient[r], IdOf(t, "request"))

\* What comes back for a try comes back on one socket, the one it is up on.
RepliesHold(t) ==
    \A s \in Socket :
        /\ Told(toClient[s], IdOf(t, "request")) \/ Told(toClient[s], IdOf(t, "events"))
              => Begun(t)
        /\ \A r \in Socket :
              /\ UpOn(t, r)
                 /\ (Told(toClient[s], IdOf(t, "request"))
                     \/ Told(toClient[s], IdOf(t, "events"))) => r = s
              /\ Told(toClient[s], IdOf(t, "events"))
                 /\ Told(toClient[r], IdOf(t, "events")) => r = s

\* No event is given to a handler twice, and while the call is up none is lost.
\* An answer without a subscription is the only one.
CountsHold(t) ==
    /\ \A s \in Socket :
          /\ delivered[t] + Pending(s, t) <= sent[t]
          /\ UpOn(t, s) /\ IsOpen(s) => sent[t] = delivered[t] + Pending(s, t)
    /\ sent[t] > 0 => Begun(t) /\ t[1] \in Subscribes
    /\ delivered[t] > 0 =>
          t \in expired \/ (Now(t) /\ call[t[1]].at \in {"wait", "subscribed", "closed"})
    /\ Now(t) /\ call[t[1]].at = "returned" =>
          sent[t] = 0 /\ \A s \in Socket : t \notin serves[s]

NetHolds ==
    \A t \in Try : /\ EndsHold(t) /\ AsksHold(t) /\ ServesHold(t)
                   /\ OwesHold(t) /\ RepliesHold(t) /\ CountsHold(t)

RpcInvariant ==
    /\ TypeOK
    /\ \A c \in Call : CallHolds(c)
    /\ SocketsHold
    /\ HandlersHold
    /\ NetHolds
    /\ \A t \in expired : Over(t)

-----------------------------------------------------------------------------
(* Tries and their ids *)

LEMMA IdsApart ==
    /\ \A t \in Try, kind \in {"request", "events", "close"} : IdOf(t, kind) \in Id
    /\ \A t \in Try, u \in Try : \A k, l :
          IdOf(t, k) = IdOf(u, l) <=> t = u /\ k = l
    /\ \A id \in Id : /\ <<id.call, id.place>> \in Try
                      /\ id = IdOf(<<id.call, id.place>>, id.kind)
                      /\ id.kind \in {"request", "events", "close"}
<1>1. \A t \in Try, kind \in {"request", "events", "close"} : IdOf(t, kind) \in Id
  BY DEF IdOf, Id, Try
<1>2. ASSUME NEW t \in Try, NEW u \in Try, NEW k, NEW l, IdOf(t, k) = IdOf(u, l)
      PROVE  t = u /\ k = l
  <2>1. t[1] = u[1] /\ t[2] = u[2] /\ k = l
    BY <1>2 DEF IdOf
  <2> QED
    BY <2>1 DEF Try
<1>3. ASSUME NEW id \in Id
      PROVE  /\ <<id.call, id.place>> \in Try
             /\ id = IdOf(<<id.call, id.place>>, id.kind)
             /\ id.kind \in {"request", "events", "close"}
  BY DEF IdOf, Id, Try
<1> QED
  BY <1>1, <1>2, <1>3

LEMMA TriesApart ==
    ASSUME NEW c \in Call
    PROVE  /\ Tries(c)[1] = c /\ Tries(c)[2] = call[c].place
           /\ \A t \in Try : t[1] \in Call /\ t[2] \in Place
           /\ \A t \in Try : Tries(c) = t <=> t[1] = c /\ Now(t)
           /\ Now(Tries(c))
BY DEF Tries, Try, Now

LEMMA Places ==
    /\ Place \subseteq Nat \ {0}
    /\ \A c \in Call : /\ EndpointsOf[c] \in Seq(Endpoint)
                       /\ Len(EndpointsOf[c]) \in Nat
                       /\ DOMAIN EndpointsOf[c] = 1..Len(EndpointsOf[c])
                       /\ 1..Len(EndpointsOf[c]) \subseteq Place
<1>1. \A c \in Call : /\ EndpointsOf[c] \in Seq(Endpoint)
                      /\ Len(EndpointsOf[c]) \in Nat
                      /\ DOMAIN EndpointsOf[c] = 1..Len(EndpointsOf[c])
  BY RpcAssumption
<1> QED
  BY <1>1 DEF Place

CallType == [at : CallStep, place : Place \cup {0}, socket : Socket \cup {NoSocket}]

\* One call goes on, at its endpoint or to the next; what was begun or over stays
\* so.
Moved(c) ==
    /\ call' \in [Call -> CallType]
    /\ \A d \in Call \ {c} : call'[d] = call[d]
    /\ \/ /\ call'[c].place = call[c].place
          /\ call[c].at \in {"wait", "subscribed", "closed", "returned", "failed"} =>
                call'[c].at \in {"wait", "subscribed", "closed", "returned", "failed"}
          /\ call[c].at = "failed" => call'[c].at = "failed"
       \/ call'[c].place = call[c].place + 1

LEMMA MovedStays ==
    ASSUME TypeOK, NEW c \in Call, Moved(c), NEW t \in Try
    PROVE  /\ Begun(t) => Begun(t)'
           /\ Over(t) => Over(t)'
           /\ t[1] # c => /\ Now(t)' = Now(t)
                          /\ \A s : WaitsOn(t, s)' = WaitsOn(t, s)
                          /\ \A s : UpOn(t, s)' = UpOn(t, s)
<1>1. t[1] \in Call /\ t[2] \in Nat
  BY Places, TriesApart
<1>2. call[c].place \in Nat
  <2>1. call \in [Call -> CallType]
    BY DEF TypeOK, CallType
  <2>2. call[c].place \in Place \cup {0}
    BY <2>1 DEF CallType
  <2>3. \A p \in Place : p \in Nat
    BY Places
  <2> QED
    BY <2>2, <2>3
<1> QED
  BY <1>1, <1>2 DEF Moved, Begun, Over, Past, Now, WaitsOn, UpOn

LEMMA TryNextMoves ==
    ASSUME TypeOK, NEW c \in Call, CallHolds(c), TryNext(c)
    PROVE  /\ Moved(c)
           /\ call'[c].place \in 0..Len(EndpointsOf[c])
           /\ call'[c].at \in {"info", "send", "failed"}
           /\ \/ call'[c].at = "failed" /\ call'[c].place = call[c].place
              \/ /\ call'[c].at # "failed" /\ call'[c].place = call[c].place + 1
                 /\ call'[c].socket = NoSocket
<1> DEFINE n == Len(EndpointsOf[c])
<1>1. /\ call \in [Call -> CallType] /\ call[c].place \in 0..n /\ n \in Nat
      /\ 1..n \subseteq Place
  BY Places DEF TypeOK, CallHolds, CallType
<1> HIDE DEF n
<1>2. CASE call[c].place = n
  <2>1. call' = [call EXCEPT ![c].at = "failed"]
    BY <1>2 DEF TryNext, n
  <2> QED
    BY <1>1, <2>1 DEF Moved, CallType, CallStep, n
<1>3. CASE call[c].place # n
  <2>1. PICK at \in {"info", "send"} :
            call' = [call EXCEPT ![c] = [at |-> at, place |-> call[c].place + 1,
                                         socket |-> NoSocket]]
    BY <1>3 DEF TryNext, n
  <2>2. call[c].place + 1 \in 1..n
    BY <1>1, <1>3
  <2> QED
    BY <1>1, <2>1, <2>2 DEF Moved, CallType, CallStep, n
<1> QED
  BY <1>2, <1>3

-----------------------------------------------------------------------------
(* Tries that have not begun *)

LEMMA PendingIsLeft ==
    ASSUME TypeOK, NEW t \in Try, NEW s \in Socket
    PROVE  /\ Pending(s, t) = Cardinality(Left(toClient[s], IdOf(t, "events")))
           /\ Pending(s, t) \in Nat
<1>1. toClient[s] \in Seq(Response)
  BY DEF TypeOK
<1>2. Pending(s, t) = Cardinality(Left(toClient[s], IdOf(t, "events")))
  BY DEF Pending, Left
<1> QED
  BY <1>1, <1>2, LeftFinite

\* A try that has not begun has left no trace.
LEMMA FreshTry ==
    ASSUME RpcInvariant, NEW t \in Try, ~Begun(t)
    PROVE  /\ t \notin expired /\ sent[t] = 0 /\ delivered[t] = 0
           /\ \A s \in Socket :
                 /\ ~WaitsOn(t, s) /\ ~UpOn(t, s) /\ ~HoldsOn(t, s)
                 /\ IdOf(t, "request") \notin handler[s]
                 /\ IdOf(t, "events") \notin handler[s]
                 /\ ~In(toServer[s], IdOf(t, "request"))
                 /\ t \notin serves[s] /\ t \notin owes[s]
                 /\ ~Told(toClient[s], IdOf(t, "request"))
                 /\ ~Told(toClient[s], IdOf(t, "events"))
                 /\ Pending(s, t) = 0
<1> USE DEF RpcInvariant
<1>1. t \notin expired
  BY DEF Over, Begun
<1>2. ~(sent[t] > 0)
  BY DEF NetHolds, CountsHold
<1>3. /\ sent[t] \in 0..MaxEvent /\ delivered[t] \in 0..MaxEvent /\ MaxEvent \in Nat
      /\ sent[t] \in Nat /\ delivered[t] \in Nat
  BY RpcAssumption DEF TypeOK
<1>4. ~(delivered[t] > 0)
  BY <1>1 DEF NetHolds, CountsHold, Begun
<1>5. sent[t] = 0 /\ delivered[t] = 0
  BY <1>2, <1>3, <1>4
<1>6. \A s : ~WaitsOn(t, s) /\ ~UpOn(t, s) /\ ~HoldsOn(t, s)
  BY DEF WaitsOn, UpOn, HoldsOn, Begun
<1>7. ASSUME NEW s \in Socket PROVE Pending(s, t) = 0
  <2>1. delivered[t] + Pending(s, t) <= sent[t]
    BY DEF NetHolds, CountsHold
  <2>2. Pending(s, t) \in Nat
    BY PendingIsLeft
  <2> QED
    BY <1>5, <2>1, <2>2
<1>8. \A s \in Socket : ~In(toServer[s], IdOf(t, "request"))
  BY <1>1, <1>6 DEF NetHolds, AsksHold
<1>9. \A s \in Socket : t \notin serves[s] /\ t \notin owes[s]
  BY DEF NetHolds, ServesHold, OwesHold
<1>10. \A s \in Socket : /\ ~Told(toClient[s], IdOf(t, "request"))
                         /\ ~Told(toClient[s], IdOf(t, "events"))
  BY DEF NetHolds, RepliesHold
<1>11. \A s \in Socket : /\ IdOf(t, "request") \notin handler[s]
                         /\ IdOf(t, "events") \notin handler[s]
  BY <1>1, <1>6 DEF HandlersHold
<1> QED
  BY <1>1, <1>5, <1>6, <1>7, <1>8, <1>9, <1>10, <1>11

-----------------------------------------------------------------------------
(* Steps that leave the network alone *)

\* What the network carries stays accounted for when no call begins to wait, and
\* what a call no longer has is over.
LEMMA NetStays ==
    ASSUME NetHolds, UNCHANGED <<toServer, toClient, serves, owes, sent, delivered>>,
           expired \subseteq expired',
           \A t \in Try :
              /\ Begun(t) => Begun(t)'
              /\ \A s \in Socket :
                    /\ WaitsOn(t, s)' => WaitsOn(t, s)
                    /\ UpOn(t, s)' => UpOn(t, s)
                    /\ WaitsOn(t, s) => WaitsOn(t, s)' \/ t \in expired'
                    /\ UpOn(t, s) => UpOn(t, s)' \/ t \in expired'
                    /\ IdOf(t, "events") \in handler[s] => IdOf(t, "events") \in handler'[s]
              /\ Now(t) /\ call[t[1]].at \in {"wait", "subscribed", "closed"} =>
                    \/ t \in expired'
                    \/ (Now(t) /\ call[t[1]].at \in {"wait", "subscribed", "closed"})'
              /\ (Now(t) /\ call[t[1]].at = "returned")' =>
                    \/ Now(t) /\ call[t[1]].at = "returned"
                    \/ sent[t] = 0 /\ \A s \in Socket : t \notin serves[s],
           \A s \in Socket : socket'[s] = "open" => socket[s] = "open"
    PROVE  NetHolds'
<1>1. SUFFICES ASSUME NEW t \in Try
               PROVE  (EndsHold(t) /\ AsksHold(t) /\ ServesHold(t) /\ OwesHold(t)
                          /\ RepliesHold(t) /\ CountsHold(t))'
  BY DEF NetHolds
<1>2. /\ EndsHold(t) /\ AsksHold(t) /\ ServesHold(t)
      /\ OwesHold(t) /\ RepliesHold(t) /\ CountsHold(t)
  BY DEF NetHolds
<1>3. AsksHold(t)'
  BY <1>2 DEF AsksHold
<1>4. ServesHold(t)'
  BY <1>2 DEF ServesHold
<1>5. RepliesHold(t)'
  BY <1>2 DEF RepliesHold
<1>6. \A s : Pending(s, t)' = Pending(s, t)
  BY DEF Pending
<1>7. CountsHold(t)'
  BY <1>2, <1>6 DEF CountsHold, IsOpen
<1>8. EndsHold(t)'
  BY <1>2 DEF EndsHold
<1>9. OwesHold(t)'
  BY <1>2 DEF OwesHold
<1> QED
  BY <1>3, <1>4, <1>5, <1>7, <1>8, <1>9

\* A call that has not used a socket for its try goes on.
LEMMA QuietStep ==
    ASSUME RpcInvariant, NEW c \in Call, Moved(c),
           call[c].at \notin {"wait", "subscribed", "closed", "returned"},
           call'[c].at \notin {"wait", "subscribed", "closed"},
           call'[c].at = "returned" =>
              call'[c].place = call[c].place /\ call[c].at # "failed",
           UNCHANGED <<connection, handler, toServer, toClient, serves, owes, sent,
                       delivered, expired>>,
           socket' \in [Socket -> {"none", "connecting", "open", "closed"}],
           \A s \in Socket : socket[s] \in {"open", "closed"} => socket'[s] = socket[s],
           \A s \in Socket : socket'[s] = "open" => socket[s] = "open",
           \A d \in Call : CallHolds(d)'
    PROVE  RpcInvariant'
<1> USE DEF RpcInvariant
<1>1. TypeOK'
  BY DEF TypeOK, Moved, CallType
<1>2. ASSUME NEW t \in Try
      PROVE  /\ Begun(t) => Begun(t)'
             /\ Over(t) => Over(t)'
             /\ Now(t) /\ call[t[1]].at \in {"wait", "subscribed", "closed"} =>
                  (Now(t) /\ call[t[1]].at \in {"wait", "subscribed", "closed"})'
             /\ Now(t) /\ call[t[1]].at = "returned" =>
                  (Now(t) /\ call[t[1]].at = "returned")'
             /\ (Now(t) /\ call[t[1]].at = "returned")' =>
                   \/ Now(t) /\ call[t[1]].at = "returned"
                   \/ sent[t] = 0 /\ \A s \in Socket : t \notin serves[s]
             /\ \A s \in Socket :
                   /\ WaitsOn(t, s)' = WaitsOn(t, s)
                   /\ UpOn(t, s)' = UpOn(t, s)
                   /\ HoldsOn(t, s) => HoldsOn(t, s)'
  <2>1. CASE t[1] = c
    <3>1. /\ Begun(t) => Begun(t)'
          /\ Over(t) => Over(t)'
      BY MovedStays
    <3>2. /\ ~(call[t[1]].at \in {"wait", "subscribed", "closed", "returned"})
          /\ ~(call'[t[1]].at \in {"wait", "subscribed", "closed"})
      BY <2>1
    <3>3. ASSUME Now(t)', call'[t[1]].at = "returned"
          PROVE  sent[t] = 0 /\ \A s \in Socket : t \notin serves[s]
      <4>1. t[2] = call[c].place /\ call[c].at # "failed" /\ t[2] \in Nat
        BY <2>1, <3>3, Places, TriesApart DEF Now
      <4>2. ~Begun(t)
        BY <2>1, <3>2, <4>1 DEF Begun, Past, Now
      <4> QED
        BY <4>2, FreshTry
    <3> QED
      BY <3>1, <3>2, <3>3 DEF WaitsOn, UpOn, HoldsOn
  <2>2. CASE t[1] # c
    <3>1. /\ Begun(t) => Begun(t)'
          /\ Over(t) => Over(t)'
          /\ Now(t)' = Now(t)
          /\ \A s : WaitsOn(t, s)' = WaitsOn(t, s)
          /\ \A s : UpOn(t, s)' = UpOn(t, s)
      BY <2>2, MovedStays
    <3>2. call'[t[1]] = call[t[1]]
      BY <2>2, TriesApart DEF Moved
    <3> QED
      BY <3>1, <3>2 DEF HoldsOn
  <2> QED
    BY <2>1, <2>2
<1>3. \A t \in expired : t \in Try
  BY DEF TypeOK
<1>4. NetHolds'
  <2>1. NetHolds /\ expired \subseteq expired' /\ handler' = handler
    OBVIOUS
  <2>2. \A t \in Try :
              /\ Begun(t) => Begun(t)'
              /\ \A s \in Socket :
                    /\ WaitsOn(t, s)' => WaitsOn(t, s)
                    /\ UpOn(t, s)' => UpOn(t, s)
                    /\ WaitsOn(t, s) => WaitsOn(t, s)' \/ t \in expired'
                    /\ UpOn(t, s) => UpOn(t, s)' \/ t \in expired'
                    /\ IdOf(t, "events") \in handler[s] => IdOf(t, "events") \in handler'[s]
    BY <1>2, <2>1
  <2> HIDE DEF RpcInvariant
  <2> QED
    BY <1>2, <2>1, <2>2, NetStays
<1>5. SocketsHold'
  <2>1. \A e \in Endpoint : connection[e] # NoSocket => connection[e] \in Socket
    BY DEF TypeOK
  <2> QED
    BY <2>1 DEF SocketsHold, IsOpen
<1>6. HandlersHold'
  <2>1. handler' = handler /\ expired' = expired /\ HandlersHold
    OBVIOUS
  <2>2. \A t \in Try, s \in Socket :
           /\ WaitsOn(t, s) => WaitsOn(t, s)'
           /\ HoldsOn(t, s) => HoldsOn(t, s)'
    BY <1>2
  <2> QED
    BY <2>1, <2>2 DEF HandlersHold
<1>7. \A t \in expired' : Over(t)'
  BY <1>2, <1>3
<1> QED
  BY <1>1, <1>4, <1>5, <1>6, <1>7

\* To the next endpoint, or to the end.
LEMMA QuietNext ==
    ASSUME RpcInvariant, NEW c \in Call, TryNext(c),
           call[c].at \notin {"wait", "subscribed", "closed", "returned"},
           UNCHANGED <<connection, handler, toServer, toClient, serves, owes, sent,
                       delivered, expired>>,
           socket' \in [Socket -> {"none", "connecting", "open", "closed"}],
           \A s \in Socket : socket'[s] = socket[s]
              \/ (call[c].at = "connect" /\ s = call[c].socket /\ socket'[s] = "closed")
    PROVE  RpcInvariant'
<1> USE DEF RpcInvariant
<1>1. /\ Moved(c) /\ call'[c].place \in 0..Len(EndpointsOf[c])
      /\ call'[c].at \in {"info", "send", "failed"}
      /\ call'[c].at # "failed" => call'[c].place = call[c].place + 1
  BY TryNextMoves
<1>2. call[c].place \in 0..Len(EndpointsOf[c]) /\ Len(EndpointsOf[c]) \in Nat
  BY Places DEF CallHolds
<1>3. CallHolds(c)'
  BY <1>1, <1>2 DEF CallHolds
<1>4. ASSUME NEW d \in Call, d # c PROVE CallHolds(d)'
  <2>1. call'[d] = call[d] /\ CallHolds(d)
    BY <1>1, <1>4 DEF Moved
  <2>2. Tries(d)' = Tries(d)
    BY <2>1 DEF Tries
  <2>3. call[d].at \in {"wait", "subscribed", "connect"} => call[d].socket \in Socket
           /\ socket'[call[d].socket] = socket[call[d].socket]
    BY <1>4, <2>1 DEF CallHolds
  <2>4. \A e \in Call \ {d} : call'[e].at = "connect" =>
           call[e].at = "connect" /\ call'[e] = call[e]
    BY <1>1 DEF Moved
  <2> QED
    BY <2>1, <2>2, <2>3, <2>4 DEF CallHolds
<1>5. \A s \in Socket : socket[s] \in {"open", "closed"} => socket'[s] = socket[s]
  BY DEF CallHolds
<1>6. \A d \in Call : CallHolds(d)'
  BY <1>3, <1>4
<1>7. call'[c].at \notin {"wait", "subscribed", "closed"}
  BY <1>1
<1> QED
  BY <1>1, <1>5, <1>6, <1>7, QuietStep

\* On at the same endpoint.
LEMMA QuietGoto ==
    ASSUME RpcInvariant, NEW c \in Call, NEW step \in {"send", "fetch", "returned"},
           Goto(c, step), call[c].at \in {"info", "send", "fetch"},
           UNCHANGED <<net, sent, delivered, expired>>
    PROVE  RpcInvariant'
<1> USE DEF RpcInvariant
<1>1. call \in [Call -> CallType] /\ step \in CallStep
  BY DEF TypeOK, CallType, CallStep
<1>2. /\ call'[c].at = step /\ call'[c].place = call[c].place
      /\ call'[c].socket = call[c].socket
      /\ call' \in [Call -> CallType]
      /\ \A d \in Call \ {c} : call'[d] = call[d]
  BY <1>1 DEF Goto, CallType
<1>3. Moved(c)
  BY <1>2 DEF Moved
<1>4. UNCHANGED <<socket, connection, handler, toServer, toClient, serves, owes>>
  BY DEF net
<1>5. CallHolds(c)'
  BY <1>2 DEF CallHolds
<1>6. ASSUME NEW d \in Call, d # c PROVE CallHolds(d)'
  <2>1. call'[d] = call[d] /\ CallHolds(d) /\ Tries(d)' = Tries(d)
    BY <1>2, <1>6 DEF Tries
  <2>2. \A e \in Call \ {d} : call'[e].at = "connect" =>
           call[e].at = "connect" /\ call'[e] = call[e]
    BY <1>2
  <2> QED
    BY <1>4, <2>1, <2>2 DEF CallHolds
<1>7. \A d \in Call : CallHolds(d)'
  BY <1>5, <1>6
<1>8. socket' \in [Socket -> {"none", "connecting", "open", "closed"}]
  BY <1>4 DEF TypeOK
<1>9. /\ call'[c].at \notin {"wait", "subscribed", "closed"}
      /\ call[c].at \notin {"wait", "subscribed", "closed", "returned", "failed"}
  BY <1>2
<1> QED
  BY <1>2, <1>3, <1>4, <1>7, <1>8, <1>9, QuietStep

LEMMA QuietActionsKeep ==
    ASSUME RpcInvariant, NEW c \in Call,
           SendRequest(c) \/ GetServerInfo(c) \/ SendHttp(c) \/ Fetched(c)
              \/ ConnectError(c)
    PROVE  RpcInvariant'
<1>1. socket \in [Socket -> {"none", "connecting", "open", "closed"}]
  BY DEF RpcInvariant, TypeOK
<1>2. CASE SendRequest(c)
  BY <1>1, <1>2, QuietNext DEF SendRequest, At, net
<1>3. CASE GetServerInfo(c)
  <2>1. CASE Goto(c, "send")
    BY <1>3, <2>1, QuietGoto DEF GetServerInfo, At
  <2>2. CASE TryNext(c)
    BY <1>1, <1>3, <2>2, QuietNext DEF GetServerInfo, At, net
  <2> QED
    BY <1>3, <2>1, <2>2 DEF GetServerInfo
<1>4. CASE SendHttp(c)
  BY <1>4, QuietGoto DEF SendHttp, At
<1>5. CASE Fetched(c)
  <2>1. CASE Goto(c, "returned")
    BY <1>5, <2>1, QuietGoto DEF Fetched, At
  <2>2. CASE TryNext(c)
    BY <1>1, <1>5, <2>2, QuietNext DEF Fetched, At, net
  <2> QED
    BY <1>5, <2>1, <2>2 DEF Fetched
<1>6. CASE ConnectError(c)
  <2>1. /\ call[c].at = "connect" /\ TryNext(c)
        /\ socket' = [socket EXCEPT ![call[c].socket] = "closed"]
        /\ UNCHANGED <<connection, handler, toServer, toClient, serves, owes, sent,
                       delivered, expired>>
    BY <1>6 DEF ConnectError, At
  <2>2. /\ socket' \in [Socket -> {"none", "connecting", "open", "closed"}]
        /\ \A s \in Socket : socket'[s] = socket[s]
              \/ (s = call[c].socket /\ socket'[s] = "closed")
    BY <1>1, <2>1
  <2> QED
    BY <2>1, <2>2, QuietNext
<1> QED
  BY <1>2, <1>3, <1>4, <1>5, <1>6

\* A set of natural numbers has a least one.
LEMMA LeastExists ==
    ASSUME NEW S \in SUBSET Nat, S # {}
    PROVE  \E x \in S : \A y \in S : x <= y
<1> DEFINE T == {0..x : x \in S}
<1>1. T \subseteq FiniteSubsetsOf(Nat) /\ T # {}
  <2>1. \A x \in S : IsFiniteSet(0..x) /\ 0..x \in SUBSET Nat
    BY FS_Interval
  <2> QED
    BY <2>1 DEF FiniteSubsetsOf
<1>2. PICK a \in T : \A b \in T : <<b, a>> \notin StrictSubsetOrdering(Nat)
  <2> HIDE DEF T
  <2> QED
    BY <1>1, FS_StrictSubsetOrderingWellFounded, WFMin
<1>3. PICK x \in S : a = 0..x
  OBVIOUS
<1>4. ASSUME NEW y \in S, ~(x <= y) PROVE FALSE
  <2>1. 0..y \subseteq 0..x /\ x \in 0..x /\ x \notin 0..y
    BY <1>4
  <2>2. 0..y \in SUBSET Nat /\ 0..x \in SUBSET Nat
    OBVIOUS
  <2>3. <<0..y, 0..x>> \in StrictSubsetOrdering(Nat)
    BY <2>1, <2>2 DEF StrictSubsetOrdering
  <2>4. 0..y \in T
    OBVIOUS
  <2> QED
    BY <1>2, <1>3, <2>3, <2>4
<1> QED
  BY <1>4

LEMMA ConnectKeeps ==
    ASSUME RpcInvariant, NEW c \in Call, Connect(c)
    PROVE  RpcInvariant'
<1> USE DEF RpcInvariant
<1> DEFINE new == {s \in Socket : socket[s] = "none"}
<1>1. PICK s \in new :
          /\ call[c].at = "send"
          /\ socket' = [socket EXCEPT ![s] = "connecting"]
          /\ call' = [call EXCEPT ![c].at = "connect", ![c].socket = s]
          /\ UNCHANGED <<connection, handler, toServer, toClient, serves, owes,
                         sent, delivered, expired>>
  <2>1. new # {} /\ new \in SUBSET Nat
    BY DEF Connect, Socket
  <2>2. \E n \in new : \A m \in new : n <= m
    <3> HIDE DEF new
    <3> QED
      BY <2>1, LeastExists
  <2>3. (CHOOSE n \in new : \A m \in new : n <= m) \in new
    BY <2>2
  <2> QED
    BY <2>3 DEF Connect, At
<1>2. call \in [Call -> CallType] /\ s \in Socket /\ socket[s] = "none"
  BY DEF TypeOK, CallType
<1>3. /\ call'[c].at = "connect" /\ call'[c].place = call[c].place
      /\ call'[c].socket = s
      /\ call' \in [Call -> CallType]
      /\ \A d \in Call \ {c} : call'[d] = call[d]
  BY <1>1, <1>2 DEF CallType, CallStep
<1>4. Moved(c)
  BY <1>1, <1>3 DEF Moved
<1>5. /\ socket' \in [Socket -> {"none", "connecting", "open", "closed"}]
      /\ socket'[s] = "connecting"
      /\ \A r \in Socket \ {s} : socket'[r] = socket[r]
  BY <1>1, <1>2 DEF TypeOK
<1> HIDE DEF new
<1>6. CallHolds(c)'
  <2>1. \A d \in Call \ {c} : call[d].at = "connect" => call[d].socket # s
    BY <1>2 DEF CallHolds
  <2>2. call[c].place \in 0..Len(EndpointsOf[c]) /\ call[c].place # 0
    BY <1>1 DEF CallHolds
  <2> QED
    BY <1>2, <1>3, <1>5, <2>1, <2>2 DEF CallHolds
<1>7. ASSUME NEW d \in Call, d # c PROVE CallHolds(d)'
  <2>1. call'[d] = call[d] /\ CallHolds(d) /\ Tries(d)' = Tries(d)
    BY <1>3, <1>7 DEF Tries
  <2>2. call[d].at \in {"connect", "wait", "subscribed"} =>
           /\ call[d].socket \in Socket \ {s}
           /\ socket'[call[d].socket] = socket[call[d].socket]
    BY <1>2, <1>5, <2>1 DEF CallHolds
  <2>3. \A e \in Call \ {d} : call'[e].at = "connect" =>
           e = c \/ (call[e].at = "connect" /\ call'[e] = call[e])
    BY <1>3
  <2>4. UNCHANGED handler
    BY <1>1
  <2> QED
    BY <1>3, <2>1, <2>2, <2>3, <2>4 DEF CallHolds
<1>8. \A d \in Call : CallHolds(d)'
  BY <1>6, <1>7
<1>9. \A r \in Socket : (socket[r] \in {"open", "closed"} => socket'[r] = socket[r])
                        /\ (socket'[r] = "open" => socket[r] = "open")
  BY <1>2, <1>5
<1> QED
  BY <1>1, <1>3, <1>4, <1>5, <1>8, <1>9, QuietStep

\* The try whose request has timed out is over; its handler of events may stay.
LEMMA TimeoutKeeps ==
    ASSUME RpcInvariant, NEW c \in Call, Timeout(c)
    PROVE  RpcInvariant'
<1> USE DEF RpcInvariant
<1>1. PICK s, t : s = call[c].socket /\ t = Tries(c)
  OBVIOUS
<1>2. /\ call[c].at = "wait" /\ TryNext(c)
      /\ handler' = [handler EXCEPT ![s] = @ \ {IdOf(t, "request")}]
      /\ expired' = expired \cup {t}
      /\ UNCHANGED <<socket, connection, toServer, toClient, serves, owes, sent, delivered>>
  BY <1>1 DEF Timeout, At
<1>3. /\ s \in Socket /\ CallHolds(c)
      /\ call[c].place \in 0..Len(EndpointsOf[c]) /\ call[c].place # 0
      /\ Len(EndpointsOf[c]) \in Nat
  BY <1>1, <1>2, Places DEF CallHolds
<1>4. t \in Try /\ t[1] = c /\ t[2] = call[c].place
  <2>1. call[c].place \in Place
    BY <1>3, Places
  <2> QED
    BY <1>1, <2>1 DEF Tries, Try
<1>5. /\ Moved(c)
      /\ call'[c].place \in 0..Len(EndpointsOf[c])
      /\ call'[c].at \in {"info", "send", "failed"}
      /\ \/ call'[c].at = "failed" /\ call'[c].place = call[c].place
         \/ call'[c].at # "failed" /\ call'[c].place = call[c].place + 1
  BY <1>2, <1>3, TryNextMoves
<1>6. /\ handler' \in [Socket -> SUBSET Id]
      /\ handler'[s] = handler[s] \ {IdOf(t, "request")}
      /\ \A r \in Socket \ {s} : handler'[r] = handler[r]
  BY <1>2, <1>3 DEF TypeOK
<1>7. TypeOK'
  BY <1>2, <1>4, <1>5, <1>6 DEF TypeOK, Moved, CallType
<1>8. ASSUME NEW u \in Try
      PROVE  /\ Begun(u) => Begun(u)'
             /\ Over(u) => Over(u)'
             /\ \A r : WaitsOn(u, r) => u = t \/ WaitsOn(u, r)'
             /\ \A r : UpOn(u, r) => u = t \/ UpOn(u, r)'
             /\ \A r : HoldsOn(u, r) => u = t \/ HoldsOn(u, r)'
             /\ \A r : WaitsOn(u, r)' => WaitsOn(u, r) /\ u # t
             /\ \A r : UpOn(u, r)' => UpOn(u, r) /\ u # t
             /\ Now(u) /\ call[u[1]].at \in {"wait", "subscribed", "closed"} =>
                   \/ u = t
                   \/ (Now(u) /\ call[u[1]].at \in {"wait", "subscribed", "closed"})'
             /\ (Now(u) /\ call[u[1]].at = "returned")' =>
                   Now(u) /\ call[u[1]].at = "returned"
  <2>1. (Begun(u) => Begun(u)') /\ (Over(u) => Over(u)')
    BY <1>5, MovedStays
  <2>2. CASE u[1] = c
    <3>1. Now(u) => u = t
      BY <1>1, <2>2, TriesApart
    <3> QED
      BY <1>2, <1>5, <2>1, <2>2, <3>1 DEF WaitsOn, UpOn, HoldsOn
  <2>3. CASE u[1] # c
    <3>1. call'[u[1]] = call[u[1]]
      BY <1>4, <1>5, <2>3, TriesApart DEF Moved
    <3>2. u # t
      BY <1>4, <2>3
    <3>3. /\ Now(u)' = Now(u)
          /\ \A r : WaitsOn(u, r)' = WaitsOn(u, r)
          /\ \A r : UpOn(u, r)' = UpOn(u, r)
      BY <1>5, <2>3, MovedStays
    <3>4. \A r : HoldsOn(u, r)' = HoldsOn(u, r)
      BY <3>1, <3>3 DEF HoldsOn
    <3> QED
      BY <2>1, <3>1, <3>2, <3>3, <3>4
  <2> QED
    BY <2>2, <2>3
<1>9. CallHolds(c)'
  BY <1>3, <1>5 DEF CallHolds
<1>10. ASSUME NEW d \in Call, d # c PROVE CallHolds(d)'
  <2>1. call'[d] = call[d] /\ CallHolds(d) /\ Tries(d)' = Tries(d)
    BY <1>5, <1>10 DEF Moved, Tries
  <2>2. \A e \in Call \ {d} : call'[e].at = "connect" =>
           call[e].at = "connect" /\ call'[e] = call[e]
    BY <1>5 DEF Moved
  <2>3. \A k : IdOf(Tries(d), k) # IdOf(t, "request")
    BY <1>4, <1>10 DEF IdOf, Tries
  <2>4. \A r \in Socket : \A k : IdOf(Tries(d), k) \in handler[r] =>
                             IdOf(Tries(d), k) \in handler'[r]
    BY <1>6, <2>3
  <2> QED
    BY <1>2, <2>1, <2>2, <2>4 DEF CallHolds
<1>11. SocketsHold'
  BY <1>2 DEF SocketsHold, IsOpen
<1>12. HandlersHold'
  <2>1. SUFFICES ASSUME NEW r \in Socket, NEW u \in Try
                 PROVE  /\ IdOf(u, "request") \in handler'[r] => WaitsOn(u, r)'
                        /\ IdOf(u, "events") \in handler'[r] =>
                              u[1] \in Subscribes /\ (u \in expired' \/ HoldsOn(u, r)')
    BY DEF HandlersHold
  <2>2. handler'[r] \subseteq handler[r]
    BY <1>6
  <2>3. WaitsOn(t, r) => r = s
    BY <1>1, <1>4 DEF WaitsOn
  <2> QED
    BY <1>2, <1>6, <1>8, <2>2, <2>3 DEF HandlersHold
<1>13. NetHolds'
  <2>1. \A u \in Try, r \in Socket :
            /\ WaitsOn(u, r) => WaitsOn(u, r)' \/ u \in expired'
            /\ UpOn(u, r) => UpOn(u, r)' \/ u \in expired'
            /\ IdOf(u, "events") \in handler[r] => IdOf(u, "events") \in handler'[r]
    <3>1. \A u \in Try : IdOf(u, "events") # IdOf(t, "request")
      BY <1>4, IdsApart
    <3> QED
      BY <1>2, <1>6, <1>8, <3>1
  <2>2. \A u \in Try : Now(u) /\ call[u[1]].at \in {"wait", "subscribed", "closed"} =>
           \/ u \in expired'
           \/ (Now(u) /\ call[u[1]].at \in {"wait", "subscribed", "closed"})'
    BY <1>2, <1>8
  <2>3. NetHolds /\ expired \subseteq expired'
    BY <1>2
  <2> HIDE DEF RpcInvariant
  <2> QED
    BY <1>2, <1>8, <2>1, <2>2, <2>3, NetStays
<1>14. \A u \in expired' : Over(u)'
  <2>1. Over(t)'
    BY <1>3, <1>4, <1>5 DEF Over, Past, Now
  <2> QED
    BY <1>2, <1>8, <2>1 DEF TypeOK
<1> QED
  BY <1>7, <1>9, <1>10, <1>11, <1>12, <1>13, <1>14

LEMMA CloseTimeoutKeeps ==
    ASSUME RpcInvariant, NEW s \in Socket, NEW id \in handler[s], CloseTimeout(s, id)
    PROVE  RpcInvariant'
<1> USE DEF RpcInvariant
<1>1. /\ id.kind = "close"
      /\ handler' = [handler EXCEPT ![s] = @ \ {id}]
      /\ UNCHANGED <<call, socket, connection, toServer, toClient, serves, owes, sent,
                     delivered, expired>>
  BY DEF CloseTimeout
<1>2. /\ handler' \in [Socket -> SUBSET Id]
      /\ \A r \in Socket : handler'[r] \subseteq handler[r]
      /\ \A r \in Socket : \A x \in handler[r] : x.kind # "close" => x \in handler'[r]
  BY <1>1 DEF TypeOK
<1>3. TypeOK'
  BY <1>1, <1>2 DEF TypeOK
<1>4. \A t, k : IdOf(t, k).kind = k
  BY DEF IdOf
<1>5. \A t : /\ (Begun(t))' = Begun(t) /\ (Over(t))' = Over(t)
             /\ \A r : (WaitsOn(t, r))' = WaitsOn(t, r) /\ (UpOn(t, r))' = UpOn(t, r)
             /\ \A r : (HoldsOn(t, r))' = HoldsOn(t, r)
             /\ (Now(t))' = Now(t)
  BY <1>1 DEF Begun, Over, Past, Now, WaitsOn, UpOn, HoldsOn
<1>6. \A c \in Call : CallHolds(c)'
  BY <1>1, <1>2, <1>4 DEF CallHolds, Tries
<1>7. SocketsHold'
  BY <1>1 DEF SocketsHold, IsOpen
<1>8. HandlersHold'
  BY <1>1, <1>2, <1>5 DEF HandlersHold
<1>9. NetHolds'
  <2>1. \A t \in Try, r \in Socket :
           IdOf(t, "events") \in handler[r] => IdOf(t, "events") \in handler'[r]
    BY <1>2, <1>4
  <2>2. NetHolds
    OBVIOUS
  <2> HIDE DEF RpcInvariant
  <2> QED
    BY <1>1, <1>5, <2>1, <2>2, NetStays
<1> QED
  BY <1>1, <1>3, <1>5, <1>6, <1>7, <1>8, <1>9

-----------------------------------------------------------------------------
(* A request begins *)

\* A call waits for the response to a request it has sent, or has lost, with its
\* handlers set.
LEMMA WaitBegins ==
    ASSUME RpcInvariant, NEW c \in Call, NEW s \in Socket,
           call[c].at \in {"send", "connect"}, Waits(c, s),
           UNCHANGED <<toClient, serves, owes, sent, delivered, expired>>,
           connection' \in [Endpoint -> Socket \cup {NoSocket}],
           \A e \in Endpoint : connection'[e] \in {connection[e], s},
           socket' \in [Socket -> {"none", "connecting", "open", "closed"}],
           socket'[s] \in {"open", "closed"},
           \/ socket'[s] = socket[s]
           \/ call[c].at = "connect" /\ call[c].socket = s /\ socket'[s] = "open",
           \A r \in Socket \ {s} : socket'[r] = socket[r],
           handler' \in [Socket -> SUBSET Id],
           \A r \in Socket \ {s} : handler'[r] = handler[r],
           Handlers(c) \subseteq handler'[s],
           handler'[s] \subseteq handler[s] \cup Handlers(c),
           handler[s] \subseteq handler'[s] \/ socket[s] = "connecting",
           toServer' \in [Socket -> Seq(Id)],
           \A r \in Socket \ {s} : toServer'[r] = toServer[r],
           \/ socket'[s] # "open" /\ toServer'[s] = toServer[s]
           \/ /\ socket'[s] = "open"
              /\ toServer'[s] = Append(toServer[s], IdOf(Tries(c), "request"))
    PROVE  RpcInvariant'
<1> USE DEF RpcInvariant
<1>1. PICK t : t = Tries(c)
  OBVIOUS
<1>2. /\ call \in [Call -> CallType] /\ CallHolds(c)
      /\ call[c].place \in 0..Len(EndpointsOf[c]) /\ call[c].place # 0
      /\ Len(EndpointsOf[c]) \in Nat
  BY Places DEF TypeOK, CallType, CallHolds
<1>3. /\ call' \in [Call -> CallType]
      /\ call'[c].at = "wait" /\ call'[c].socket = s
      /\ call'[c].place = call[c].place
      /\ \A d \in Call \ {c} : call'[d] = call[d]
  BY <1>2 DEF Waits, CallType, CallStep
<1>4. Moved(c)
  BY <1>3 DEF Moved
<1>5. /\ t \in Try /\ t[1] = c /\ t[2] = call[c].place
      /\ IdOf(t, "request") \in Id
  <2>1. call[c].place \in Place
    BY <1>2, Places
  <2>2. t \in Try /\ t[1] = c /\ t[2] = call[c].place
    BY <1>1, <2>1 DEF Tries, Try
  <2> QED
    BY <2>2, IdsApart
<1>6. ~Begun(t)
  BY <1>2, <1>5 DEF Begun, Past, Now
<1>7. TypeOK'
  BY <1>3 DEF TypeOK, CallType
<1>8. ASSUME NEW u \in Try
      PROVE  /\ Begun(u) => Begun(u)'
             /\ Over(u) => Over(u)'
             /\ u # t => /\ \A r : WaitsOn(u, r)' = WaitsOn(u, r)
                         /\ \A r : UpOn(u, r)' = UpOn(u, r)
             /\ u # t => /\ \A r : HoldsOn(u, r)' = HoldsOn(u, r)
                         /\ Now(u)' = Now(u)
                         /\ Now(u) => call'[u[1]] = call[u[1]]
  <2>1. (Begun(u) => Begun(u)') /\ (Over(u) => Over(u)')
    BY <1>4, MovedStays
  <2>2. CASE u[1] = c
    <3>1. (Now(u))' = Now(u) /\ (Now(u) <=> u = t)
      BY <1>1, <1>3, <2>2, TriesApart DEF Now
    <3> QED
      BY <2>1, <2>2, <3>1 DEF WaitsOn, UpOn, HoldsOn
  <2>3. CASE u[1] # c
    <3>1. call'[u[1]] = call[u[1]]
      BY <1>3, <2>3, TriesApart
    <3>2. /\ Now(u)' = Now(u)
          /\ \A r : WaitsOn(u, r)' = WaitsOn(u, r)
          /\ \A r : UpOn(u, r)' = UpOn(u, r)
      BY <1>4, <2>3, MovedStays
    <3>3. \A r : HoldsOn(u, r)' = HoldsOn(u, r)
      BY <3>1, <3>2 DEF HoldsOn
    <3> QED
      BY <2>1, <3>1, <3>2, <3>3
  <2> QED
    BY <2>2, <2>3
<1>9. /\ Begun(t)' /\ WaitsOn(t, s)' /\ UpOn(t, s)' /\ HoldsOn(t, s)'
      /\ \A r : (WaitsOn(t, r)' => r = s) /\ (UpOn(t, r)' => r = s)
      /\ Tries(c)' = t
  BY <1>1, <1>3, <1>5 DEF Begun, WaitsOn, UpOn, HoldsOn, Now, Tries
<1>10. \A h \in Handlers(c) :
          \/ h = IdOf(t, "request")
          \/ h = IdOf(t, "events") /\ c \in Subscribes
  BY <1>1 DEF Handlers
<1>11. CallHolds(c)'
  <2>1. IdOf(t, "request") \in handler'[s]
    BY <1>1 DEF Handlers
  <2> QED
    BY <1>2, <1>3, <1>9, <2>1 DEF CallHolds
<1>12. ASSUME NEW d \in Call, d # c PROVE CallHolds(d)'
  <2>1. call'[d] = call[d] /\ CallHolds(d) /\ Tries(d)' = Tries(d)
    BY <1>3, <1>12 DEF Tries
  <2>2. \A e \in Call \ {d} : call'[e].at = "connect" =>
           call[e].at = "connect" /\ call'[e] = call[e]
    BY <1>3
  <2>3. call[d].at = "connect" => call[d].socket # s
    BY <1>2, <1>12, <2>1 DEF CallHolds
  <2>4. call[d].at \in {"wait", "subscribed"} =>
           /\ socket'[call[d].socket] = socket[call[d].socket]
           /\ handler[call[d].socket] \subseteq handler'[call[d].socket]
    BY <1>2, <2>1 DEF CallHolds
  <2>5. call[d].at = "connect" => socket'[call[d].socket] = socket[call[d].socket]
    BY <2>1, <2>3 DEF CallHolds
  <2> HIDE DEF RpcInvariant
  <2> QED
    BY <2>1, <2>2, <2>4, <2>5 DEF CallHolds
<1>13. SocketsHold'
  <2>1. socket'[s] # "open" => socket[s] # "open" /\ toServer'[s] = toServer[s]
    OBVIOUS
  <2>2. \A e \in Endpoint : connection[e] # NoSocket => connection[e] \in Socket
    BY DEF TypeOK
  <2>3. \A e \in Endpoint : connection'[e] # NoSocket =>
           socket'[connection'[e]] \in {"open", "closed"}
    <3>1. ASSUME NEW e \in Endpoint, connection'[e] # NoSocket
          PROVE  socket'[connection'[e]] \in {"open", "closed"}
      <4>1. CASE connection'[e] = s
        <5>1. socket'[s] \in {"open", "closed"}
          OBVIOUS
        <5> QED
          BY <4>1, <5>1
      <4>2. CASE connection'[e] = connection[e] /\ connection[e] # s
        <5>1. /\ connection[e] \in Socket \ {s}
              /\ socket[connection[e]] \in {"open", "closed"}
          BY <2>2, <3>1, <4>2 DEF SocketsHold
        <5>2. socket'[connection[e]] = socket[connection[e]]
          BY <5>1
        <5> QED
          BY <4>2, <5>1, <5>2
      <4> QED
        BY <4>1, <4>2
    <3> QED
      BY <3>1
  <2>4. ASSUME NEW r \in Socket, socket'[r] # "open"
        PROVE  /\ toServer'[r] = << >> /\ toClient'[r] = << >>
               /\ serves'[r] = {} /\ owes'[r] = {}
    <3>1. socket[r] # "open" /\ toServer'[r] = toServer[r]
      BY <2>1, <2>4
    <3> QED
      BY <3>1 DEF SocketsHold, IsOpen
  <2> QED
    BY <2>3, <2>4 DEF SocketsHold, IsOpen
<1>14. HandlersHold'
  <2>1. SUFFICES ASSUME NEW r \in Socket, NEW u \in Try
                 PROVE  /\ IdOf(u, "request") \in handler'[r] => WaitsOn(u, r)'
                        /\ IdOf(u, "events") \in handler'[r] =>
                              u[1] \in Subscribes /\ (u \in expired' \/ HoldsOn(u, r)')
    BY DEF HandlersHold
  <2>2. CASE u = t
    <3>1. IdOf(t, "request") \notin handler[r] /\ IdOf(t, "events") \notin handler[r]
      BY <1>5, <1>6, FreshTry
    <3>2. IdOf(t, "events") # IdOf(t, "request")
      BY <1>5, IdsApart
    <3> QED
      BY <1>5, <1>9, <1>10, <2>2, <3>1, <3>2
  <2>3. CASE u # t
    <3>1. \A k, l : IdOf(u, k) # IdOf(t, l)
      BY <1>5, <2>3, IdsApart
    <3>2. ASSUME NEW k, IdOf(u, k) \in handler'[r] PROVE IdOf(u, k) \in handler[r]
      <4>1. IdOf(u, k) \notin Handlers(c)
        BY <1>10, <3>1
      <4>2. r = s \/ handler'[r] = handler[r]
        OBVIOUS
      <4> QED
        BY <3>2, <4>1, <4>2
    <3> QED
      BY <1>8, <2>3, <3>2 DEF HandlersHold
  <2> QED
    BY <2>2, <2>3
<1>15. ASSUME NEW r \in Socket, NEW u \in Try
       PROVE  /\ In(toServer[r], IdOf(u, "close")) => In(toServer'[r], IdOf(u, "close"))
              /\ ~In(toServer[r], IdOf(u, "events")) => ~In(toServer'[r], IdOf(u, "events"))
              /\ u # t => /\ In(toServer'[r], IdOf(u, "request")) =>
                               In(toServer[r], IdOf(u, "request"))
                          /\ Once(toServer[r], IdOf(u, "request")) =>
                               Once(toServer'[r], IdOf(u, "request"))
  <2>1. /\ IdOf(u, "request") = IdOf(t, "request") => u = t
        /\ IdOf(u, "events") # IdOf(t, "request")
    BY <1>5, IdsApart
  <2>2. toServer[r] \in Seq(Id)
    BY DEF TypeOK
  <2>3. CASE toServer'[r] = toServer[r]
    BY <2>3
  <2>4. CASE toServer'[r] = Append(toServer[r], IdOf(t, "request"))
    BY <1>5, <2>1, <2>2, <2>4, InAppend
  <2> QED
    BY <1>1, <2>3, <2>4
<1>16. ASSUME NEW u \in Try, u # t
       PROVE  (EndsHold(u) /\ AsksHold(u) /\ ServesHold(u) /\ OwesHold(u)
                  /\ RepliesHold(u) /\ CountsHold(u))'
  <2>1. /\ EndsHold(u) /\ AsksHold(u) /\ ServesHold(u)
        /\ OwesHold(u) /\ RepliesHold(u) /\ CountsHold(u)
    BY DEF NetHolds
  <2>2. AsksHold(u)'
    BY <1>8, <1>15, <1>16, <2>1 DEF AsksHold
  <2>3. ServesHold(u)'
    BY <1>8, <1>15, <1>16, <2>1 DEF ServesHold
  <2>4. RepliesHold(u)'
    BY <1>8, <1>16, <2>1 DEF RepliesHold
  <2>5. \A r : Pending(r, u)' = Pending(r, u)
    BY DEF Pending
  <2>6. \A r \in Socket : UpOn(u, r) => (IsOpen(r))' = IsOpen(r)
    BY TriesApart, <1>2 DEF UpOn, CallHolds, IsOpen
  <2>7. CountsHold(u)'
    BY <1>8, <1>16, <2>1, <2>5, <2>6 DEF CountsHold
  <2>8. OwesHold(u)'
    BY <1>8, <1>16, <2>1 DEF OwesHold
  <2>9. EndsHold(u)'
    <3>1. ASSUME NEW r \in Socket, UpOn(u, r), IdOf(u, "events") \in handler[r]
          PROVE  IdOf(u, "events") \in handler'[r]
      <4>1. socket[r] # "connecting"
        BY <3>1, TriesApart DEF UpOn, CallHolds
      <4> QED
        BY <3>1, <4>1
    <3> QED
      BY <1>8, <1>15, <1>16, <2>1, <3>1 DEF EndsHold
  <2> QED
    BY <2>2, <2>3, <2>4, <2>7, <2>8, <2>9
<1>17. (EndsHold(t) /\ AsksHold(t) /\ ServesHold(t) /\ OwesHold(t)
           /\ RepliesHold(t) /\ CountsHold(t))'
  <2>1. /\ t \notin expired /\ sent[t] = 0 /\ delivered[t] = 0
        /\ \A r \in Socket :
              /\ ~In(toServer[r], IdOf(t, "request"))
              /\ t \notin serves[r] /\ t \notin owes[r]
              /\ ~Told(toClient[r], IdOf(t, "request"))
              /\ ~Told(toClient[r], IdOf(t, "events"))
              /\ Pending(r, t) = 0
    BY <1>5, <1>6, FreshTry
  <2>2. AsksHold(t)'
    <3>1. SUFFICES ASSUME NEW r \in Socket, In(toServer'[r], IdOf(t, "request"))
                   PROVE  /\ r = s /\ Once(toServer'[r], IdOf(t, "request"))
      <4>1. \A r \in Socket : ~In(toServer'[r], IdOf(t, "events"))
        BY <1>5, <1>15 DEF NetHolds, AsksHold
      <4> QED
        BY <1>9, <2>1, <4>1 DEF AsksHold
    <3>2. r = s
      BY <2>1, <3>1
    <3>3. toServer[s] \in Seq(Id)
      BY DEF TypeOK
    <3>4. toServer'[s] = Append(toServer[s], IdOf(t, "request"))
      BY <1>1, <2>1, <3>1, <3>2
    <3>5. \A i, j \in DOMAIN toServer[s] : toServer[s][i] # IdOf(t, "request")
      BY <2>1 DEF In
    <3>6. Once(toServer[s], IdOf(t, "request"))
      BY <3>5 DEF Once
    <3> QED
      BY <1>5, <2>1, <3>2, <3>3, <3>4, <3>6, InAppend
  <2>3. ServesHold(t)'
    BY <2>1 DEF ServesHold
  <2>4. RepliesHold(t)'
    BY <2>1 DEF RepliesHold
  <2>5. \A r : Pending(r, t)' = Pending(r, t)
    BY DEF Pending
  <2>6. CountsHold(t)'
    BY <2>1, <2>5 DEF CountsHold
  <2>7. OwesHold(t)'
    BY <2>1 DEF OwesHold
  <2>8. EndsHold(t)'
    <3>1. c \in Subscribes => IdOf(t, "events") \in handler'[s]
      BY <1>1 DEF Handlers
    <3>2. EndsHold(t)
      BY <1>5 DEF NetHolds
    <3> QED
      BY <1>5, <1>9, <3>1, <3>2 DEF EndsHold
  <2> QED
    BY <2>2, <2>3, <2>4, <2>6, <2>7, <2>8
<1>18. NetHolds'
  BY <1>16, <1>17 DEF NetHolds
<1>19. \A u \in expired : u \in Try
  BY DEF TypeOK
<1> QED
  BY <1>7, <1>8, <1>11, <1>12, <1>13, <1>14, <1>18, <1>19

LEMMA SendOnConnectionKeeps ==
    ASSUME RpcInvariant, NEW c \in Call, SendOnConnection(c)
    PROVE  RpcInvariant'
<1> USE DEF RpcInvariant
<1>1. PICK s : s = connection[Host(c)]
  OBVIOUS
<1>2. /\ call[c].at = "send" /\ s # NoSocket
      /\ handler' = [handler EXCEPT ![s] = @ \cup Handlers(c)]
      /\ Sends(s, IdOf(Tries(c), "request")) /\ Waits(c, s)
      /\ UNCHANGED <<socket, connection, toClient, serves, owes, sent, delivered, expired>>
  BY <1>1 DEF SendOnConnection, At
<1>3. /\ Host(c) \in Endpoint /\ Tries(c) \in Try
      /\ IdOf(Tries(c), "request") \in Id /\ IdOf(Tries(c), "events") \in Id
  <2>1. call[c].place \in 1..Len(EndpointsOf[c])
    BY <1>2, Places DEF CallHolds
  <2>2. Host(c) \in Endpoint
    BY <2>1, Places DEF Host
  <2>3. call[c].place \in Place
    BY <2>1, Places
  <2>4. Tries(c) \in Try
    BY <2>3 DEF Tries, Try
  <2> QED
    BY <2>2, <2>4, IdsApart
<1>4. s \in Socket /\ socket[s] \in {"open", "closed"}
  BY <1>1, <1>2, <1>3 DEF TypeOK, SocketsHold
<1>5. Handlers(c) \subseteq Id
  BY <1>3 DEF Handlers
<1>6. /\ handler' \in [Socket -> SUBSET Id] /\ handler'[s] = handler[s] \cup Handlers(c)
      /\ \A r \in Socket \ {s} : handler'[r] = handler[r]
  BY <1>2, <1>4, <1>5 DEF TypeOK
<1>7. /\ toServer' \in [Socket -> Seq(Id)]
      /\ \A r \in Socket \ {s} : toServer'[r] = toServer[r]
      /\ \/ socket'[s] # "open" /\ toServer'[s] = toServer[s]
         \/ /\ socket'[s] = "open"
            /\ toServer'[s] = Append(toServer[s], IdOf(Tries(c), "request"))
  BY <1>2, <1>3, <1>4 DEF TypeOK, Sends, IsOpen
<1>8. /\ socket' \in [Socket -> {"none", "connecting", "open", "closed"}]
      /\ connection' \in [Endpoint -> Socket \cup {NoSocket}]
  BY <1>2 DEF TypeOK
<1> QED
  BY <1>2, <1>4, <1>6, <1>7, <1>8, WaitBegins

LEMMA OpenedKeeps ==
    ASSUME RpcInvariant, NEW c \in Call, Opened(c)
    PROVE  RpcInvariant'
<1> USE DEF RpcInvariant
<1>1. PICK s : s = call[c].socket
  OBVIOUS
<1>2. /\ call[c].at = "connect"
      /\ socket' = [socket EXCEPT ![s] = "open"]
      /\ connection' = [connection EXCEPT ![Host(c)] = s]
      /\ handler' = [handler EXCEPT ![s] = Handlers(c)]
      /\ toServer' = [toServer EXCEPT ![s] = <<IdOf(Tries(c), "request")>>]
      /\ Waits(c, s)
      /\ UNCHANGED <<toClient, serves, owes, sent, delivered, expired>>
  BY <1>1 DEF Opened, At
<1>3. Tries(c) \in Try /\ IdOf(Tries(c), "request") \in Id
      /\ IdOf(Tries(c), "events") \in Id
  <2>1. call[c].place \in 1..Len(EndpointsOf[c])
    BY <1>2, Places DEF CallHolds
  <2>2. call[c].place \in Place
    BY <2>1, Places
  <2>3. Tries(c) \in Try
    BY <2>2 DEF Tries, Try
  <2> QED
    BY <2>3, IdsApart
<1>4. s \in Socket /\ socket[s] = "connecting"
  BY <1>1, <1>2 DEF CallHolds
<1>5. Handlers(c) \subseteq Id
  BY <1>3 DEF Handlers
<1>6. /\ handler' \in [Socket -> SUBSET Id] /\ handler'[s] = Handlers(c)
      /\ \A r \in Socket \ {s} : handler'[r] = handler[r]
  BY <1>2, <1>4, <1>5 DEF TypeOK
<1>7. toServer[s] = << >>
  BY <1>4 DEF SocketsHold, IsOpen
<1>8. /\ toServer' \in [Socket -> Seq(Id)]
      /\ \A r \in Socket \ {s} : toServer'[r] = toServer[r]
      /\ toServer'[s] = Append(toServer[s], IdOf(Tries(c), "request"))
  BY <1>2, <1>3, <1>4, <1>7 DEF TypeOK
<1>9. /\ socket' \in [Socket -> {"none", "connecting", "open", "closed"}]
      /\ socket'[s] = "open"
      /\ \A r \in Socket \ {s} : socket'[r] = socket[r]
  BY <1>2, <1>4 DEF TypeOK
<1>10. /\ connection' \in [Endpoint -> Socket \cup {NoSocket}]
       /\ \A e \in Endpoint : connection'[e] \in {connection[e], s}
  BY <1>2, <1>4 DEF TypeOK
<1> QED
  BY <1>1, <1>2, <1>4, <1>6, <1>8, <1>9, <1>10, WaitBegins

-----------------------------------------------------------------------------
(* The server, and the network *)

LEMMA OverIsDown ==
    ASSUME TypeOK, NEW t \in Try, Over(t)
    PROVE  /\ Begun(t) /\ \A s : ~UpOn(t, s) /\ ~WaitsOn(t, s) /\ ~HoldsOn(t, s)
           /\ Now(t) => call[t[1]].at = "failed"
<1>1. t[1] \in Call /\ t[2] \in Nat
  BY Places DEF Try
<1>2. call[t[1]].place \in Nat
  <2>1. call \in [Call -> CallType]
    BY DEF TypeOK, CallType
  <2>2. call[t[1]].place \in Place \cup {0}
    BY <1>1, <2>1 DEF CallType
  <2> QED
    <3>1. \A p \in Place : p \in Nat
      BY Places
    <3> QED
      BY <2>2, <3>1
<1> QED
  BY <1>1, <1>2 DEF Over, Begun, Past, Now, UpOn, WaitsOn, HoldsOn

\* A step of the server or the network leaves the calls as they are.
LEMMA NetStep ==
    ASSUME RpcInvariant, TypeOK', NEW s \in Socket,
           UNCHANGED <<call, connection, handler, delivered, expired>>,
           \A r \in Socket :
              \/ socket'[r] = socket[r]
              \/ socket[r] = "open" /\ socket'[r] = "closed",
           \A r \in Socket \ {s} :
              /\ toServer'[r] = toServer[r] /\ toClient'[r] = toClient[r]
              /\ serves'[r] = serves[r] /\ owes'[r] = owes[r] /\ socket'[r] = socket[r],
           \/ socket[s] = "open" /\ socket'[s] = "open"
           \/ /\ toServer'[s] = << >> /\ toClient'[s] = << >>
              /\ serves'[s] = {} /\ owes'[s] = {},
           \A t \in Try : (EndsHold(t) /\ AsksHold(t) /\ ServesHold(t) /\ OwesHold(t)
                              /\ RepliesHold(t) /\ CountsHold(t))'
    PROVE  RpcInvariant'
<1> USE DEF RpcInvariant
<1>1. ASSUME NEW d \in Call PROVE CallHolds(d)'
  BY DEF CallHolds, Tries
<1>2. SocketsHold'
  <2>1. \A e \in Endpoint : connection[e] # NoSocket => connection[e] \in Socket
    BY DEF TypeOK
  <2>2. \A e \in Endpoint : connection'[e] # NoSocket =>
           socket'[connection'[e]] \in {"open", "closed"}
    BY <2>1 DEF SocketsHold
  <2>3. ASSUME NEW r \in Socket, socket'[r] # "open"
        PROVE  /\ toServer'[r] = << >> /\ toClient'[r] = << >>
               /\ serves'[r] = {} /\ owes'[r] = {}
    <3>1. CASE r = s
      BY <2>3, <3>1
    <3>2. CASE r # s
      BY <2>3, <3>2 DEF SocketsHold, IsOpen
    <3> QED
      BY <3>1, <3>2
  <2> QED
    BY <2>2, <2>3 DEF SocketsHold, IsOpen
<1>3. HandlersHold'
  BY DEF HandlersHold, HoldsOn, UpOn, WaitsOn, Now
<1>4. NetHolds'
  BY DEF NetHolds
<1>5. \A t \in expired' : Over(t)'
  BY DEF Over, Past, Now
<1> QED
  BY <1>1, <1>2, <1>3, <1>4, <1>5

LEMMA DisconnectKeeps ==
    ASSUME RpcInvariant, NEW s \in Socket, Disconnect(s)
    PROVE  RpcInvariant'
<1> USE DEF RpcInvariant
<1>1. /\ socket[s] = "open"
      /\ socket' = [socket EXCEPT ![s] = "closed"]
      /\ toServer' = [toServer EXCEPT ![s] = << >>]
      /\ toClient' = [toClient EXCEPT ![s] = << >>]
      /\ serves' = [serves EXCEPT ![s] = {}]
      /\ owes' = [owes EXCEPT ![s] = {}]
      /\ UNCHANGED <<call, connection, handler, sent, delivered, expired>>
  BY DEF Disconnect, IsOpen
<1>2. TypeOK'
  BY <1>1 DEF TypeOK
<1>3. /\ \A r \in Socket \ {s} :
            /\ toServer'[r] = toServer[r] /\ toClient'[r] = toClient[r]
            /\ serves'[r] = serves[r] /\ owes'[r] = owes[r] /\ socket'[r] = socket[r]
      /\ toServer'[s] = << >> /\ toClient'[s] = << >>
      /\ serves'[s] = {} /\ owes'[s] = {}
      /\ socket'[s] = "closed"
  BY <1>1 DEF TypeOK
<1>4. \A id : /\ ~In(<< >>, id) /\ ~Told(<< >>, id) /\ ~Refused(<< >>, id)
              /\ ~Denied(<< >>, id) /\ Ends(<< >>, id)
  BY DEF In, Told, Refused, Denied, Ends
<1>5. ASSUME NEW t \in Try
      PROVE  (EndsHold(t) /\ AsksHold(t) /\ ServesHold(t) /\ OwesHold(t)
                 /\ RepliesHold(t) /\ CountsHold(t))'
  <2>1. /\ EndsHold(t) /\ AsksHold(t) /\ ServesHold(t)
        /\ OwesHold(t) /\ RepliesHold(t) /\ CountsHold(t)
    BY DEF NetHolds
  <2>2. /\ (Begun(t))' = Begun(t) /\ (Now(t))' = Now(t)
        /\ \A r : (WaitsOn(t, r))' = WaitsOn(t, r) /\ (UpOn(t, r))' = UpOn(t, r)
    BY <1>1 DEF Begun, Past, Now, WaitsOn, UpOn
  <2>3. AsksHold(t)'
    BY <1>1, <1>3, <1>4, <2>1, <2>2 DEF AsksHold
  <2>4. ServesHold(t)'
    BY <1>1, <1>3, <1>4, <2>1, <2>2 DEF ServesHold
  <2>5. RepliesHold(t)'
    BY <1>1, <1>3, <1>4, <2>1, <2>2 DEF RepliesHold
  <2>6. /\ \A r \in Socket : Pending(r, t) \in Nat
        /\ \A r \in Socket \ {s} : (Pending(r, t))' = Pending(r, t)
        /\ (Pending(s, t))' = 0
    <3>1. \A r \in Socket : Pending(r, t) \in Nat
      BY PendingIsLeft
    <3>2. \A r \in Socket \ {s} : (Pending(r, t))' = Pending(r, t)
      BY <1>3 DEF Pending
    <3>3. (Pending(s, t))' = Cardinality({})
      BY <1>3 DEF Pending
    <3> QED
      BY <3>1, <3>2, <3>3, FS_EmptySet
  <2>7. CountsHold(t)'
    <3>1. sent[t] \in Nat /\ delivered[t] \in Nat
      BY RpcAssumption DEF TypeOK
    <3>2. \A r \in Socket : t \in serves'[r] => t \in serves[r]
      BY <1>3
    <3> QED
      BY <1>1, <1>3, <2>1, <2>2, <2>6, <3>1, <3>2 DEF CountsHold, IsOpen
  <2>8. EndsHold(t)'
    BY <1>1, <1>3, <1>4, <2>1, <2>2 DEF EndsHold
  <2>9. OwesHold(t)'
    BY <1>1, <1>3, <1>4, <2>1, <2>2 DEF OwesHold
  <2> QED
    BY <2>3, <2>4, <2>5, <2>7, <2>8, <2>9
<1>6. \A r \in Socket :
              \/ socket'[r] = socket[r]
              \/ socket[r] = "open" /\ socket'[r] = "closed"
  BY <1>1, <1>3
<1> HIDE DEF RpcInvariant
<1> QED
  BY <1>1, <1>2, <1>3, <1>5, <1>6, NetStep

\* What a socket brings when a message has been added to it.
LEMMA AnswerAdds ==
    ASSUME TypeOK, NEW s \in Socket, NEW m \in Response,
           toClient' = [toClient EXCEPT ![s] = Append(@, m)]
    PROVE  /\ toClient' \in [Socket -> Seq(Response)]
           /\ \A r \in Socket \ {s} : toClient'[r] = toClient[r]
           /\ \A r \in Socket : \A id :
                 /\ Told(toClient'[r], id) <=> Told(toClient[r], id) \/ (r = s /\ m.id = id)
                 /\ Refused(toClient'[r], id) <=>
                       Refused(toClient[r], id) \/ (r = s /\ m.id = id /\ m.error)
                 /\ Denied(toClient'[r], id) <=>
                       \/ Denied(toClient[r], id)
                       \/ r = s /\ m.id = id /\ (m.error \/ ~m.subscription)
                 /\ Ends(toClient[r], id)
                    /\ (r = s /\ m.id = id => ~Refused(toClient[s], id))
                       => Ends(toClient'[r], id)
<1>1. /\ toClient \in [Socket -> Seq(Response)] /\ toClient[s] \in Seq(Response)
      /\ Append(toClient[s], m) \in Seq(Response)
  BY ToldAppend DEF TypeOK
<1>2. /\ toClient' \in [Socket -> Seq(Response)]
      /\ toClient'[s] = Append(toClient[s], m)
      /\ \A r \in Socket \ {s} : toClient'[r] = toClient[r]
  BY <1>1
<1>3. ASSUME NEW r \in Socket, NEW id
      PROVE  /\ Told(toClient'[r], id) <=> Told(toClient[r], id) \/ (r = s /\ m.id = id)
             /\ Refused(toClient'[r], id) <=>
                   Refused(toClient[r], id) \/ (r = s /\ m.id = id /\ m.error)
             /\ Denied(toClient'[r], id) <=>
                   \/ Denied(toClient[r], id)
                   \/ r = s /\ m.id = id /\ (m.error \/ ~m.subscription)
             /\ Ends(toClient[r], id)
                /\ (r = s /\ m.id = id => ~Refused(toClient[s], id))
                   => Ends(toClient'[r], id)
  <2>1. CASE r = s
    BY <1>1, <1>2, <2>1, ToldAppend
  <2>2. CASE r # s
    BY <1>2, <2>2
  <2> QED
    BY <2>1, <2>2
<1> QED
  BY <1>2, <1>3

LEMMA AnswerCounts ==
    ASSUME TypeOK, NEW s \in Socket, NEW m \in Response,
           toClient' = [toClient EXCEPT ![s] = Append(@, m)],
           NEW r \in Socket, NEW u \in Try
    PROVE  /\ Pending(r, u) \in Nat
           /\ (Pending(r, u))' = Pending(r, u)
                 + (IF r = s /\ m.id = IdOf(u, "events") /\ ~m.error THEN 1 ELSE 0)
<1>1. /\ toClient \in [Socket -> Seq(Response)] /\ toClient[s] \in Seq(Response)
      /\ toClient'[s] = Append(toClient[s], m)
      /\ \A q \in Socket \ {s} : toClient'[q] = toClient[q]
  BY DEF TypeOK
<1> DEFINE L == Cardinality(Left(toClient[r], IdOf(u, "events")))
           K == Cardinality(Left(toClient'[r], IdOf(u, "events")))
<1>2. L \in Nat
  BY <1>1, LeftFinite
<1>3. K = L + (IF r = s /\ m.id = IdOf(u, "events") /\ ~m.error THEN 1 ELSE 0)
  <2>1. CASE r = s
    <3>1. Cardinality(Left(Append(toClient[s], m), IdOf(u, "events"))) =
             Cardinality(Left(toClient[s], IdOf(u, "events")))
                + (IF m.id = IdOf(u, "events") /\ ~m.error THEN 1 ELSE 0)
      BY <1>1, LeftAppend
    <3> QED
      BY <1>1, <2>1, <3>1
  <2>2. CASE r # s
    BY <1>1, <1>2, <2>2
  <2> QED
    BY <2>1, <2>2
<1>4. L = Pending(r, u) /\ K = (Pending(r, u))'
  BY DEF Pending, Left
<1> QED
  BY <1>2, <1>3, <1>4

\* A try that the network carries as before.
LEMMA SameTry ==
    ASSUME RpcInvariant, NEW u \in Try, UNCHANGED <<call, socket, handler, expired>>,
           sent'[u] = sent[u], delivered'[u] = delivered[u],
           \A r \in Socket :
              /\ In(toServer'[r], IdOf(u, "request")) => In(toServer[r], IdOf(u, "request"))
              /\ In(toServer'[r], IdOf(u, "events")) => In(toServer[r], IdOf(u, "events"))
              /\ In(toServer[r], IdOf(u, "close")) => In(toServer'[r], IdOf(u, "close"))
              /\ Once(toServer[r], IdOf(u, "request")) => Once(toServer'[r], IdOf(u, "request"))
              /\ (u \in serves'[r] <=> u \in serves[r])
              /\ (u \in owes'[r] <=> u \in owes[r])
              /\ (Told(toClient'[r], IdOf(u, "request")) <=> Told(toClient[r], IdOf(u, "request")))
              /\ (Told(toClient'[r], IdOf(u, "events")) <=> Told(toClient[r], IdOf(u, "events")))
              /\ (Refused(toClient'[r], IdOf(u, "events"))
                     <=> Refused(toClient[r], IdOf(u, "events")))
              /\ (Denied(toClient'[r], IdOf(u, "request"))
                     <=> Denied(toClient[r], IdOf(u, "request")))
              /\ Ends(toClient[r], IdOf(u, "events")) => Ends(toClient'[r], IdOf(u, "events"))
              /\ (Pending(r, u))' = Pending(r, u)
    PROVE  (EndsHold(u) /\ AsksHold(u) /\ ServesHold(u) /\ OwesHold(u)
               /\ RepliesHold(u) /\ CountsHold(u))'
<1>1. /\ EndsHold(u) /\ AsksHold(u) /\ ServesHold(u)
      /\ OwesHold(u) /\ RepliesHold(u) /\ CountsHold(u)
  BY DEF RpcInvariant, NetHolds
<1>2. /\ (Begun(u))' = Begun(u) /\ (Now(u))' = Now(u)
      /\ \A r : (WaitsOn(u, r))' = WaitsOn(u, r) /\ (UpOn(u, r))' = UpOn(u, r)
  BY DEF Begun, Past, Now, WaitsOn, UpOn
<1>3. EndsHold(u)'
  BY <1>1, <1>2 DEF EndsHold
<1>4. AsksHold(u)'
  BY <1>1, <1>2 DEF AsksHold
<1>5. ServesHold(u)'
  BY <1>1, <1>2 DEF ServesHold
<1>6. OwesHold(u)'
  BY <1>1, <1>2 DEF OwesHold
<1>7. RepliesHold(u)'
  BY <1>1, <1>2 DEF RepliesHold
<1>8. CountsHold(u)'
  BY <1>1, <1>2 DEF CountsHold, IsOpen
<1> QED
  BY <1>3, <1>4, <1>5, <1>6, <1>7, <1>8

\* The request that a server takes.
LEMMA Taken ==
    ASSUME RpcInvariant, NEW s \in Socket, toServer[s] # << >>,
           toServer' = [toServer EXCEPT ![s] = Tail(@)],
           NEW t, t = <<Head(toServer[s]).call, Head(toServer[s]).place>>
    PROVE  /\ t \in Try /\ IsOpen(s)
           /\ Head(toServer[s]) = IdOf(t, Head(toServer[s]).kind)
           /\ Head(toServer[s]) \in Id /\ Head(toServer[s]).kind \in {"request", "close"}
           /\ In(toServer[s], Head(toServer[s]))
           /\ toServer' \in [Socket -> Seq(Id)]
           /\ \A r \in Socket \ {s} : toServer'[r] = toServer[r]
           /\ Once(toServer[s], Head(toServer[s])) => ~In(toServer'[s], Head(toServer[s]))
           /\ \A r \in Socket : \A id :
                 /\ In(toServer'[r], id) => In(toServer[r], id)
                 /\ id # Head(toServer[s]) /\ In(toServer[r], id) => In(toServer'[r], id)
                 /\ Once(toServer[r], id) => Once(toServer'[r], id)
<1> USE DEF RpcInvariant
<1>1. toServer[s] \in Seq(Id) /\ toServer \in [Socket -> Seq(Id)]
  BY DEF TypeOK
<1>2. /\ Tail(toServer[s]) \in Seq(Id) /\ Head(toServer[s]) \in Id
      /\ In(toServer[s], Head(toServer[s]))
      /\ toServer'[s] = Tail(toServer[s]) /\ toServer' \in [Socket -> Seq(Id)]
      /\ \A r \in Socket \ {s} : toServer'[r] = toServer[r]
  BY <1>1, InTail, TailAt
<1>3. /\ t \in Try /\ Head(toServer[s]) = IdOf(t, Head(toServer[s]).kind)
      /\ Head(toServer[s]).kind \in {"request", "events", "close"}
  BY <1>2, IdsApart
<1>4. Head(toServer[s]).kind # "events"
  BY <1>2, <1>3 DEF NetHolds, AsksHold
<1>5. IsOpen(s)
  BY DEF SocketsHold
<1>6. ASSUME NEW r \in Socket, NEW id
      PROVE  /\ In(toServer'[r], id) => In(toServer[r], id)
             /\ id # Head(toServer[s]) /\ In(toServer[r], id) => In(toServer'[r], id)
             /\ Once(toServer[r], id) => Once(toServer'[r], id)
             /\ r = s /\ Once(toServer[s], id) /\ id = Head(toServer[s]) =>
                   ~In(toServer'[s], id)
  BY <1>1, <1>2, InTail
<1> QED
  BY <1>2, <1>3, <1>4, <1>5, <1>6

\* What the invariant says of a try whose request is at the server.
LEMMA Asked ==
    ASSUME RpcInvariant, NEW t \in Try, NEW s \in Socket, In(toServer[s], IdOf(t, "request"))
    PROVE  /\ t \in expired \/ UpOn(t, s)
           /\ Begun(t) /\ \A r : UpOn(t, r) => r = s
           /\ ~(Now(t) /\ call[t[1]].at = "returned")
           /\ Once(toServer[s], IdOf(t, "request")) /\ sent[t] = 0
           /\ \A r \in Socket :
                 /\ t \notin serves[r] /\ t \notin owes[r]
                 /\ ~Told(toClient[r], IdOf(t, "request"))
                 /\ ~Told(toClient[r], IdOf(t, "events"))
                 /\ ~In(toServer[r], IdOf(t, "events"))
                 /\ In(toServer[r], IdOf(t, "request")) => r = s
<1>1. AsksHold(t) /\ (t \in expired => Over(t)) /\ TypeOK
  BY DEF RpcInvariant, NetHolds
<1>2. t \in expired \/ WaitsOn(t, s)
  BY <1>1 DEF AsksHold
<1>3. /\ t \in expired \/ UpOn(t, s)
      /\ Begun(t) /\ \A r : UpOn(t, r) => r = s
      /\ ~(Now(t) /\ call[t[1]].at = "returned")
  <2>1. CASE t \in expired
    BY <1>1, <2>1, OverIsDown
  <2>2. CASE WaitsOn(t, s)
    BY <2>2 DEF WaitsOn, UpOn, Begun
  <2> QED
    BY <1>2, <2>1, <2>2
<1> QED
  BY <1>1, <1>3 DEF AsksHold

\* A request is answered at once.
LEMMA AnswerKeeps ==
    ASSUME RpcInvariant, NEW s \in Socket, toServer[s] # << >>,
           Head(toServer[s]).kind = "request", NEW error \in BOOLEAN,
           NEW t, t = <<Head(toServer[s]).call, Head(toServer[s]).place>>,
           toServer' = [toServer EXCEPT ![s] = Tail(@)],
           Answers(s, Head(toServer[s]), error, FALSE),
           UNCHANGED <<call, socket, connection, handler, serves, owes, sent,
                       delivered, expired>>
    PROVE  RpcInvariant'
<1> DEFINE id == Head(toServer[s])
           m  == [id |-> id, error |-> error, subscription |-> FALSE]
<1>1. /\ t \in Try /\ IsOpen(s) /\ id = IdOf(t, "request") /\ id \in Id
      /\ In(toServer[s], id)
      /\ toServer' \in [Socket -> Seq(Id)]
      /\ \A r \in Socket \ {s} : toServer'[r] = toServer[r]
      /\ Once(toServer[s], id) => ~In(toServer'[s], id)
      /\ \A r \in Socket : \A x :
            /\ In(toServer'[r], x) => In(toServer[r], x)
            /\ x # id /\ In(toServer[r], x) => In(toServer'[r], x)
            /\ Once(toServer[r], x) => Once(toServer'[r], x)
  BY Taken
<1>2. TypeOK /\ m \in Response /\ m.id = id
      /\ toClient' = [toClient EXCEPT ![s] = Append(@, m)]
  BY <1>1 DEF RpcInvariant, Answers, Response
<1>3. /\ toClient' \in [Socket -> Seq(Response)]
      /\ \A r \in Socket \ {s} : toClient'[r] = toClient[r]
      /\ \A r \in Socket : \A x :
            /\ Told(toClient'[r], x) <=> Told(toClient[r], x) \/ (r = s /\ id = x)
            /\ x # id => /\ Refused(toClient'[r], x) <=> Refused(toClient[r], x)
                         /\ Denied(toClient'[r], x) <=> Denied(toClient[r], x)
                         /\ Ends(toClient[r], x) => Ends(toClient'[r], x)
      /\ \A r \in Socket, u \in Try :
            IdOf(u, "events") # id => (Pending(r, u))' = Pending(r, u)
  <2> HIDE DEF m, id
  <2>1. /\ toClient' \in [Socket -> Seq(Response)]
        /\ \A r \in Socket \ {s} : toClient'[r] = toClient[r]
    BY <1>2, AnswerAdds
  <2>2. ASSUME NEW r \in Socket, NEW x
        PROVE  /\ Told(toClient'[r], x) <=> Told(toClient[r], x) \/ (r = s /\ m.id = x)
               /\ x # m.id => /\ Refused(toClient'[r], x) <=> Refused(toClient[r], x)
                              /\ Denied(toClient'[r], x) <=> Denied(toClient[r], x)
                              /\ Ends(toClient[r], x) => Ends(toClient'[r], x)
    BY <1>2, AnswerAdds
  <2>3. ASSUME NEW r \in Socket, NEW u \in Try, IdOf(u, "events") # m.id
        PROVE  (Pending(r, u))' = Pending(r, u)
    <3>1. /\ Pending(r, u) \in Nat
          /\ (Pending(r, u))' = Pending(r, u)
                + (IF r = s /\ m.id = IdOf(u, "events") /\ ~m.error THEN 1 ELSE 0)
      BY <1>2, AnswerCounts
    <3>2. ~(r = s /\ m.id = IdOf(u, "events") /\ ~m.error)
      BY <2>3
    <3> QED
      BY <3>1, <3>2
  <2>4. \A r \in Socket, u \in Try :
            IdOf(u, "events") # id => (Pending(r, u))' = Pending(r, u)
    BY <1>2, <2>3
  <2> QED
    BY <1>2, <2>1, <2>2, <2>4
<1>4. TypeOK'
  BY <1>1, <1>2, <1>3 DEF TypeOK
<1> HIDE DEF id, m
<1>5. ASSUME NEW u \in Try PROVE IdOf(u, "events") # id /\ IdOf(u, "close") # id
                                  /\ (IdOf(u, "request") = id <=> u = t)
  BY <1>1, IdsApart
<1>6. ASSUME NEW u \in Try, u # t
      PROVE  (EndsHold(u) /\ AsksHold(u) /\ ServesHold(u) /\ OwesHold(u)
                 /\ RepliesHold(u) /\ CountsHold(u))'
  <2>1. IdOf(u, "events") # id /\ IdOf(u, "close") # id /\ IdOf(u, "request") # id
    BY <1>5, <1>6
  <2> QED
    BY <1>1, <1>3, <2>1, SameTry
<1>7. (EndsHold(t) /\ AsksHold(t) /\ ServesHold(t) /\ OwesHold(t)
          /\ RepliesHold(t) /\ CountsHold(t))'
  <2>1. /\ t \in expired \/ UpOn(t, s)
        /\ Begun(t) /\ \A r : UpOn(t, r) => r = s
        /\ Once(toServer[s], id) /\ sent[t] = 0
        /\ \A r \in Socket :
              /\ t \notin serves[r] /\ t \notin owes[r]
              /\ ~Told(toClient[r], id)
              /\ ~Told(toClient[r], IdOf(t, "events"))
              /\ ~In(toServer[r], IdOf(t, "events"))
              /\ In(toServer[r], id) => r = s
    BY <1>1, Asked
  <2>2. /\ (Begun(t))' = Begun(t) /\ (Now(t))' = Now(t)
        /\ \A r : (UpOn(t, r))' = UpOn(t, r)
    BY DEF Begun, Past, Now, UpOn
  <2>3. \A r \in Socket : /\ ~In(toServer'[r], id)
                          /\ ~In(toServer'[r], IdOf(t, "events"))
                          /\ ~Told(toClient'[r], IdOf(t, "events"))
                          /\ Told(toClient'[r], id) => r = s
    BY <1>1, <1>3, <1>5, <2>1
  <2>4. EndsHold(t) /\ CountsHold(t)
    BY <1>1 DEF RpcInvariant, NetHolds
  <2>5. EndsHold(t)'
    BY <1>1, <1>3, <1>5, <2>1, <2>3, <2>4 DEF EndsHold
  <2>6. AsksHold(t)'
    BY <1>1, <2>3 DEF AsksHold
  <2>7. ServesHold(t)'
    BY <2>1 DEF ServesHold
  <2>8. OwesHold(t)'
    BY <2>1 DEF OwesHold
  <2>9. RepliesHold(t)'
    BY <1>1, <2>1, <2>2, <2>3 DEF RepliesHold
  <2>10. \A r \in Socket : (Pending(r, t))' = Pending(r, t)
    BY <1>1, <1>3, <1>5
  <2>11. CountsHold(t)'
    BY <1>1, <2>2, <2>4, <2>10 DEF CountsHold, IsOpen
  <2> QED
    BY <2>5, <2>6, <2>7, <2>8, <2>9, <2>11
<1>8. \A u \in Try : (EndsHold(u) /\ AsksHold(u) /\ ServesHold(u) /\ OwesHold(u)
                         /\ RepliesHold(u) /\ CountsHold(u))'
  BY <1>6, <1>7
<1> QED
  BY <1>1, <1>3, <1>4, <1>8, NetStep DEF IsOpen

\* A subscription is accepted.
LEMMA AcceptKeeps ==
    ASSUME RpcInvariant, NEW s \in Socket, toServer[s] # << >>,
           Head(toServer[s]).kind = "request", Head(toServer[s]).call \in Subscribes,
           NEW t, t = <<Head(toServer[s]).call, Head(toServer[s]).place>>,
           toServer' = [toServer EXCEPT ![s] = Tail(@)],
           serves' = [serves EXCEPT ![s] = @ \cup {t}],
           owes' = [owes EXCEPT ![s] = @ \cup {t}],
           UNCHANGED <<call, socket, connection, handler, toClient, sent,
                       delivered, expired>>
    PROVE  RpcInvariant'
<1> DEFINE id == Head(toServer[s])
<1>1. /\ t \in Try /\ IsOpen(s) /\ id = IdOf(t, "request") /\ id \in Id
      /\ In(toServer[s], id) /\ t[1] \in Subscribes
      /\ toServer' \in [Socket -> Seq(Id)]
      /\ \A r \in Socket \ {s} : toServer'[r] = toServer[r]
      /\ Once(toServer[s], id) => ~In(toServer'[s], id)
      /\ \A r \in Socket : \A x :
            /\ In(toServer'[r], x) => In(toServer[r], x)
            /\ x # id /\ In(toServer[r], x) => In(toServer'[r], x)
            /\ Once(toServer[r], x) => Once(toServer'[r], x)
  BY Taken
<1>2. /\ serves \in [Socket -> SUBSET Try] /\ owes \in [Socket -> SUBSET Try]
      /\ serves' \in [Socket -> SUBSET Try] /\ owes' \in [Socket -> SUBSET Try]
      /\ \A r \in Socket \ {s} : serves'[r] = serves[r] /\ owes'[r] = owes[r]
      /\ serves'[s] = serves[s] \cup {t} /\ owes'[s] = owes[s] \cup {t}
  BY <1>1 DEF RpcInvariant, TypeOK
<1>3. TypeOK'
  BY <1>1, <1>2 DEF RpcInvariant, TypeOK
<1> HIDE DEF id
<1>5. ASSUME NEW u \in Try PROVE IdOf(u, "events") # id /\ IdOf(u, "close") # id
                                  /\ (IdOf(u, "request") = id <=> u = t)
  BY <1>1, IdsApart
<1>6. ASSUME NEW u \in Try, u # t
      PROVE  (EndsHold(u) /\ AsksHold(u) /\ ServesHold(u) /\ OwesHold(u)
                 /\ RepliesHold(u) /\ CountsHold(u))'
  <2>1. IdOf(u, "events") # id /\ IdOf(u, "close") # id /\ IdOf(u, "request") # id
    BY <1>5, <1>6
  <2>2. \A r \in Socket : (u \in serves'[r] <=> u \in serves[r])
                         /\ (u \in owes'[r] <=> u \in owes[r])
                         /\ (Pending(r, u))' = Pending(r, u)
    BY <1>2, <1>6 DEF Pending
  <2> QED
    BY <1>1, <2>1, <2>2, SameTry
<1>7. (EndsHold(t) /\ AsksHold(t) /\ ServesHold(t) /\ OwesHold(t)
          /\ RepliesHold(t) /\ CountsHold(t))'
  <2>1. /\ t \in expired \/ UpOn(t, s)
        /\ Begun(t) /\ \A r : UpOn(t, r) => r = s
        /\ ~(Now(t) /\ call[t[1]].at = "returned")
        /\ Once(toServer[s], id) /\ sent[t] = 0
        /\ \A r \in Socket :
              /\ t \notin serves[r] /\ t \notin owes[r]
              /\ ~Told(toClient[r], id)
              /\ ~Told(toClient[r], IdOf(t, "events"))
              /\ ~In(toServer[r], IdOf(t, "events"))
              /\ In(toServer[r], id) => r = s
    BY <1>1, Asked
  <2>2. /\ (Begun(t))' = Begun(t) /\ (Now(t))' = Now(t)
        /\ \A r : (UpOn(t, r))' = UpOn(t, r)
    BY DEF Begun, Past, Now, UpOn
  <2>3. \A r \in Socket : /\ ~In(toServer'[r], id)
                          /\ ~In(toServer'[r], IdOf(t, "events"))
                          /\ t \in serves'[r] \/ t \in owes'[r] => r = s
    BY <1>1, <1>2, <2>1
  <2>4. EndsHold(t) /\ CountsHold(t)
    BY <1>1 DEF RpcInvariant, NetHolds
  <2>5. EndsHold(t)'
    BY <1>1, <2>1, <2>2, <2>4 DEF EndsHold
  <2>6. AsksHold(t)'
    BY <1>1, <2>3 DEF AsksHold
  <2>7. \A r \in Socket : /\ ~Refused(toClient[r], IdOf(t, "events"))
                          /\ ~Denied(toClient[r], id)
    BY <2>1 DEF Refused, Denied, Told
  <2>8. ServesHold(t)'
    BY <1>1, <2>1, <2>2, <2>3, <2>7 DEF ServesHold
  <2>9. OwesHold(t)'
    BY <1>1, <2>1, <2>2, <2>3, <2>7 DEF OwesHold
  <2>10. RepliesHold(t)'
    BY <1>1, <2>1 DEF RepliesHold
  <2>11. \A r : (Pending(r, t))' = Pending(r, t)
    BY DEF Pending
  <2>12. CountsHold(t)'
    BY <1>1, <2>1, <2>2, <2>4, <2>11 DEF CountsHold, IsOpen
  <2> QED
    BY <2>5, <2>6, <2>8, <2>9, <2>10, <2>12
<1>8. \A u \in Try : (EndsHold(u) /\ AsksHold(u) /\ ServesHold(u) /\ OwesHold(u)
                         /\ RepliesHold(u) /\ CountsHold(u))'
  BY <1>6, <1>7
<1> QED
  BY <1>1, <1>2, <1>3, <1>8, NetStep DEF IsOpen

\* A subscription is ended as the client has asked.
LEMMA EndedKeeps ==
    ASSUME RpcInvariant, NEW s \in Socket, toServer[s] # << >>,
           Head(toServer[s]).kind # "request",
           NEW t, t = <<Head(toServer[s]).call, Head(toServer[s]).place>>,
           toServer' = [toServer EXCEPT ![s] = Tail(@)],
           Answers(s, Head(toServer[s]), FALSE, FALSE),
           serves' = [serves EXCEPT ![s] = @ \ {t}],
           UNCHANGED <<call, socket, connection, handler, owes, sent, delivered, expired>>
    PROVE  RpcInvariant'
<1> DEFINE id == Head(toServer[s])
           m  == [id |-> id, error |-> FALSE, subscription |-> FALSE]
<1>1. /\ t \in Try /\ IsOpen(s) /\ id = IdOf(t, "close") /\ id \in Id
      /\ toServer' \in [Socket -> Seq(Id)]
      /\ \A r \in Socket \ {s} : toServer'[r] = toServer[r]
      /\ \A r \in Socket : \A x :
            /\ In(toServer'[r], x) => In(toServer[r], x)
            /\ x # id /\ In(toServer[r], x) => In(toServer'[r], x)
            /\ Once(toServer[r], x) => Once(toServer'[r], x)
  <2>1. id.kind \in {"request", "close"} /\ id = IdOf(t, id.kind)
    BY Taken
  <2>2. id.kind = "close"
    BY <2>1
  <2>3. id = IdOf(t, "close")
    BY <2>1, <2>2
  <2> QED
    BY <2>3, Taken
<1>2. TypeOK /\ m \in Response /\ m.id = id
      /\ toClient' = [toClient EXCEPT ![s] = Append(@, m)]
  BY <1>1 DEF RpcInvariant, Answers, Response
<1>3. /\ toClient' \in [Socket -> Seq(Response)]
      /\ \A r \in Socket \ {s} : toClient'[r] = toClient[r]
      /\ \A r \in Socket : \A x : x # id =>
            /\ Told(toClient'[r], x) <=> Told(toClient[r], x)
            /\ Refused(toClient'[r], x) <=> Refused(toClient[r], x)
            /\ Denied(toClient'[r], x) <=> Denied(toClient[r], x)
            /\ Ends(toClient[r], x) => Ends(toClient'[r], x)
      /\ \A r \in Socket, u \in Try :
            IdOf(u, "events") # id => (Pending(r, u))' = Pending(r, u)
  <2> HIDE DEF m, id
  <2>1. /\ toClient' \in [Socket -> Seq(Response)]
        /\ \A r \in Socket \ {s} : toClient'[r] = toClient[r]
    BY <1>2, AnswerAdds
  <2>2. ASSUME NEW r \in Socket, NEW x
        PROVE  /\ Told(toClient'[r], x) <=> Told(toClient[r], x) \/ (r = s /\ m.id = x)
               /\ x # m.id => /\ Refused(toClient'[r], x) <=> Refused(toClient[r], x)
                              /\ Denied(toClient'[r], x) <=> Denied(toClient[r], x)
                              /\ Ends(toClient[r], x) => Ends(toClient'[r], x)
    BY <1>2, AnswerAdds
  <2>3. ASSUME NEW r \in Socket, NEW u \in Try, IdOf(u, "events") # m.id
        PROVE  (Pending(r, u))' = Pending(r, u)
    <3>1. /\ Pending(r, u) \in Nat
          /\ (Pending(r, u))' = Pending(r, u)
                + (IF r = s /\ m.id = IdOf(u, "events") /\ ~m.error THEN 1 ELSE 0)
      BY <1>2, AnswerCounts
    <3>2. ~(r = s /\ m.id = IdOf(u, "events") /\ ~m.error)
      BY <2>3
    <3> QED
      BY <3>1, <3>2
  <2>4. \A r \in Socket, u \in Try :
            IdOf(u, "events") # id => (Pending(r, u))' = Pending(r, u)
    BY <1>2, <2>3
  <2> QED
    BY <1>2, <2>1, <2>2, <2>4
<1>4. /\ serves \in [Socket -> SUBSET Try] /\ serves' \in [Socket -> SUBSET Try]
      /\ \A r \in Socket \ {s} : serves'[r] = serves[r]
      /\ serves'[s] = serves[s] \ {t}
  BY <1>2 DEF TypeOK
<1>5. TypeOK'
  BY <1>1, <1>2, <1>3, <1>4 DEF TypeOK
<1> HIDE DEF id, m
<1>6. ASSUME NEW u \in Try PROVE IdOf(u, "events") # id /\ IdOf(u, "request") # id
                                  /\ (IdOf(u, "close") = id <=> u = t)
  BY <1>1, IdsApart
<1>7. ASSUME NEW u \in Try, u # t
      PROVE  (EndsHold(u) /\ AsksHold(u) /\ ServesHold(u) /\ OwesHold(u)
                 /\ RepliesHold(u) /\ CountsHold(u))'
  <2>1. IdOf(u, "events") # id /\ IdOf(u, "close") # id /\ IdOf(u, "request") # id
    BY <1>6, <1>7
  <2>2. \A r \in Socket : u \in serves'[r] <=> u \in serves[r]
    BY <1>4, <1>7
  <2> QED
    BY <1>1, <1>3, <2>1, <2>2, SameTry
<1>8. (EndsHold(t) /\ AsksHold(t) /\ ServesHold(t) /\ OwesHold(t)
          /\ RepliesHold(t) /\ CountsHold(t))'
  <2>1. /\ EndsHold(t) /\ AsksHold(t) /\ ServesHold(t)
        /\ OwesHold(t) /\ RepliesHold(t) /\ CountsHold(t)
    BY <1>1 DEF RpcInvariant, NetHolds
  <2>2. /\ (Begun(t))' = Begun(t) /\ (Now(t))' = Now(t)
        /\ \A r : (WaitsOn(t, r))' = WaitsOn(t, r) /\ (UpOn(t, r))' = UpOn(t, r)
    BY DEF Begun, Past, Now, WaitsOn, UpOn
  <2>3. \A r \in Socket : t \in serves'[r] => t \in serves[r] /\ r # s
    BY <1>4
  <2>4. IdOf(t, "events") # id /\ IdOf(t, "request") # id
    BY <1>1, <1>6
  <2>5. \A r \in Socket :
           /\ In(toServer'[r], IdOf(t, "request")) => In(toServer[r], IdOf(t, "request"))
           /\ In(toServer'[r], IdOf(t, "events")) => In(toServer[r], IdOf(t, "events"))
           /\ r # s /\ In(toServer[r], IdOf(t, "close")) => In(toServer'[r], IdOf(t, "close"))
           /\ Once(toServer[r], IdOf(t, "request")) => Once(toServer'[r], IdOf(t, "request"))
           /\ Told(toClient'[r], IdOf(t, "request")) <=> Told(toClient[r], IdOf(t, "request"))
           /\ Told(toClient'[r], IdOf(t, "events")) <=> Told(toClient[r], IdOf(t, "events"))
           /\ Refused(toClient'[r], IdOf(t, "events"))
                  <=> Refused(toClient[r], IdOf(t, "events"))
           /\ Denied(toClient'[r], IdOf(t, "request"))
                  <=> Denied(toClient[r], IdOf(t, "request"))
           /\ Ends(toClient[r], IdOf(t, "events")) => Ends(toClient'[r], IdOf(t, "events"))
           /\ (Pending(r, t))' = Pending(r, t)
    BY <1>1, <1>3, <2>4
  <2>6. EndsHold(t)'
    BY <2>1, <2>2, <2>3, <2>5 DEF EndsHold
  <2>7. AsksHold(t)'
    BY <2>1, <2>2, <2>3, <2>5 DEF AsksHold
  <2>8. ServesHold(t)'
    BY <2>1, <2>2, <2>3, <2>5 DEF ServesHold
  <2>9. OwesHold(t)'
    BY <2>1, <2>2, <2>3, <2>5 DEF OwesHold
  <2>10. RepliesHold(t)'
    BY <2>1, <2>2, <2>5 DEF RepliesHold
  <2>11. CountsHold(t)'
    BY <2>1, <2>2, <2>3, <2>5 DEF CountsHold, IsOpen
  <2> QED
    BY <2>6, <2>7, <2>8, <2>9, <2>10, <2>11
<1>9. \A u \in Try : (EndsHold(u) /\ AsksHold(u) /\ ServesHold(u) /\ OwesHold(u)
                         /\ RepliesHold(u) /\ CountsHold(u))'
  BY <1>7, <1>8
<1> QED
  BY <1>1, <1>3, <1>4, <1>5, <1>9, NetStep DEF IsOpen

LEMMA ProcessKeeps ==
    ASSUME RpcInvariant, NEW s \in Socket, Process(s)
    PROVE  RpcInvariant'
<1> DEFINE id == Head(toServer[s])
           t  == <<id.call, id.place>>
<1>1. /\ toServer[s] # << >> /\ toServer' = [toServer EXCEPT ![s] = Tail(@)]
      /\ UNCHANGED <<call, socket, connection, handler, sent, delivered, expired>>
  BY DEF Process
<1>2. CASE id.kind = "request"
  <2>1. \/ /\ \E error \in BOOLEAN : Answers(s, id, error, FALSE)
           /\ UNCHANGED <<serves, owes>>
        \/ /\ id.call \in Subscribes
           /\ serves' = [serves EXCEPT ![s] = @ \cup {t}]
           /\ owes' = [owes EXCEPT ![s] = @ \cup {t}]
           /\ UNCHANGED toClient
    BY <1>2 DEF Process
  <2> QED
    BY <1>1, <1>2, <2>1, AnswerKeeps, AcceptKeeps
<1>3. CASE id.kind # "request"
  <2>1. /\ Answers(s, id, FALSE, FALSE)
        /\ serves' = [serves EXCEPT ![s] = @ \ {t}]
        /\ UNCHANGED owes
    BY <1>3 DEF Process
  <2> QED
    BY <1>1, <1>3, <2>1, EndedKeeps
<1> QED
  BY <1>2, <1>3

\* The server sends an event, or the error that ends them.
LEMMA EventKeeps ==
    ASSUME RpcInvariant, NEW s \in Socket, NEW t \in serves[s], Event(s, t)
    PROVE  RpcInvariant'
<1>1. PICK error \in BOOLEAN :
          /\ Answers(s, IdOf(t, "events"), error, FALSE)
          /\ \/ ~error /\ sent[t] < MaxEvent /\ sent' = [sent EXCEPT ![t] = @ + 1]
                /\ UNCHANGED serves
             \/ error /\ serves' = [serves EXCEPT ![s] = @ \ {t}] /\ UNCHANGED sent
          /\ UNCHANGED <<call, socket, connection, handler, toServer, owes,
                         delivered, expired>>
  BY DEF Event
<1>2. PICK m : m = [id |-> IdOf(t, "events"), error |-> error, subscription |-> FALSE]
  OBVIOUS
<1>3. TypeOK /\ t \in Try /\ IdOf(t, "events") \in Id /\ IsOpen(s)
  <2>1. TypeOK /\ t \in Try
    BY DEF RpcInvariant, TypeOK
  <2>2. IsOpen(s)
    BY DEF RpcInvariant, SocketsHold
  <2> QED
    BY <2>1, <2>2, IdsApart
<1>4. /\ m \in Response /\ m.id = IdOf(t, "events") /\ m.error = error
      /\ toClient' = [toClient EXCEPT ![s] = Append(@, m)]
  BY <1>1, <1>2, <1>3 DEF Answers, Response
<1>5. /\ toClient' \in [Socket -> Seq(Response)]
      /\ \A r \in Socket \ {s} : toClient'[r] = toClient[r]
  BY <1>3, <1>4, AnswerAdds
<1>6. /\ serves' \in [Socket -> SUBSET Try]
      /\ \A r \in Socket \ {s} : serves'[r] = serves[r]
      /\ \A u : u # t => (u \in serves'[s] <=> u \in serves[s])
      /\ error => t \notin serves'[s]
      /\ \A r \in Socket : t \in serves'[r] => t \in serves[r]
  BY <1>1, <1>3 DEF TypeOK
<1>7. /\ sent[t] \in Nat /\ delivered[t] \in Nat
      /\ sent' \in [Try -> 0..MaxEvent]
      /\ sent'[t] = sent[t] + (IF error THEN 0 ELSE 1)
      /\ \A u \in Try \ {t} : sent'[u] = sent[u]
  <2>1. /\ sent \in [Try -> 0..MaxEvent] /\ delivered \in [Try -> 0..MaxEvent]
        /\ MaxEvent \in Nat
    BY <1>3, RpcAssumption DEF TypeOK
  <2> QED
    BY <1>1, <1>3, <2>1
<1>8. TypeOK'
  BY <1>1, <1>3, <1>5, <1>6, <1>7 DEF TypeOK
<1>9. ASSUME NEW u \in Try, NEW r \in Socket
      PROVE  /\ \A k : Told(toClient'[r], IdOf(u, k)) <=>
                          Told(toClient[r], IdOf(u, k)) \/ (r = s /\ u = t /\ k = "events")
             /\ Refused(toClient'[r], IdOf(u, "events")) <=>
                   Refused(toClient[r], IdOf(u, "events")) \/ (r = s /\ u = t /\ error)
             /\ Denied(toClient'[r], IdOf(u, "request")) <=>
                   Denied(toClient[r], IdOf(u, "request"))
             /\ Ends(toClient[r], IdOf(u, "events"))
                /\ (r = s /\ u = t => ~Refused(toClient[s], IdOf(t, "events")))
                   => Ends(toClient'[r], IdOf(u, "events"))
             /\ Pending(r, u) \in Nat
             /\ (Pending(r, u))' = Pending(r, u) + (IF r = s /\ u = t /\ ~error THEN 1 ELSE 0)
  <2>1. \A k : m.id = IdOf(u, k) <=> u = t /\ k = "events"
    BY <1>3, <1>4, IdsApart
  <2>2. ASSUME NEW k
        PROVE  Told(toClient'[r], IdOf(u, k)) <=>
                  Told(toClient[r], IdOf(u, k)) \/ (r = s /\ u = t /\ k = "events")
    <3>1. PICK x : x = IdOf(u, k)
      OBVIOUS
    <3>2. Told(toClient'[r], x) <=> Told(toClient[r], x) \/ (r = s /\ m.id = x)
      BY <1>3, <1>4, AnswerAdds
    <3>3. m.id = x <=> u = t /\ k = "events"
      BY <2>1, <3>1
    <3> QED
      BY <3>1, <3>2, <3>3
  <2>3. PICK x, y : x = IdOf(u, "events") /\ y = IdOf(u, "request")
    OBVIOUS
  <2>4. /\ Refused(toClient'[r], x) <=>
              Refused(toClient[r], x) \/ (r = s /\ m.id = x /\ m.error)
        /\ Denied(toClient'[r], y) <=>
              \/ Denied(toClient[r], y)
              \/ r = s /\ m.id = y /\ (m.error \/ ~m.subscription)
        /\ Ends(toClient[r], x) /\ (r = s /\ m.id = x => ~Refused(toClient[s], x))
              => Ends(toClient'[r], x)
    BY <1>3, <1>4, AnswerAdds
  <2>5. /\ Pending(r, u) \in Nat
        /\ (Pending(r, u))' = Pending(r, u)
              + (IF r = s /\ m.id = IdOf(u, "events") /\ ~m.error THEN 1 ELSE 0)
    BY <1>3, <1>4, AnswerCounts
  <2>6. /\ m.id = x <=> u = t
        /\ m.id # y
        /\ m.error <=> error
    BY <1>4, <2>1, <2>3
  <2> QED
    BY <2>2, <2>3, <2>4, <2>5, <2>6
<1>10. ASSUME NEW u \in Try, u # t
       PROVE  (EndsHold(u) /\ AsksHold(u) /\ ServesHold(u) /\ OwesHold(u)
                  /\ RepliesHold(u) /\ CountsHold(u))'
  <2>1. \A r \in Socket : u \in serves'[r] <=> u \in serves[r]
    BY <1>6, <1>10
  <2> QED
    BY <1>1, <1>7, <1>9, <1>10, <2>1, SameTry
<1>11. (EndsHold(t) /\ AsksHold(t) /\ ServesHold(t) /\ OwesHold(t)
           /\ RepliesHold(t) /\ CountsHold(t))'
  <2>1. /\ EndsHold(t) /\ AsksHold(t) /\ ServesHold(t)
        /\ OwesHold(t) /\ RepliesHold(t) /\ CountsHold(t)
    BY <1>3 DEF RpcInvariant, NetHolds
  <2>2. /\ (Begun(t))' = Begun(t) /\ (Now(t))' = Now(t)
        /\ \A r : (WaitsOn(t, r))' = WaitsOn(t, r) /\ (UpOn(t, r))' = UpOn(t, r)
    BY <1>1 DEF Begun, Past, Now, WaitsOn, UpOn
  <2>3. /\ t[1] \in Subscribes /\ Begun(t)
        /\ \A r \in Socket :
              /\ t \in serves[r] \/ Told(toClient[r], IdOf(t, "events")) \/ UpOn(t, r)
                    => r = s
              /\ ~Refused(toClient[r], IdOf(t, "events"))
              /\ ~Denied(toClient[r], IdOf(t, "request"))
              /\ ~In(toServer[r], IdOf(t, "request"))
        /\ ~(Now(t) /\ call[t[1]].at = "returned")
    BY <2>1 DEF ServesHold, OwesHold, AsksHold, CountsHold
  <2>4. EndsHold(t)'
    BY <1>1, <1>3, <1>9, <2>1, <2>2, <2>3 DEF EndsHold
  <2>5. AsksHold(t)'
    BY <1>1, <2>1, <2>3 DEF AsksHold
  <2>6. ServesHold(t)'
    <3>1. ASSUME NEW r \in Socket, t \in serves'[r]
          PROVE  r = s /\ ~error /\ t \in serves[s]
      BY <1>6, <2>3, <3>1
    <3>2. \A r \in Socket : Told(toClient'[r], IdOf(t, "events")) => r = s
      BY <1>3, <1>9, <2>3
    <3>3. ~error => \A r \in Socket : ~Refused(toClient'[r], IdOf(t, "events"))
      BY <1>3, <1>9, <2>3
    <3> QED
      BY <1>1, <2>1, <2>2, <2>3, <3>1, <3>2, <3>3 DEF ServesHold
  <2>7. OwesHold(t)'
    BY <1>1, <1>3, <1>9, <2>1, <2>2, <2>3 DEF OwesHold
  <2>8. RepliesHold(t)'
    BY <1>3, <1>9, <2>1, <2>2, <2>3 DEF RepliesHold
  <2>9. CountsHold(t)'
    <3>1. ASSUME NEW r \in Socket
          PROVE  /\ delivered'[t] + (Pending(r, t))' <= sent'[t]
                 /\ (UpOn(t, r) /\ IsOpen(r))' =>
                       sent'[t] = delivered'[t] + (Pending(r, t))'
      <4>1. /\ delivered[t] + Pending(r, t) <= sent[t] /\ Pending(r, t) \in Nat
            /\ UpOn(t, r) /\ IsOpen(r) => sent[t] = delivered[t] + Pending(r, t)
            /\ (Pending(r, t))' = Pending(r, t) + (IF r = s /\ ~error THEN 1 ELSE 0)
        BY <1>3, <1>9, <2>1 DEF CountsHold
      <4>2. (UpOn(t, r) /\ IsOpen(r))' => UpOn(t, r) /\ IsOpen(r) /\ r = s
        BY <1>1, <2>2, <2>3 DEF IsOpen
      <4>3. delivered'[t] = delivered[t]
        BY <1>1
      <4> QED
        BY <1>7, <4>1, <4>2, <4>3
    <3>2. delivered[t] > 0 =>
          t \in expired \/ (Now(t) /\ call[t[1]].at \in {"wait", "subscribed", "closed"})
      BY <2>1 DEF CountsHold
    <3> QED
      BY <1>1, <2>2, <2>3, <3>1, <3>2 DEF CountsHold
  <2> QED
    BY <2>4, <2>5, <2>6, <2>7, <2>8, <2>9
<1>12. \A u \in Try : (EndsHold(u) /\ AsksHold(u) /\ ServesHold(u) /\ OwesHold(u)
                          /\ RepliesHold(u) /\ CountsHold(u))'
  BY <1>10, <1>11
<1> QED
  BY <1>1, <1>3, <1>5, <1>6, <1>8, <1>12, NetStep DEF IsOpen

\* The server says that it has accepted a subscription.
LEMMA RespondKeeps ==
    ASSUME RpcInvariant, NEW s \in Socket, NEW t \in owes[s], Respond(s, t)
    PROVE  RpcInvariant'
<1>1. /\ Answers(s, IdOf(t, "request"), FALSE, TRUE)
      /\ owes' = [owes EXCEPT ![s] = @ \ {t}]
      /\ UNCHANGED <<call, socket, connection, handler, toServer, serves, sent,
                     delivered, expired>>
  BY DEF Respond
<1>2. PICK m : m = [id |-> IdOf(t, "request"), error |-> FALSE, subscription |-> TRUE]
  OBVIOUS
<1>3. TypeOK /\ t \in Try /\ IdOf(t, "request") \in Id /\ IsOpen(s)
  <2>1. TypeOK /\ t \in Try
    BY DEF RpcInvariant, TypeOK
  <2>2. IsOpen(s)
    BY DEF RpcInvariant, SocketsHold
  <2> QED
    BY <2>1, <2>2, IdsApart
<1>4. /\ m \in Response /\ m.id = IdOf(t, "request") /\ ~m.error /\ m.subscription
      /\ toClient' = [toClient EXCEPT ![s] = Append(@, m)]
  BY <1>1, <1>2, <1>3 DEF Answers, Response
<1>5. /\ toClient' \in [Socket -> Seq(Response)]
      /\ \A r \in Socket \ {s} : toClient'[r] = toClient[r]
  BY <1>3, <1>4, AnswerAdds
<1>6. /\ owes' \in [Socket -> SUBSET Try]
      /\ \A r \in Socket \ {s} : owes'[r] = owes[r]
      /\ \A u : u # t => (u \in owes'[s] <=> u \in owes[s])
      /\ \A r \in Socket : t \in owes'[r] => t \in owes[r]
  BY <1>1, <1>3 DEF TypeOK
<1>7. TypeOK'
  BY <1>1, <1>3, <1>5, <1>6 DEF TypeOK
<1>8. ASSUME NEW u \in Try, NEW r \in Socket
      PROVE  /\ \A k : Told(toClient'[r], IdOf(u, k)) <=>
                          Told(toClient[r], IdOf(u, k)) \/ (r = s /\ u = t /\ k = "request")
             /\ Refused(toClient'[r], IdOf(u, "events")) <=>
                   Refused(toClient[r], IdOf(u, "events"))
             /\ Denied(toClient'[r], IdOf(u, "request")) <=>
                   Denied(toClient[r], IdOf(u, "request"))
             /\ Ends(toClient[r], IdOf(u, "events")) => Ends(toClient'[r], IdOf(u, "events"))
             /\ (Pending(r, u))' = Pending(r, u)
  <2>1. \A k : m.id = IdOf(u, k) <=> u = t /\ k = "request"
    BY <1>3, <1>4, IdsApart
  <2>2. \A k : Told(toClient'[r], IdOf(u, k)) <=>
                  Told(toClient[r], IdOf(u, k)) \/ (r = s /\ u = t /\ k = "request")
    BY <1>3, <1>4, <2>1, AnswerAdds
  <2>3. /\ Refused(toClient'[r], IdOf(u, "events")) <=>
              Refused(toClient[r], IdOf(u, "events"))
        /\ Denied(toClient'[r], IdOf(u, "request")) <=>
              Denied(toClient[r], IdOf(u, "request"))
    BY <1>3, <1>4, <2>1, AnswerAdds
  <2>4. Ends(toClient[r], IdOf(u, "events")) => Ends(toClient'[r], IdOf(u, "events"))
    BY <1>3, <1>4, <2>1, AnswerAdds
  <2>5. /\ Pending(r, u) \in Nat
        /\ (Pending(r, u))' = Pending(r, u)
              + (IF r = s /\ m.id = IdOf(u, "events") /\ ~m.error THEN 1 ELSE 0)
    BY <1>3, <1>4, AnswerCounts
  <2> QED
    BY <1>4, <2>1, <2>2, <2>3, <2>4, <2>5
<1>9. ASSUME NEW u \in Try, u # t
      PROVE  (EndsHold(u) /\ AsksHold(u) /\ ServesHold(u) /\ OwesHold(u)
                 /\ RepliesHold(u) /\ CountsHold(u))'
  <2>1. \A r \in Socket : u \in owes'[r] <=> u \in owes[r]
    BY <1>6, <1>9
  <2> QED
    BY <1>1, <1>8, <1>9, <2>1, SameTry
<1>10. (EndsHold(t) /\ AsksHold(t) /\ ServesHold(t) /\ OwesHold(t)
           /\ RepliesHold(t) /\ CountsHold(t))'
  <2>1. /\ EndsHold(t) /\ AsksHold(t) /\ ServesHold(t)
        /\ OwesHold(t) /\ RepliesHold(t) /\ CountsHold(t)
    BY <1>3 DEF RpcInvariant, NetHolds
  <2>2. /\ (Begun(t))' = Begun(t) /\ (Now(t))' = Now(t)
        /\ \A r : (WaitsOn(t, r))' = WaitsOn(t, r) /\ (UpOn(t, r))' = UpOn(t, r)
    BY <1>1 DEF Begun, Past, Now, WaitsOn, UpOn
  <2>3. /\ t[1] \in Subscribes /\ Begun(t)
        /\ \A r \in Socket :
              /\ UpOn(t, r) => r = s
              /\ ~Denied(toClient[r], IdOf(t, "request"))
              /\ ~In(toServer[r], IdOf(t, "request"))
    BY <2>1 DEF OwesHold, AsksHold
  <2>4. EndsHold(t)'
    BY <1>1, <1>3, <1>8, <2>1, <2>2 DEF EndsHold
  <2>5. AsksHold(t)'
    BY <1>1, <2>1, <2>3 DEF AsksHold
  <2>6. ServesHold(t)'
    BY <1>1, <1>3, <1>8, <2>1, <2>2 DEF ServesHold
  <2>7. OwesHold(t)'
    BY <1>1, <1>3, <1>6, <1>8, <2>1, <2>2, <2>3 DEF OwesHold
  <2>8. RepliesHold(t)'
    BY <1>3, <1>8, <2>1, <2>2, <2>3 DEF RepliesHold
  <2>9. CountsHold(t)'
    BY <1>1, <1>3, <1>8, <2>1, <2>2 DEF CountsHold, IsOpen
  <2> QED
    BY <2>4, <2>5, <2>6, <2>7, <2>8, <2>9
<1>11. \A u \in Try : (EndsHold(u) /\ AsksHold(u) /\ ServesHold(u) /\ OwesHold(u)
                          /\ RepliesHold(u) /\ CountsHold(u))'
  BY <1>9, <1>10
<1> QED
  BY <1>1, <1>3, <1>5, <1>6, <1>7, <1>11, NetStep DEF IsOpen

-----------------------------------------------------------------------------
(* The client *)

\* What a step of the client keeps for a try, whose request it may have done
\* with, and whose subscription it may have ended.
LEMMA ClientStep ==
    ASSUME RpcInvariant, NEW t \in Try,
           UNCHANGED <<socket, serves, owes, sent, expired>>,
           Begun(t) => Begun(t)',
           \A r \in Socket :
              /\ In(toServer'[r], IdOf(t, "request")) =>
                    In(toServer[r], IdOf(t, "request")) /\ (t \in expired \/ WaitsOn(t, r)')
              /\ Once(toServer[r], IdOf(t, "request")) => Once(toServer'[r], IdOf(t, "request"))
              /\ ~In(toServer'[r], IdOf(t, "events"))
              /\ Told(toClient'[r], IdOf(t, "request")) => Told(toClient[r], IdOf(t, "request"))
              /\ Told(toClient'[r], IdOf(t, "events")) => Told(toClient[r], IdOf(t, "events"))
              /\ Refused(toClient'[r], IdOf(t, "events")) =>
                    Refused(toClient[r], IdOf(t, "events"))
              /\ Denied(toClient'[r], IdOf(t, "request")) =>
                    Denied(toClient[r], IdOf(t, "request"))
              /\ Ends(toClient[r], IdOf(t, "events")) => Ends(toClient'[r], IdOf(t, "events")),
           \A r \in Socket :
              /\ UpOn(t, r)' => UpOn(t, r)
              /\ t \in serves[r] =>
                    t \in expired \/ In(toServer'[r], IdOf(t, "close")) \/ UpOn(t, r)'
              /\ UpOn(t, r)' /\ t[1] \in Subscribes /\ IdOf(t, "events") \notin handler'[r] =>
                    \A q \in Socket :
                       /\ t \notin serves[q]
                       /\ ~In(toServer[q], IdOf(t, "request"))
                       /\ ~Told(toClient'[q], IdOf(t, "events")),
           \A r \in Socket :
              /\ delivered'[t] + (Pending(r, t))' <= sent[t]
              /\ UpOn(t, r)' => delivered'[t] + (Pending(r, t))' = delivered[t] + Pending(r, t),
           delivered'[t] > 0 =>
              t \in expired \/ (Now(t) /\ call[t[1]].at \in {"wait", "subscribed", "closed"})',
           (Now(t) /\ call[t[1]].at = "returned")' =>
              sent[t] = 0 /\ \A r \in Socket : t \notin serves[r]
    PROVE  (EndsHold(t) /\ AsksHold(t) /\ ServesHold(t) /\ OwesHold(t)
               /\ RepliesHold(t) /\ CountsHold(t))'
<1>1. /\ EndsHold(t) /\ AsksHold(t) /\ ServesHold(t)
      /\ OwesHold(t) /\ RepliesHold(t) /\ CountsHold(t)
  BY DEF RpcInvariant, NetHolds
<1>2. AsksHold(t)'
  BY <1>1 DEF AsksHold
<1>3. ServesHold(t)'
  BY <1>1 DEF ServesHold
<1>4. OwesHold(t)'
  BY <1>1 DEF OwesHold
<1>5. RepliesHold(t)'
  BY <1>1 DEF RepliesHold
<1>6. CountsHold(t)'
  BY <1>1 DEF CountsHold, IsOpen
<1>7. EndsHold(t)'
  BY <1>1 DEF EndsHold
<1> QED
  BY <1>2, <1>3, <1>4, <1>5, <1>6, <1>7

LEMMA CallStays ==
    ASSUME NEW d \in Call, CallHolds(d), call'[d] = call[d], UNCHANGED socket,
           \A e \in Call : call'[e].at = "connect" => call'[e] = call[e],
           \A r \in Socket : IdOf(Tries(d), "request") \in handler[r] =>
                                IdOf(Tries(d), "request") \in handler'[r]
    PROVE  CallHolds(d)'
<1>1. Tries(d)' = Tries(d)
  BY DEF Tries
<1>2. \A e \in Call \ {d} : call'[e].at = "connect" =>
         call[e].at = "connect" /\ call'[e] = call[e]
  OBVIOUS
<1> QED
  BY <1>1, <1>2 DEF CallHolds

\* The message that has come, its try, and the queue without it.
Came(s, m, t) ==
    /\ t \in Try /\ m \in Response /\ m.id \in Id /\ IsOpen(s)
    /\ m.id = IdOf(t, m.id.kind) /\ m.id.kind \in {"request", "events", "close"}
    /\ Told(toClient[s], m.id) /\ (m.error => Refused(toClient[s], m.id))
    /\ m.error \/ ~m.subscription => Denied(toClient[s], m.id)
    /\ Ends(toClient[s], m.id) /\ m.error => ~Told(toClient'[s], m.id)
    /\ toClient' \in [Socket -> Seq(Response)]
    /\ \A r \in Socket \ {s} : toClient'[r] = toClient[r]
    /\ \A r \in Socket : \A id :
          /\ Told(toClient'[r], id) => Told(toClient[r], id)
          /\ Refused(toClient'[r], id) => Refused(toClient[r], id)
          /\ Denied(toClient'[r], id) => Denied(toClient[r], id)
          /\ Ends(toClient[r], id) => Ends(toClient'[r], id)
    /\ \A u \in Try, r \in Socket :
          /\ Pending(r, u) \in Nat /\ (Pending(r, u))' \in Nat
          /\ Pending(r, u) = (Pending(r, u))' +
                (IF r = s /\ IdOf(u, "events") = m.id /\ ~m.error THEN 1 ELSE 0)

LEMMA Comes ==
    ASSUME RpcInvariant, NEW s \in Socket, toClient[s] # << >>,
           toClient' = [toClient EXCEPT ![s] = Tail(@)],
           NEW m, m = Head(toClient[s]), NEW t, t = <<m.id.call, m.id.place>>
    PROVE  Came(s, m, t)
<1>1. m = Head(toClient[s])
  OBVIOUS
<1>2. toClient \in [Socket -> Seq(Response)] /\ toClient[s] \in Seq(Response)
  BY DEF RpcInvariant, TypeOK
<1>3. /\ m \in Response /\ Told(toClient[s], m.id)
      /\ (m.error => Refused(toClient[s], m.id)) /\ Tail(toClient[s]) \in Seq(Response)
      /\ m.error \/ ~m.subscription => Denied(toClient[s], m.id)
  BY <1>1, <1>2, ToldTail
<1>4. m.id \in Id
  BY <1>3 DEF Response
<1>5. /\ t \in Try /\ m.id = IdOf(t, m.id.kind)
      /\ m.id.kind \in {"request", "events", "close"}
  BY <1>1, <1>4, IdsApart
<1>6. IsOpen(s)
  BY DEF RpcInvariant, SocketsHold
<1>7. /\ toClient' \in [Socket -> Seq(Response)]
      /\ toClient'[s] = Tail(toClient[s])
      /\ \A r \in Socket \ {s} : toClient'[r] = toClient[r]
  BY <1>2, <1>3
<1>8. Ends(toClient[s], m.id) /\ m.error => ~Told(toClient'[s], m.id)
  BY <1>1, <1>2, <1>7, ToldTail
<1>9. ASSUME NEW r \in Socket, NEW id
      PROVE  /\ Told(toClient'[r], id) => Told(toClient[r], id)
             /\ Refused(toClient'[r], id) => Refused(toClient[r], id)
             /\ Denied(toClient'[r], id) => Denied(toClient[r], id)
             /\ Ends(toClient[r], id) => Ends(toClient'[r], id)
  <2>1. CASE r = s
    BY <1>2, <1>7, <2>1, ToldTail
  <2>2. CASE r # s
    BY <1>7, <2>2
  <2> QED
    BY <2>1, <2>2
<1>10. ASSUME NEW u \in Try, NEW r \in Socket
       PROVE  /\ Pending(r, u) \in Nat /\ (Pending(r, u))' \in Nat
              /\ Pending(r, u) = (Pending(r, u))' +
                    (IF r = s /\ IdOf(u, "events") = m.id /\ ~m.error THEN 1 ELSE 0)
  <2>1. /\ Cardinality(Left(toClient[r], IdOf(u, "events"))) \in Nat
        /\ Cardinality(Left(toClient'[r], IdOf(u, "events"))) \in Nat
    BY <1>2, <1>7, LeftFinite
  <2>2. Cardinality(Left(toClient[s], IdOf(u, "events"))) =
           Cardinality(Left(Tail(toClient[s]), IdOf(u, "events")))
              + (IF m.id = IdOf(u, "events") /\ ~m.error THEN 1 ELSE 0)
    BY <1>1, <1>2, LeftTail
  <2>3. Cardinality(Left(toClient[r], IdOf(u, "events"))) =
           Cardinality(Left(toClient'[r], IdOf(u, "events")))
              + (IF r = s /\ m.id = IdOf(u, "events") /\ ~m.error THEN 1 ELSE 0)
    <3>1. CASE r = s
      BY <1>7, <2>2, <3>1
    <3>2. CASE r # s
      BY <1>7, <2>1, <3>2
    <3> QED
      BY <3>1, <3>2
  <2> QED
    BY <2>1, <2>3 DEF Pending, Left
<1> QED
  BY <1>1, <1>3, <1>4, <1>5, <1>6, <1>7, <1>8, <1>9, <1>10 DEF Came

\* The sockets of the client's step: one that is not open is left alone.
LEMMA SocketsStay ==
    ASSUME RpcInvariant, UNCHANGED <<socket, connection, serves, owes>>,
           \A r \in Socket : ~IsOpen(r) => /\ toServer'[r] = toServer[r]
                                           /\ toClient'[r] = toClient[r]
    PROVE  SocketsHold'
BY DEF RpcInvariant, SocketsHold, IsOpen

\* An event in a queue has been sent.
LEMMA PendingIsSent ==
    ASSUME RpcInvariant, NEW u \in Try, NEW r \in Socket, Pending(r, u) > 0
    PROVE  sent[u] > 0 /\ u[1] \in Subscribes /\ ~(Now(u) /\ call[u[1]].at = "returned")
<1>1. CountsHold(u)
  BY DEF RpcInvariant, NetHolds
<1>2. sent[u] \in Nat /\ delivered[u] \in Nat
  BY RpcAssumption DEF RpcInvariant, TypeOK
<1>3. Pending(r, u) \in Nat
  BY PendingIsLeft DEF RpcInvariant
<1>4. delivered[u] + Pending(r, u) <= sent[u]
  BY <1>1 DEF CountsHold
<1>5. sent[u] > 0
  BY <1>2, <1>3, <1>4
<1> QED
  BY <1>1, <1>5 DEF CountsHold

\* No handler is left for the message, or it ends the wait for a closing request.
LEMMA SkipKeeps ==
    ASSUME RpcInvariant, NEW s \in Socket, toClient[s] # << >>,
           toClient' = [toClient EXCEPT ![s] = Tail(@)],
           UNCHANGED <<call, socket, connection, toServer, serves, owes, sent,
                       delivered, expired>>,
           \/ Head(toClient[s]).id \notin handler[s] /\ UNCHANGED handler
           \/ /\ Head(toClient[s]).id.kind = "close"
              /\ handler' = [handler EXCEPT ![s] = @ \ {Head(toClient[s]).id}]
    PROVE  RpcInvariant'
<1>1. PICK m, t : m = Head(toClient[s]) /\ t = <<m.id.call, m.id.place>>
  OBVIOUS
<1>2. Came(s, m, t)
  BY <1>1, Comes
<1>3. /\ t \in Try /\ m.id \in Id /\ IsOpen(s)
      /\ m.id = IdOf(t, m.id.kind) /\ Told(toClient[s], m.id)
      /\ toClient' \in [Socket -> Seq(Response)]
      /\ \A r \in Socket \ {s} : toClient'[r] = toClient[r]
      /\ \A r \in Socket : \A id :
            /\ Told(toClient'[r], id) => Told(toClient[r], id)
            /\ Refused(toClient'[r], id) => Refused(toClient[r], id)
            /\ Denied(toClient'[r], id) => Denied(toClient[r], id)
            /\ Ends(toClient[r], id) => Ends(toClient'[r], id)
  BY <1>2 DEF Came
<1>4. ASSUME NEW u \in Try, NEW r \in Socket
      PROVE  /\ Pending(r, u) \in Nat /\ (Pending(r, u))' \in Nat
             /\ Pending(r, u) = (Pending(r, u))' +
                   (IF r = s /\ IdOf(u, "events") = m.id /\ ~m.error THEN 1 ELSE 0)
  BY <1>2 DEF Came
<1>5. TypeOK /\ SocketsHold /\ HandlersHold /\ NetHolds
      /\ (\A c \in Call : CallHolds(c)) /\ (\A u \in expired : Over(u))
  BY DEF RpcInvariant
<1>6. /\ handler' \in [Socket -> SUBSET Id]
      /\ \A r \in Socket : handler'[r] \subseteq handler[r]
      /\ \A r \in Socket : \A x \in handler[r] : x.kind # "close" => x \in handler'[r]
      /\ m.id.kind = "close" \/ m.id \notin handler[s]
  BY <1>1, <1>5 DEF TypeOK
<1>7. \A u, k : IdOf(u, k).kind = k
  BY DEF IdOf
<1>8. TypeOK'
  BY <1>3, <1>5, <1>6 DEF TypeOK
<1>9. ASSUME NEW d \in Call PROVE CallHolds(d)'
  BY <1>5, <1>6, <1>7, CallStays
<1>10. SocketsHold'
  BY <1>3, SocketsStay
<1>11. \A u : /\ (Begun(u))' = Begun(u) /\ (Over(u))' = Over(u) /\ (Now(u))' = Now(u)
              /\ \A r : /\ (WaitsOn(u, r))' = WaitsOn(u, r) /\ (UpOn(u, r))' = UpOn(u, r)
                        /\ (HoldsOn(u, r))' = HoldsOn(u, r)
  BY DEF Begun, Over, Past, Now, WaitsOn, UpOn, HoldsOn
<1>12. HandlersHold'
  BY <1>5, <1>6, <1>11 DEF HandlersHold
<1>13. ASSUME NEW u \in Try
       PROVE  (EndsHold(u) /\ AsksHold(u) /\ ServesHold(u) /\ OwesHold(u)
                  /\ RepliesHold(u) /\ CountsHold(u))'
  <2>1. EndsHold(u) /\ AsksHold(u) /\ ServesHold(u) /\ CountsHold(u)
    BY <1>5 DEF NetHolds
  <2>2. ASSUME NEW r \in Socket, UpOn(u, r), r = s, IdOf(u, "events") = m.id, ~m.error
        PROVE  FALSE
    <3>1. Pending(s, u) > 0
      BY <1>4, <2>2
    <3>2. u[1] \in Subscribes
      BY <3>1, PendingIsSent
    <3>3. IdOf(u, "events") \notin handler[s]
      BY <1>6, <1>7, <2>2
    <3> QED
      BY <1>3, <2>1, <2>2, <3>2, <3>3 DEF EndsHold
  <2>3. ASSUME NEW r \in Socket
        PROVE  /\ delivered'[u] + (Pending(r, u))' <= sent[u]
               /\ (UpOn(u, r))' =>
                     delivered'[u] + (Pending(r, u))' = delivered[u] + Pending(r, u)
    <3>1. delivered[u] \in Nat /\ sent[u] \in Nat
      BY <1>5, RpcAssumption DEF TypeOK
    <3>2. delivered[u] + Pending(r, u) <= sent[u]
      BY <2>1 DEF CountsHold
    <3> QED
      BY <1>4, <1>11, <2>2, <3>1, <3>2
  <2>4. \A r \in Socket :
           /\ In(toServer[r], IdOf(u, "request")) => u \in expired \/ WaitsOn(u, r)
           /\ ~In(toServer[r], IdOf(u, "events"))
           /\ u \in serves[r] =>
                 u \in expired \/ In(toServer[r], IdOf(u, "close")) \/ UpOn(u, r)
    BY <2>1 DEF AsksHold, ServesHold
  <2>5. ASSUME NEW r \in Socket, UpOn(u, r), u[1] \in Subscribes,
               IdOf(u, "events") \notin handler'[r], NEW q \in Socket
        PROVE  /\ u \notin serves[q]
               /\ ~In(toServer[q], IdOf(u, "request"))
               /\ ~Told(toClient'[q], IdOf(u, "events"))
    <3>1. IdOf(u, "events") \notin handler[r]
      BY <1>6, <1>7, <2>5
    <3> QED
      BY <1>3, <2>1, <2>5, <3>1 DEF EndsHold
  <2>6. /\ delivered[u] > 0 =>
              u \in expired \/ (Now(u) /\ call[u[1]].at \in {"wait", "subscribed", "closed"})
        /\ Now(u) /\ call[u[1]].at = "returned" =>
              sent[u] = 0 /\ \A r \in Socket : u \notin serves[r]
    BY <2>1 DEF CountsHold
  <2> QED
    BY <1>3, <1>11, <2>3, <2>4, <2>5, <2>6, ClientStep
<1>14. NetHolds'
  BY <1>13 DEF NetHolds
<1>15. \A u \in expired' : Over(u)'
  BY <1>5, <1>11
<1> QED
  BY <1>8, <1>9, <1>10, <1>12, <1>14, <1>15 DEF RpcInvariant

\* The response a call waits for: the call is up, it is done, or the next
\* endpoint is tried.
LEMMA RespondedKeeps ==
    ASSUME RpcInvariant, NEW s \in Socket, toClient[s] # << >>,
           toClient' = [toClient EXCEPT ![s] = Tail(@)],
           Head(toClient[s]).id \in handler[s], Responded(s, Head(toClient[s])),
           UNCHANGED <<socket, connection, serves, owes, sent, expired>>
    PROVE  RpcInvariant'
<1>1. PICK m, t : m = Head(toClient[s]) /\ t = <<m.id.call, m.id.place>>
  OBVIOUS
<1>came. Came(s, m, t)
  BY <1>1, Comes
<1>2. PICK c : c = t[1]
  OBVIOUS
<1>3. PICK step : step = IF c \in Subscribes /\ m.subscription THEN "subscribed"
                         ELSE "returned"
  OBVIOUS
<1>4. /\ m.id.kind = "request"
      /\ \/ /\ m.error /\ TryNext(c)
            /\ handler' = [handler EXCEPT ![s] = @ \ {m.id, IdOf(t, "events")}]
         \/ /\ ~m.error /\ handler' = [handler EXCEPT ![s] = @ \ {m.id}]
            /\ Goto(c, step)
      /\ UNCHANGED <<toServer, delivered>>
  BY <1>1, <1>2, <1>3 DEF Responded
<1>5. /\ t \in Try /\ IsOpen(s) /\ m.id = IdOf(t, "request")
      /\ Told(toClient[s], m.id)
      /\ m.error \/ ~m.subscription => Denied(toClient[s], m.id)
      /\ toClient' \in [Socket -> Seq(Response)]
      /\ \A r \in Socket \ {s} : toClient'[r] = toClient[r]
      /\ \A r \in Socket : \A id :
            /\ Told(toClient'[r], id) => Told(toClient[r], id)
            /\ Refused(toClient'[r], id) => Refused(toClient[r], id)
            /\ Denied(toClient'[r], id) => Denied(toClient[r], id)
            /\ Ends(toClient[r], id) => Ends(toClient'[r], id)
  BY <1>4, <1>came DEF Came
<1>6. ASSUME NEW u \in Try, NEW r \in Socket
      PROVE  Pending(r, u) \in Nat /\ (Pending(r, u))' = Pending(r, u)
  <2>1. IdOf(u, "events") # m.id
    BY <1>5, IdsApart
  <2> QED
    BY <1>came, <2>1 DEF Came
<1>7. TypeOK /\ SocketsHold /\ HandlersHold /\ NetHolds
      /\ (\A d \in Call : CallHolds(d)) /\ (\A u \in expired : Over(u))
  BY DEF RpcInvariant
<1>8. /\ WaitsOn(t, s) /\ UpOn(t, s) /\ c \in Call /\ Now(t) /\ t = Tries(c)
      /\ t[2] = call[c].place
      /\ call[c].at = "wait" /\ call[c].socket = s /\ CallHolds(c) /\ t \notin expired
      /\ \A r : (WaitsOn(t, r) => r = s) /\ (UpOn(t, r) => r = s) /\ (HoldsOn(t, r) => r = s)
  <2>1. WaitsOn(t, s)
    BY <1>1, <1>5, <1>7 DEF HandlersHold
  <2>2. c \in Call /\ t = Tries(c)
    BY <1>2, <1>5, <2>1, TriesApart DEF WaitsOn, Try
  <2>3. t \notin expired
    BY <1>5, <1>7, <2>1, OverIsDown
  <2> QED
    BY <1>2, <1>7, <2>1, <2>2, <2>3 DEF WaitsOn, UpOn, HoldsOn, Now
<1>9. m.error \/ step = "returned" =>
         /\ sent[t] = 0 /\ \A r \in Socket : t \notin serves[r]
  <2>1. ServesHold(t) /\ OwesHold(t) /\ CountsHold(t) /\ sent[t] \in Nat
    <3>1. sent[t] \in Nat
      BY <1>5, <1>7, RpcAssumption DEF TypeOK
    <3> QED
      BY <1>5, <1>7, <3>1 DEF NetHolds
  <2>2. CASE Denied(toClient[s], IdOf(t, "request"))
    BY <1>5, <2>1, <2>2 DEF OwesHold
  <2>3. CASE c \notin Subscribes
    BY <1>2, <2>1, <2>3 DEF ServesHold, CountsHold
  <2> QED
    BY <1>3, <1>5, <2>2, <2>3
<1>10. /\ Moved(c)
       /\ call'[c].place \in 0..Len(EndpointsOf[c])
       /\ \/ /\ m.error /\ call'[c].at \in {"info", "send", "failed"}
             /\ \/ call'[c].at = "failed" /\ call'[c].place = call[c].place
                \/ call'[c].at # "failed" /\ call'[c].place = call[c].place + 1
          \/ /\ ~m.error /\ call'[c].place = call[c].place /\ call'[c].socket = s
             /\ call'[c].at = step
  <2>1. CASE m.error
    BY <1>4, <1>7, <1>8, <2>1, TryNextMoves
  <2>2. CASE ~m.error
    <3>1. call \in [Call -> CallType]
      BY <1>7 DEF TypeOK, CallType
    <3>2. call' = [call EXCEPT ![c].at = step] /\ step \in CallStep
      BY <1>3, <1>4, <2>2 DEF Goto, CallStep
    <3>3. /\ call' \in [Call -> CallType]
          /\ call'[c].at = step /\ call'[c].place = call[c].place
          /\ call'[c].socket = call[c].socket
          /\ \A d \in Call \ {c} : call'[d] = call[d]
      BY <1>8, <3>1, <3>2 DEF CallType
    <3> QED
      BY <1>3, <1>8, <2>2, <3>3 DEF Moved, CallHolds
  <2> QED
    BY <2>1, <2>2
<1>11. /\ handler' \in [Socket -> SUBSET Id]
       /\ \A r \in Socket : handler'[r] \subseteq handler[r]
       /\ \A r \in Socket \ {s} : handler'[r] = handler[r]
       /\ m.id \notin handler'[s] /\ (m.error => IdOf(t, "events") \notin handler'[s])
       /\ \A x \in handler[s] : x \in {m.id, IdOf(t, "events")} \/ x \in handler'[s]
       /\ ~m.error => handler'[s] = handler[s] \ {m.id}
  <2>1. PICK gone :
            /\ handler' = [handler EXCEPT ![s] = @ \ gone]
            /\ m.id \in gone /\ gone \subseteq {m.id, IdOf(t, "events")}
            /\ m.error => IdOf(t, "events") \in gone
            /\ ~m.error => gone = {m.id}
    <3>1. CASE m.error
      <4>1. handler' = [handler EXCEPT ![s] = @ \ {m.id, IdOf(t, "events")}]
        BY <1>4, <3>1
      <4> QED
        BY <3>1, <4>1
    <3>2. CASE ~m.error
      <4>1. handler' = [handler EXCEPT ![s] = @ \ {m.id}]
        BY <1>4, <3>2
      <4> QED
        BY <3>2, <4>1
    <3> QED
      BY <3>1, <3>2
  <2>2. handler \in [Socket -> SUBSET Id]
    BY <1>7 DEF TypeOK
  <2>3. /\ handler' \in [Socket -> SUBSET Id] /\ handler'[s] = handler[s] \ gone
        /\ \A r \in Socket \ {s} : handler'[r] = handler[r]
    BY <2>1, <2>2
  <2> QED
    BY <2>1, <2>3
<1>12. TypeOK'
  BY <1>4, <1>5, <1>7, <1>10, <1>11 DEF TypeOK, Moved, CallType
<1>13. ASSUME NEW u \in Try
       PROVE  /\ Begun(u) => Begun(u)'
              /\ Over(u) => Over(u)'
              /\ u # t => /\ \A r : WaitsOn(u, r)' = WaitsOn(u, r)
                          /\ \A r : UpOn(u, r)' = UpOn(u, r)
                          /\ \A r : HoldsOn(u, r)' = HoldsOn(u, r)
                          /\ (Now(u) /\ call[u[1]].at = "returned")' =>
                                Now(u) /\ call[u[1]].at = "returned"
                          /\ Now(u) /\ call[u[1]].at \in {"wait", "subscribed", "closed"} =>
                               (Now(u) /\ call[u[1]].at \in {"wait", "subscribed", "closed"})'
  <2>1. (Begun(u) => Begun(u)') /\ (Over(u) => Over(u)')
    BY <1>7, <1>8, <1>10, MovedStays
  <2>2. CASE u[1] = c
    <3>1. Now(u) <=> u = t
      BY <1>8, <2>2, TriesApart
    <3>2. /\ \A r : UpOn(u, r)' => u = t
          /\ (Now(u) /\ call[u[1]].at = "returned")' => u = t
      BY <1>3, <1>8, <1>10, <2>2, <3>1 DEF UpOn, Now
    <3> QED
      BY <1>8, <2>1, <2>2, <3>1, <3>2 DEF WaitsOn, UpOn, HoldsOn
  <2>3. CASE u[1] # c
    <3>1. /\ Now(u)' = Now(u)
          /\ \A r : WaitsOn(u, r)' = WaitsOn(u, r)
          /\ \A r : UpOn(u, r)' = UpOn(u, r)
      BY <1>7, <1>8, <1>10, <2>3, MovedStays
    <3>2. call'[u[1]] = call[u[1]]
      BY <1>8, <1>10, <2>3, TriesApart DEF Moved
    <3> QED
      BY <1>2, <2>1, <2>3, <3>1, <3>2 DEF HoldsOn
  <2> QED
    BY <2>2, <2>3
<1>14. /\ \A r : ~WaitsOn(t, r)'
       /\ \A r : UpOn(t, r)' => r = s /\ step = "subscribed" /\ ~m.error
       /\ ~m.error => HoldsOn(t, s)'
       /\ ~m.error /\ step = "subscribed" => UpOn(t, s)'
       /\ (Now(t) /\ call[t[1]].at = "returned")' => step = "returned" \/ m.error
  BY <1>2, <1>3, <1>8, <1>10 DEF WaitsOn, UpOn, HoldsOn, Now
<1>15. CallHolds(c)'
  BY <1>3, <1>7, <1>8, <1>10 DEF CallHolds
<1>16. ASSUME NEW d \in Call, d # c PROVE CallHolds(d)'
  <2>1. call'[d] = call[d] /\ \A e \in Call : call'[e].at = "connect" => call'[e] = call[e]
    BY <1>3, <1>10, <1>16 DEF Moved
  <2>2. \A k, l : IdOf(Tries(d), k) # IdOf(t, l)
    BY <1>2, <1>16 DEF IdOf, Tries
  <2>3. \A r \in Socket : \A k : IdOf(Tries(d), k) \in handler[r] =>
                             IdOf(Tries(d), k) \in handler'[r]
    BY <1>5, <1>11, <2>2
  <2> QED
    BY <1>7, <2>1, <2>3, CallStays
<1>17. SocketsHold'
  BY <1>4, <1>5, SocketsStay
<1>18. HandlersHold'
  <2>1. SUFFICES ASSUME NEW r \in Socket, NEW u \in Try
                 PROVE  /\ IdOf(u, "request") \in handler'[r] => WaitsOn(u, r)'
                        /\ IdOf(u, "events") \in handler'[r] =>
                              u[1] \in Subscribes /\ (u \in expired' \/ HoldsOn(u, r)')
    BY DEF HandlersHold
  <2>2. /\ IdOf(u, "request") \in handler'[r] => WaitsOn(u, r)
        /\ IdOf(u, "events") \in handler'[r] =>
              u[1] \in Subscribes /\ (u \in expired \/ HoldsOn(u, r))
    BY <1>7, <1>11 DEF HandlersHold
  <2>3. CASE u = t
    BY <1>5, <1>8, <1>11, <1>14, <2>2, <2>3
  <2>4. CASE u # t
    BY <1>13, <2>2, <2>4
  <2> QED
    BY <2>3, <2>4
<1>19. ASSUME NEW u \in Try
       PROVE  (EndsHold(u) /\ AsksHold(u) /\ ServesHold(u) /\ OwesHold(u)
                  /\ RepliesHold(u) /\ CountsHold(u))'
  <2>1. EndsHold(u) /\ AsksHold(u) /\ ServesHold(u) /\ CountsHold(u)
    BY <1>7 DEF NetHolds
  <2>2. ASSUME NEW r \in Socket
        PROVE  /\ delivered'[u] + (Pending(r, u))' <= sent[u]
               /\ (UpOn(u, r))' =>
                     delivered'[u] + (Pending(r, u))' = delivered[u] + Pending(r, u)
    BY <1>4, <1>6, <2>1 DEF CountsHold
  <2>3. u = t => \A r \in Socket : ~In(toServer[r], IdOf(u, "request"))
    BY <1>5, <2>1 DEF AsksHold
  <2>4. \A r \in Socket :
           /\ In(toServer[r], IdOf(u, "request")) => u \in expired \/ WaitsOn(u, r)'
           /\ ~In(toServer[r], IdOf(u, "events"))
           /\ UpOn(u, r)' => UpOn(u, r)
    BY <1>8, <1>13, <1>14, <2>1, <2>3 DEF AsksHold
  <2>5. ASSUME NEW r \in Socket, u \in serves[r]
        PROVE  u \in expired \/ In(toServer[r], IdOf(u, "close")) \/ UpOn(u, r)'
    <3>1. u \in expired \/ In(toServer[r], IdOf(u, "close")) \/ UpOn(u, r)
      BY <2>1, <2>5 DEF ServesHold
    <3>2. CASE u = t
      BY <1>3, <1>8, <1>9, <1>14, <2>5, <3>1, <3>2
    <3>3. CASE u # t
      BY <1>13, <3>1, <3>3
    <3> QED
      BY <3>2, <3>3
  <2>6. ASSUME NEW r \in Socket, UpOn(u, r)', u[1] \in Subscribes,
               IdOf(u, "events") \notin handler'[r], NEW q \in Socket
        PROVE  /\ u \notin serves[q]
               /\ ~In(toServer[q], IdOf(u, "request"))
               /\ ~Told(toClient'[q], IdOf(u, "events"))
    <3>1. UpOn(u, r)
      BY <2>4, <2>6
    <3>2. IdOf(u, "events") \notin handler[r]
      <4>1. \A k : IdOf(u, "events") # IdOf(t, "request")
        BY <1>5, IdsApart
      <4>2. CASE u = t
        BY <1>5, <1>11, <1>14, <2>6, <4>1, <4>2
      <4>3. CASE u # t
        <5>1. IdOf(u, "events") # IdOf(t, "events")
          BY <1>5, <4>3, IdsApart
        <5> QED
          BY <1>5, <1>11, <2>6, <4>1, <5>1
      <4> QED
        BY <4>2, <4>3
    <3> QED
      BY <1>5, <2>1, <2>6, <3>1, <3>2 DEF EndsHold
  <2>7. delivered'[u] > 0 =>
           u \in expired \/ (Now(u) /\ call[u[1]].at \in {"wait", "subscribed", "closed"})'
    <3>1. delivered[u] > 0 =>
             u \in expired \/ (Now(u) /\ call[u[1]].at \in {"wait", "subscribed", "closed"})
      BY <2>1 DEF CountsHold
    <3>2. CASE u # t
      BY <1>4, <1>13, <3>1, <3>2
    <3>3. CASE u = t
      <4>1. ASSUME delivered[t] > 0 PROVE ~m.error /\ step = "subscribed"
        <5>1. delivered[t] \in Nat /\ sent[t] \in Nat
          BY <1>5, <1>7, RpcAssumption DEF TypeOK
        <5>2. Pending(s, t) \in Nat /\ delivered[t] + Pending(s, t) <= sent[t]
          BY <1>6, <1>5, <2>1, <3>3 DEF CountsHold
        <5>3. sent[t] # 0
          BY <4>1, <5>1, <5>2
        <5> QED
          BY <1>3, <1>9, <5>3
      <4> QED
        BY <1>2, <1>4, <1>8, <1>10, <3>3, <4>1 DEF Now
    <3> QED
      BY <3>2, <3>3
  <2>8. (Now(u) /\ call[u[1]].at = "returned")' =>
           sent[u] = 0 /\ \A r \in Socket : u \notin serves[r]
    BY <1>9, <1>13, <1>14, <2>1 DEF CountsHold
  <2> QED
    BY <1>4, <1>5, <1>13, <2>2, <2>4, <2>5, <2>6, <2>7, <2>8, ClientStep
<1>20. NetHolds'
  BY <1>19 DEF NetHolds
<1>21. \A u \in expired' : Over(u)'
  BY <1>7, <1>13 DEF TypeOK
<1> QED
  BY <1>12, <1>15, <1>16, <1>17, <1>18, <1>20, <1>21 DEF RpcInvariant

\* An event that comes is of a call that is up, or whose request has timed out.
LEMMA EventOfUp ==
    ASSUME RpcInvariant, NEW s \in Socket, NEW m, NEW t, Came(s, m, t),
           m.id.kind = "events", m.id \in handler[s]
    PROVE  /\ m.id = IdOf(t, "events") /\ t[1] \in Subscribes /\ t[1] \in Call /\ t \in Try
           /\ t \in expired \/ HoldsOn(t, s)
           /\ ~m.error => t \in expired \/ UpOn(t, s)
           /\ \A r \in Socket : r # s => Pending(r, t) = 0
           /\ \A r \in Socket : UpOn(t, r) => r = s
<1> USE DEF RpcInvariant
<1>1. /\ t \in Try /\ m.id = IdOf(t, "events") /\ Told(toClient[s], m.id)
      /\ \A r \in Socket : Pending(r, t) \in Nat
  BY DEF Came
<1>2. t[1] \in Subscribes /\ (t \in expired \/ HoldsOn(t, s))
  BY <1>1 DEF HandlersHold
<1>3. RepliesHold(t)
  BY <1>1 DEF NetHolds
<1>4. ASSUME ~m.error PROVE t \in expired \/ UpOn(t, s)
  <2>1. Pending(s, t) > 0
    BY <1>1, <1>4 DEF Came
  <2>2. ~(Now(t) /\ call[t[1]].at = "returned")
    BY <1>1, <2>1, PendingIsSent
  <2> QED
    BY <1>2, <2>2 DEF HoldsOn
<1>5. ASSUME NEW r \in Socket, r # s PROVE Pending(r, t) = 0
  <2>1. ~Told(toClient[r], IdOf(t, "events"))
    BY <1>1, <1>3, <1>5 DEF RepliesHold
  <2>2. Left(toClient[r], IdOf(t, "events")) = {}
    BY <2>1 DEF Left, Told
  <2> QED
    BY <1>1, <2>2, PendingIsLeft, FS_EmptySet
<1>6. t[1] \in Call
  BY <1>1 DEF Try
<1>7. \A r \in Socket : UpOn(t, r) => r = s
  BY <1>1, <1>3 DEF RepliesHold
<1> QED
  BY <1>1, <1>2, <1>4, <1>5, <1>6, <1>7

\* The handler is given an event.
LEMMA EventGivenKeeps ==
    ASSUME RpcInvariant, NEW s \in Socket, NEW m, NEW t, Came(s, m, t),
           m.id \in handler[s], m.id.kind = "events", ~m.error,
           delivered' = [delivered EXCEPT ![t] = @ + 1],
           UNCHANGED <<call, socket, connection, handler, toServer, serves, owes, sent,
                       expired>>
    PROVE  RpcInvariant'
<1>1. /\ m.id = IdOf(t, "events") /\ t[1] \in Subscribes /\ t[1] \in Call /\ t \in Try
      /\ t \in expired \/ UpOn(t, s)
      /\ \A r \in Socket : r # s => Pending(r, t) = 0
      /\ \A r \in Socket : UpOn(t, r) => r = s
  BY EventOfUp
<1>2. /\ t \in Try /\ IsOpen(s) /\ toClient' \in [Socket -> Seq(Response)]
      /\ \A r \in Socket \ {s} : toClient'[r] = toClient[r]
      /\ \A r \in Socket : \A id :
            /\ Told(toClient'[r], id) => Told(toClient[r], id)
            /\ Refused(toClient'[r], id) => Refused(toClient[r], id)
            /\ Denied(toClient'[r], id) => Denied(toClient[r], id)
            /\ Ends(toClient[r], id) => Ends(toClient'[r], id)
  BY DEF Came
<1>3. ASSUME NEW u \in Try, NEW r \in Socket
      PROVE  /\ Pending(r, u) \in Nat /\ (Pending(r, u))' \in Nat
             /\ Pending(r, u) = (Pending(r, u))' + (IF r = s /\ u = t THEN 1 ELSE 0)
  <2>1. IdOf(u, "events") = m.id <=> u = t
    BY <1>1, IdsApart
  <2> QED
    BY <2>1 DEF Came
<1>4. TypeOK /\ SocketsHold /\ HandlersHold /\ NetHolds
      /\ (\A d \in Call : CallHolds(d)) /\ (\A u \in expired : Over(u))
  BY DEF RpcInvariant
<1>5. /\ delivered \in [Try -> 0..MaxEvent] /\ MaxEvent \in Nat /\ sent \in [Try -> 0..MaxEvent]
      /\ \A u \in Try : delivered[u] \in Nat /\ sent[u] \in Nat
  BY <1>4, RpcAssumption DEF TypeOK
<1>6. /\ delivered'[t] = delivered[t] + 1
      /\ \A u \in Try \ {t} : delivered'[u] = delivered[u]
  BY <1>2, <1>5
<1>7. \A u \in Try, r \in Socket : delivered[u] + Pending(r, u) <= sent[u]
  BY <1>4 DEF NetHolds, CountsHold
<1>8. ASSUME NEW u \in Try, NEW r \in Socket
      PROVE  delivered'[u] + (Pending(r, u))' <= sent[u]
  <2>1. CASE u # t
    BY <1>3, <1>6, <1>7, <2>1
  <2>2. CASE u = t
    <3>1. delivered[t] + Pending(s, t) <= sent[t]
      BY <1>2, <1>7
    <3>2. Pending(s, t) = (Pending(s, t))' + 1 /\ (Pending(s, t))' \in Nat
      BY <1>2, <1>3
    <3>3. CASE r = s
      BY <1>2, <1>5, <1>6, <2>2, <3>1, <3>2, <3>3
    <3>4. CASE r # s
      <4>1. (Pending(r, t))' = 0
        BY <1>1, <1>2, <1>3, <3>4
      <4> QED
        BY <1>2, <1>5, <1>6, <2>2, <3>1, <3>2, <4>1
    <3> QED
      BY <3>3, <3>4
  <2> QED
    BY <2>1, <2>2
<1>9. TypeOK'
  <2>1. delivered'[t] \in 0..MaxEvent
    <3>1. delivered'[t] + (Pending(s, t))' <= sent[t] /\ (Pending(s, t))' \in Nat
      BY <1>2, <1>3, <1>8
    <3> QED
      BY <1>2, <1>5, <1>6, <3>1
  <2>2. delivered' \in [Try -> 0..MaxEvent]
    BY <1>2, <1>5, <1>6, <2>1
  <2> QED
    BY <1>2, <1>4, <2>2 DEF TypeOK
<1>10. \A u : /\ (Begun(u))' = Begun(u) /\ (Over(u))' = Over(u) /\ (Now(u))' = Now(u)
              /\ \A r : /\ (WaitsOn(u, r))' = WaitsOn(u, r) /\ (UpOn(u, r))' = UpOn(u, r)
                        /\ (HoldsOn(u, r))' = HoldsOn(u, r)
  BY DEF Begun, Over, Past, Now, WaitsOn, UpOn, HoldsOn
<1>11. ASSUME NEW d \in Call PROVE CallHolds(d)'
  BY <1>4, CallStays
<1>12. SocketsHold'
  BY <1>2, SocketsStay
<1>13. HandlersHold'
  BY <1>4, <1>10 DEF HandlersHold
<1>14. ASSUME NEW u \in Try
       PROVE  (EndsHold(u) /\ AsksHold(u) /\ ServesHold(u) /\ OwesHold(u)
                  /\ RepliesHold(u) /\ CountsHold(u))'
  <2>1. EndsHold(u) /\ AsksHold(u) /\ ServesHold(u) /\ CountsHold(u)
    BY <1>4 DEF NetHolds
  <2>2. \A r \in Socket :
           /\ In(toServer[r], IdOf(u, "request")) => u \in expired \/ WaitsOn(u, r)
           /\ ~In(toServer[r], IdOf(u, "events"))
           /\ u \in serves[r] =>
                 u \in expired \/ In(toServer[r], IdOf(u, "close")) \/ UpOn(u, r)
           /\ UpOn(u, r) /\ u[1] \in Subscribes /\ IdOf(u, "events") \notin handler[r] =>
                 \A q \in Socket :
                    /\ u \notin serves[q]
                    /\ ~In(toServer[q], IdOf(u, "request"))
                    /\ ~Told(toClient'[q], IdOf(u, "events"))
    BY <1>2, <2>1 DEF AsksHold, ServesHold, EndsHold
  <2>3. ASSUME NEW r \in Socket, UpOn(u, r)
        PROVE  delivered'[u] + (Pending(r, u))' = delivered[u] + Pending(r, u)
    <3>1. CASE u = t
      <4>1. Pending(s, t) = (Pending(s, t))' + 1 /\ (Pending(s, t))' \in Nat
        BY <1>2, <1>3
      <4>2. delivered'[t] = delivered[t] + 1 /\ delivered[t] \in Nat
        BY <1>2, <1>5, <1>6
      <4>3. r = s
        BY <1>1, <2>3, <3>1
      <4> QED
        BY <3>1, <4>1, <4>2, <4>3
    <3>2. CASE u # t
      <4>1. Pending(r, u) = (Pending(r, u))'
        BY <1>3, <3>2
      <4> QED
        BY <1>6, <3>2, <4>1
    <3> QED
      BY <3>1, <3>2
  <2>4. delivered'[u] > 0 =>
           u \in expired \/ (Now(u) /\ call[u[1]].at \in {"wait", "subscribed", "closed"})
    <3>1. CASE u # t
      BY <1>6, <2>1, <3>1 DEF CountsHold
    <3>2. CASE u = t
      BY <1>1, <3>2 DEF UpOn
    <3> QED
      BY <3>1, <3>2
  <2>5. Now(u) /\ call[u[1]].at = "returned" =>
           sent[u] = 0 /\ \A r \in Socket : u \notin serves[r]
    BY <2>1 DEF CountsHold
  <2> QED
    BY <1>2, <1>8, <1>10, <2>2, <2>3, <2>4, <2>5, ClientStep
<1>15. NetHolds'
  BY <1>14 DEF NetHolds
<1>16. \A u \in expired' : Over(u)'
  BY <1>4, <1>10
<1> QED
  BY <1>9, <1>11, <1>12, <1>13, <1>15, <1>16 DEF RpcInvariant

\* A subscription ends: close() by the caller, or an error in place of an event,
\* which has been read.
LEMMA EndKeeps ==
    ASSUME RpcInvariant, NEW s \in Socket, NEW t \in Try, NEW c \in Call, c = t[1],
           c \in Subscribes, t \in expired \/ HoldsOn(t, s),
           CloseSubscription(s, t),
           call' = IF Now(t) /\ call[c].at = "subscribed"
                   THEN [call EXCEPT ![c].at = "closed"] ELSE call,
           UNCHANGED <<socket, connection, serves, owes, sent, delivered, expired>>,
           \/ UNCHANGED toClient /\ call[c].at = "subscribed" /\ UpOn(t, s)
           \/ \E m : Came(s, m, t) /\ m.id = IdOf(t, "events") /\ m.error
    PROVE  RpcInvariant'
<1>1. TypeOK /\ SocketsHold /\ HandlersHold /\ NetHolds
      /\ (\A d \in Call : CallHolds(d)) /\ (\A u \in expired : Over(u))
  BY DEF RpcInvariant
<1>2. /\ handler' = [handler EXCEPT ![s] = (@ \ {IdOf(t, "events")}) \cup {IdOf(t, "close")}]
      /\ Sends(s, IdOf(t, "close"))
      /\ IdOf(t, "events") \in Id /\ IdOf(t, "close") \in Id
  BY IdsApart DEF CloseSubscription
<1>3. /\ t \in expired => \A r : ~UpOn(t, r) /\ ~WaitsOn(t, r) /\ ~HoldsOn(t, r)
      /\ \A r : HoldsOn(t, r) => r = s
      /\ \A r : UpOn(t, r) => r = s
  <2>1. t \in expired => \A r : ~UpOn(t, r) /\ ~WaitsOn(t, r) /\ ~HoldsOn(t, r)
    BY <1>1, OverIsDown
  <2>2. HoldsOn(t, s) => \A r : HoldsOn(t, r) => r = s
    BY DEF HoldsOn, UpOn
  <2> QED
    BY <2>1, <2>2 DEF HoldsOn
<1>4. call \in [Call -> CallType]
  BY <1>1 DEF TypeOK, CallType
<1>5. /\ Moved(c)
      /\ call'[c].at = IF Now(t) /\ call[c].at = "subscribed" THEN "closed" ELSE call[c].at
      /\ call'[c].place = call[c].place /\ call'[c].socket = call[c].socket
  <2>1. CASE Now(t) /\ call[c].at = "subscribed"
    <3>1. call' = [call EXCEPT ![c].at = "closed"]
      BY <2>1
    <3> QED
      BY <1>4, <2>1, <3>1 DEF Moved, CallType, CallStep
  <2>2. CASE ~(Now(t) /\ call[c].at = "subscribed")
    BY <1>4, <2>2 DEF Moved
  <2> QED
    BY <2>1, <2>2
<1>6. /\ handler' \in [Socket -> SUBSET Id]
      /\ \A r \in Socket \ {s} : handler'[r] = handler[r]
      /\ handler'[s] = (handler[s] \ {IdOf(t, "events")}) \cup {IdOf(t, "close")}
  BY <1>1, <1>2 DEF TypeOK
<1>7. ASSUME NEW u \in Try, NEW r \in Socket, NEW k \in {"request", "events"}
      PROVE  /\ IdOf(u, k) \in handler'[r] => IdOf(u, k) \in handler[r]
             /\ (u # t \/ k # "events" \/ r # s) /\ IdOf(u, k) \in handler[r] =>
                   IdOf(u, k) \in handler'[r]
             /\ IdOf(t, "events") \notin handler'[s]
  <2>1. /\ IdOf(u, k) # IdOf(t, "close") /\ (IdOf(u, k) = IdOf(t, "events") => u = t /\ k = "events")
        /\ IdOf(t, "events") # IdOf(t, "close")
    BY IdsApart
  <2> QED
    BY <1>6, <2>1
<1>8. /\ toServer' \in [Socket -> Seq(Id)]
      /\ \A r \in Socket \ {s} : toServer'[r] = toServer[r]
      /\ \/ IsOpen(s) /\ toServer'[s] = Append(toServer[s], IdOf(t, "close"))
         \/ ~IsOpen(s) /\ toServer'[s] = toServer[s]
  BY <1>1, <1>2 DEF Sends, TypeOK
<1>9. ASSUME NEW u \in Try, NEW r \in Socket
      PROVE  /\ \A k \in {"request", "events"} :
                   In(toServer'[r], IdOf(u, k)) => In(toServer[r], IdOf(u, k))
             /\ Once(toServer[r], IdOf(u, "request")) => Once(toServer'[r], IdOf(u, "request"))
             /\ In(toServer[r], IdOf(u, "close")) => In(toServer'[r], IdOf(u, "close"))
             /\ r = s /\ IsOpen(s) => In(toServer'[s], IdOf(t, "close"))
  <2>1. \A k \in {"request", "events"} : IdOf(u, k) # IdOf(t, "close")
    BY IdsApart
  <2>2. toServer[s] \in Seq(Id)
    BY <1>1 DEF TypeOK
  <2>3. CASE r = s /\ IsOpen(s)
    <3>1. toServer'[s] = Append(toServer[s], IdOf(t, "close"))
      BY <1>8, <2>3
    <3>2. \A id : /\ In(toServer'[s], id) <=> In(toServer[s], id) \/ IdOf(t, "close") = id
                  /\ Once(toServer[s], id) /\ IdOf(t, "close") # id => Once(toServer'[s], id)
      BY <1>2, <2>2, <3>1, InAppend
    <3> QED
      BY <2>1, <2>3, <3>2
  <2>4. CASE ~(r = s /\ IsOpen(s))
    BY <1>8, <2>4
  <2> QED
    BY <2>3, <2>4
<1>10. /\ toClient' \in [Socket -> Seq(Response)]
       /\ \A r \in Socket : ~IsOpen(r) => toClient'[r] = toClient[r]
       /\ \A r \in Socket : \A id :
             /\ Told(toClient'[r], id) => Told(toClient[r], id)
             /\ Refused(toClient'[r], id) => Refused(toClient[r], id)
             /\ Denied(toClient'[r], id) => Denied(toClient[r], id)
             /\ Ends(toClient[r], id) => Ends(toClient'[r], id)
  <2>1. CASE UNCHANGED toClient
    BY <1>1, <2>1 DEF TypeOK
  <2>2. CASE \E m : Came(s, m, t)
    BY <2>2 DEF Came
  <2> QED
    BY <2>1, <2>2
<1>11. ASSUME NEW u \in Try, NEW r \in Socket
       PROVE  Pending(r, u) \in Nat /\ (Pending(r, u))' = Pending(r, u)
  <2>1. CASE UNCHANGED toClient
    <3>1. (Pending(r, u))' = Pending(r, u)
      BY <2>1 DEF Pending
    <3> QED
      BY <1>1, <3>1, PendingIsLeft
  <2>2. CASE \E m : Came(s, m, t) /\ m.error
    BY <2>2 DEF Came
  <2> QED
    BY <2>1, <2>2
<1>12. TypeOK'
  BY <1>1, <1>5, <1>6, <1>8, <1>10 DEF TypeOK, Moved, CallType
<1>13. ASSUME NEW u \in Try
       PROVE  /\ Begun(u) => Begun(u)'
              /\ Over(u) => Over(u)'
              /\ \A r : /\ WaitsOn(u, r)' = WaitsOn(u, r)
                        /\ UpOn(u, r)' => UpOn(u, r)
                        /\ UpOn(u, r) => UpOn(u, r)' \/ u = t
                        /\ HoldsOn(u, r) => HoldsOn(u, r)' \/ u = t
              /\ (Now(u) /\ call[u[1]].at = "returned")' =>
                    Now(u) /\ call[u[1]].at = "returned"
              /\ Now(u) /\ call[u[1]].at \in {"wait", "subscribed", "closed"} =>
                   (Now(u) /\ call[u[1]].at \in {"wait", "subscribed", "closed"})'
  <2>1. (Begun(u) => Begun(u)') /\ (Over(u) => Over(u)')
    BY <1>1, <1>5, MovedStays
  <2>2. CASE u[1] = c
    <3>1. Now(u) /\ Now(t) => u = t
      BY <2>2, TriesApart
    <3>2. Now(u)' = Now(u)
      BY <1>5, <2>2 DEF Now
    <3> QED
      BY <1>5, <2>1, <2>2, <3>1, <3>2 DEF WaitsOn, UpOn, HoldsOn
  <2>3. CASE u[1] # c
    <3>1. /\ Now(u)' = Now(u)
          /\ \A r : WaitsOn(u, r)' = WaitsOn(u, r)
          /\ \A r : UpOn(u, r)' = UpOn(u, r)
      BY <1>1, <1>5, <2>3, MovedStays
    <3>2. call'[u[1]] = call[u[1]]
      BY <1>5, <2>3, TriesApart DEF Moved
    <3> QED
      BY <2>1, <3>1, <3>2 DEF HoldsOn
  <2> QED
    BY <2>2, <2>3
<1>14. \A r : HoldsOn(t, r) => HoldsOn(t, r)' \/ (Now(t) /\ call[c].at = "subscribed")
  BY <1>5 DEF HoldsOn, UpOn, Now
<1>15. call[c].at = "subscribed" => \A r : ~UpOn(t, r)'
  <2>1. CASE Now(t) /\ call[c].at = "subscribed"
    BY <1>5, <2>1 DEF UpOn, Now
  <2>2. CASE ~Now(t)
    BY <1>5, <2>2 DEF UpOn, Now
  <2> QED
    BY <2>1, <2>2
<1>16. CallHolds(c)'
  <2>1. CASE Now(t) /\ call[c].at = "subscribed"
    BY <1>1, <1>5, <2>1 DEF CallHolds
  <2>2. CASE ~(Now(t) /\ call[c].at = "subscribed")
    <3>1. call' = call
      BY <2>2
    <3>2. \A r \in Socket : IdOf(Tries(c), "request") \in handler[r] =>
                               IdOf(Tries(c), "request") \in handler'[r]
      <4>1. IdOf(Tries(c), "request") # IdOf(t, "events")
        BY DEF IdOf
      <4> QED
        BY <1>6, <4>1
    <3> QED
      BY <1>1, <3>1, <3>2, CallStays
  <2> QED
    BY <2>1, <2>2
<1>17. ASSUME NEW d \in Call, d # c PROVE CallHolds(d)'
  <2>1. call'[d] = call[d] /\ \A e \in Call : call'[e].at = "connect" => call'[e] = call[e]
    BY <1>5, <1>17 DEF Moved
  <2>2. \A k, l : IdOf(Tries(d), k) # IdOf(t, l)
    BY <1>17 DEF IdOf, Tries
  <2>3. \A r \in Socket : \A k : IdOf(Tries(d), k) \in handler[r] =>
                             IdOf(Tries(d), k) \in handler'[r]
    BY <1>6, <2>2
  <2> QED
    BY <1>1, <2>1, <2>3, CallStays
<1>18. SocketsHold'
  <2>1. \A r \in Socket : ~IsOpen(r) => toServer'[r] = toServer[r]
    BY <1>8
  <2> QED
    BY <1>10, <2>1, SocketsStay
<1>19. HandlersHold'
  <2>1. SUFFICES ASSUME NEW r \in Socket, NEW u \in Try
                 PROVE  /\ IdOf(u, "request") \in handler'[r] => WaitsOn(u, r)'
                        /\ IdOf(u, "events") \in handler'[r] =>
                              u[1] \in Subscribes /\ (u \in expired' \/ HoldsOn(u, r)')
    BY DEF HandlersHold
  <2>2. /\ IdOf(u, "request") \in handler'[r] => WaitsOn(u, r)
        /\ IdOf(u, "events") \in handler'[r] =>
              u[1] \in Subscribes /\ (u \in expired \/ HoldsOn(u, r))
    BY <1>1, <1>7 DEF HandlersHold
  <2>3. u = t /\ IdOf(u, "events") \in handler'[r] => r # s
    BY <1>7
  <2> QED
    BY <1>3, <1>13, <2>2, <2>3
<1>20. ASSUME NEW u \in Try
       PROVE  (EndsHold(u) /\ AsksHold(u) /\ ServesHold(u) /\ OwesHold(u)
                  /\ RepliesHold(u) /\ CountsHold(u))'
  <2>1. EndsHold(u) /\ AsksHold(u) /\ ServesHold(u) /\ RepliesHold(u) /\ CountsHold(u)
    BY <1>1 DEF NetHolds
  <2>2. ASSUME NEW r \in Socket
        PROVE  /\ delivered'[u] + (Pending(r, u))' <= sent[u]
               /\ (UpOn(u, r))' =>
                     delivered'[u] + (Pending(r, u))' = delivered[u] + Pending(r, u)
    BY <1>11, <2>1 DEF CountsHold
  <2>3. \A r \in Socket :
           /\ In(toServer'[r], IdOf(u, "request")) =>
                 In(toServer[r], IdOf(u, "request")) /\ (u \in expired \/ WaitsOn(u, r)')
           /\ ~In(toServer'[r], IdOf(u, "events"))
           /\ Once(toServer[r], IdOf(u, "request")) => Once(toServer'[r], IdOf(u, "request"))
    BY <1>9, <1>13, <2>1 DEF AsksHold
  <2>4. ASSUME u = t, call[c].at # "subscribed"
        PROVE  \A q \in Socket :
                  /\ t \notin serves[q]
                  /\ ~In(toServer[q], IdOf(t, "request"))
                  /\ ~Told(toClient'[q], IdOf(t, "events"))
    <3>1. PICK m : Came(s, m, t) /\ m.id = IdOf(t, "events") /\ m.error
      BY <2>4
    <3>2. /\ Told(toClient[s], IdOf(t, "events")) /\ Refused(toClient[s], IdOf(t, "events"))
          /\ Ends(toClient[s], IdOf(t, "events")) => ~Told(toClient'[s], IdOf(t, "events"))
      BY <3>1 DEF Came
    <3>3. ~Told(toClient'[s], IdOf(t, "events"))
      BY <2>1, <2>4, <3>2 DEF EndsHold
    <3>4. \A q \in Socket : /\ t \notin serves[q]
                            /\ ~In(toServer[q], IdOf(t, "request"))
                            /\ Told(toClient[q], IdOf(t, "events")) => q = s
      BY <2>1, <2>4, <3>2 DEF ServesHold, AsksHold, RepliesHold
    <3> QED
      BY <1>10, <3>3, <3>4
  <2>5. ASSUME NEW r \in Socket, u \in serves[r]
        PROVE  u \in expired \/ In(toServer'[r], IdOf(u, "close")) \/ UpOn(u, r)'
    <3>1. /\ u \in expired \/ In(toServer[r], IdOf(u, "close")) \/ UpOn(u, r)
          /\ IsOpen(r)
      BY <1>1, <2>1, <2>5 DEF ServesHold, SocketsHold
    <3>2. CASE u # t
      BY <1>9, <1>13, <3>1, <3>2
    <3>3. CASE u = t
      BY <1>3, <1>9, <2>4, <2>5, <3>1, <3>3
    <3> QED
      BY <3>2, <3>3
  <2>6. ASSUME NEW r \in Socket, UpOn(u, r)', u[1] \in Subscribes,
               IdOf(u, "events") \notin handler'[r], NEW q \in Socket
        PROVE  /\ u \notin serves[q]
               /\ ~In(toServer[q], IdOf(u, "request"))
               /\ ~Told(toClient'[q], IdOf(u, "events"))
    <3>1. CASE u # t
      <4>1. UpOn(u, r) /\ IdOf(u, "events") \notin handler[r]
        BY <1>7, <1>13, <2>6, <3>1
      <4> QED
        BY <1>10, <2>1, <2>6, <4>1 DEF EndsHold
    <3>2. CASE u = t
      <4>1. call[c].at # "subscribed"
        BY <1>15, <2>6, <3>2
      <4> QED
        BY <2>4, <3>2, <4>1
    <3> QED
      BY <3>1, <3>2
  <2>7. delivered[u] > 0 =>
           u \in expired \/ (Now(u) /\ call[u[1]].at \in {"wait", "subscribed", "closed"})'
    BY <1>13, <2>1 DEF CountsHold
  <2>8. (Now(u) /\ call[u[1]].at = "returned")' =>
           sent[u] = 0 /\ \A r \in Socket : u \notin serves[r]
    BY <1>13, <2>1 DEF CountsHold
  <2> QED
    BY <1>10, <1>13, <2>2, <2>3, <2>5, <2>6, <2>7, <2>8, ClientStep
<1>21. NetHolds'
  BY <1>20 DEF NetHolds
<1>22. \A u \in expired' : Over(u)'
  BY <1>1, <1>13 DEF TypeOK
<1> QED
  BY <1>12, <1>16, <1>17, <1>18, <1>19, <1>21, <1>22 DEF RpcInvariant

LEMMA CloseKeeps ==
    ASSUME RpcInvariant, NEW c \in Call, Close(c)
    PROVE  RpcInvariant'
<1>1. PICK s, t : s = call[c].socket /\ t = Tries(c)
  OBVIOUS
<1>2. /\ call[c].at = "subscribed" /\ CloseSubscription(s, t)
      /\ call' = [call EXCEPT ![c].at = "closed"]
      /\ UNCHANGED <<socket, connection, toClient, serves, owes, sent, delivered, expired>>
  BY <1>1 DEF Close, At, Goto
<1>3. CallHolds(c)
  BY DEF RpcInvariant
<1>4. s \in Socket /\ c \in Subscribes /\ call[c].place \in Place
  BY <1>1, <1>2, <1>3, Places DEF CallHolds
<1>5. t \in Try /\ c = t[1] /\ Now(t) /\ UpOn(t, s)
  <2>1. t \in Try
    BY <1>1, <1>4 DEF Tries, Try
  <2> QED
    BY <1>1, <1>2, <2>1, TriesApart DEF UpOn
<1> QED
  BY <1>2, <1>4, <1>5, EndKeeps DEF HoldsOn

LEMMA ReceiveKeeps ==
    ASSUME RpcInvariant, NEW s \in Socket, Receive(s)
    PROVE  RpcInvariant'
<1>1. PICK m, t : m = Head(toClient[s]) /\ t = <<m.id.call, m.id.place>>
  OBVIOUS
<1>2. /\ toClient[s] # << >> /\ toClient' = [toClient EXCEPT ![s] = Tail(@)]
      /\ UNCHANGED <<socket, connection, serves, owes, sent, expired>>
      /\ \/ m.id \notin handler[s] /\ UNCHANGED <<call, handler, toServer, delivered>>
         \/ /\ m.id \in handler[s]
            /\ Responded(s, m) \/ EventArrives(s, m) \/ CloseConfirmed(s, m)
  BY <1>1 DEF Receive
<1>3. Came(s, m, t)
  BY <1>1, <1>2, Comes
<1>4. CASE m.id \notin handler[s] /\ UNCHANGED <<call, handler, toServer, delivered>>
  BY <1>1, <1>2, <1>4, SkipKeeps
<1>5. CASE m.id \in handler[s] /\ Responded(s, m)
  BY <1>1, <1>2, <1>5, RespondedKeeps
<1>6. CASE m.id \in handler[s] /\ CloseConfirmed(s, m)
  BY <1>1, <1>2, <1>6, SkipKeeps DEF CloseConfirmed
<1>7. CASE m.id \in handler[s] /\ EventArrives(s, m)
  <2>1. PICK c : c = t[1]
    OBVIOUS
  <2>2. /\ m.id.kind = "events" /\ m.id.call = c
        /\ \/ /\ m.error /\ CloseSubscription(s, t)
              /\ call' = IF At(c, "subscribed") /\ Tries(c) = t
                         THEN [call EXCEPT ![c].at = "closed"] ELSE call
              /\ UNCHANGED delivered
           \/ /\ ~m.error /\ delivered' = [delivered EXCEPT ![t] = @ + 1]
              /\ UNCHANGED <<handler, toServer, call>>
    BY <1>1, <1>7, <2>1 DEF EventArrives
  <2>3. /\ m.id = IdOf(t, "events") /\ c \in Call /\ c \in Subscribes
        /\ t \in expired \/ HoldsOn(t, s)
        /\ t \in Try
    BY <1>3, <1>7, <2>1, <2>2, EventOfUp
  <2>4. CASE ~m.error
    BY <1>2, <1>3, <1>7, <2>2, <2>4, EventGivenKeeps
  <2>5. CASE m.error
    <3>1. Tries(c) = t <=> Now(t)
      BY <2>1, <2>3, TriesApart
    <3>2. call' = IF Now(t) /\ call[c].at = "subscribed"
                  THEN [call EXCEPT ![c].at = "closed"] ELSE call
      BY <2>2, <2>5, <3>1 DEF At
    <3>3. UNCHANGED <<socket, connection, serves, owes, sent, delivered, expired>>
      BY <1>2, <2>2, <2>5
    <3>4. CloseSubscription(s, t)
      BY <2>2, <2>5
    <3> QED
      BY <1>3, <2>1, <2>3, <2>5, <3>2, <3>3, <3>4, EndKeeps
  <2> QED
    BY <2>2, <2>4, <2>5
<1> QED
  BY <1>2, <1>4, <1>5, <1>6, <1>7

-----------------------------------------------------------------------------
LEMMA InitHolds == Init => RpcInvariant
<1> SUFFICES ASSUME Init PROVE RpcInvariant
  OBVIOUS
<1> USE DEF Init
<1>1. MaxEvent \in Nat /\ 0 \in 0..MaxEvent
  BY RpcAssumption
<1>2. TypeOK
  BY <1>1 DEF TypeOK, CallStep
<1>3. \A c \in Call : CallHolds(c)
  BY Places DEF CallHolds
<1>4. SocketsHold
  BY DEF SocketsHold, IsOpen
<1>5. HandlersHold
  BY DEF HandlersHold
<1>6. \A s \in Socket, t \in Try : \A k :
         /\ ~In(toServer[s], IdOf(t, k)) /\ ~Told(toClient[s], IdOf(t, k))
         /\ ~Denied(toClient[s], IdOf(t, k)) /\ Ends(toClient[s], IdOf(t, k))
         /\ ~UpOn(t, s) /\ ~WaitsOn(t, s) /\ Pending(s, t) = 0
  <2>1. ASSUME NEW s \in Socket, NEW t \in Try, NEW k
        PROVE  /\ ~In(toServer[s], IdOf(t, k)) /\ ~Told(toClient[s], IdOf(t, k))
               /\ ~Denied(toClient[s], IdOf(t, k)) /\ Ends(toClient[s], IdOf(t, k))
               /\ ~UpOn(t, s) /\ ~WaitsOn(t, s)
    BY DEF In, Told, Denied, Ends, UpOn, WaitsOn, Try
  <2>2. ASSUME NEW s \in Socket, NEW t \in Try PROVE Pending(s, t) = 0
    <3>1. Pending(s, t) = Cardinality({})
      BY DEF Pending
    <3> QED
      BY <3>1, FS_EmptySet
  <2> QED
    BY <2>1, <2>2
<1>7. ASSUME NEW t \in Try
      PROVE  /\ EndsHold(t) /\ AsksHold(t) /\ ServesHold(t)
             /\ OwesHold(t) /\ RepliesHold(t) /\ CountsHold(t)
  <2>1. sent[t] = 0 /\ delivered[t] = 0 /\ call[t[1]].at = "new"
    BY DEF Try
  <2>2. EndsHold(t) /\ AsksHold(t) /\ RepliesHold(t)
    BY <1>6 DEF EndsHold, AsksHold, RepliesHold
  <2>3. ServesHold(t) /\ OwesHold(t)
    BY <2>1 DEF ServesHold, OwesHold
  <2>4. CountsHold(t)
    BY <1>6, <2>1 DEF CountsHold
  <2> QED
    BY <2>2, <2>3, <2>4
<1>8. NetHolds
  BY <1>7 DEF NetHolds
<1> QED
  BY <1>2, <1>3, <1>4, <1>5, <1>8 DEF RpcInvariant

LEMMA StutterKeeps == RpcInvariant /\ UNCHANGED vars => RpcInvariant'
<1> SUFFICES ASSUME RpcInvariant, UNCHANGED vars PROVE RpcInvariant'
  OBVIOUS
<1> USE DEF vars, net
<1>1. TypeOK /\ SocketsHold /\ HandlersHold /\ NetHolds
      /\ (\A d \in Call : CallHolds(d)) /\ (\A u \in expired : Over(u))
  BY DEF RpcInvariant
<1>2. TypeOK'
  BY <1>1 DEF TypeOK
<1>3. \A t : /\ (Begun(t))' = Begun(t) /\ (Over(t))' = Over(t) /\ (Now(t))' = Now(t)
             /\ \A r : /\ (WaitsOn(t, r))' = WaitsOn(t, r) /\ (UpOn(t, r))' = UpOn(t, r)
                       /\ (HoldsOn(t, r))' = HoldsOn(t, r)
  BY DEF Begun, Over, Past, Now, WaitsOn, UpOn, HoldsOn
<1>4. \A c \in Call : CallHolds(c)'
  BY <1>1 DEF CallHolds, Tries
<1>5. SocketsHold' /\ HandlersHold'
  BY <1>1, <1>3 DEF SocketsHold, HandlersHold, IsOpen
<1>6. NetHolds'
  BY <1>1, <1>3, NetStays
<1>7. \A u \in expired' : Over(u)'
  BY <1>1, <1>3
<1> QED
  BY <1>2, <1>4, <1>5, <1>6, <1>7 DEF RpcInvariant

LEMMA StepKeeps == RpcInvariant /\ [Next]_vars => RpcInvariant'
<1> SUFFICES ASSUME RpcInvariant, [Next]_vars PROVE RpcInvariant'
  OBVIOUS
<1>1. ASSUME NEW c \in Call,
             SendRequest(c) \/ GetServerInfo(c) \/ SendHttp(c) \/ Fetched(c) \/ ConnectError(c)
      PROVE  RpcInvariant'
  BY <1>1, QuietActionsKeep
<1>2. ASSUME NEW c \in Call, SendOnConnection(c) PROVE RpcInvariant'
  BY <1>2, SendOnConnectionKeeps
<1>3. ASSUME NEW c \in Call, Connect(c) PROVE RpcInvariant'
  BY <1>3, ConnectKeeps
<1>4. ASSUME NEW c \in Call, Opened(c) PROVE RpcInvariant'
  BY <1>4, OpenedKeeps
<1>5. ASSUME NEW c \in Call, Timeout(c) PROVE RpcInvariant'
  BY <1>5, TimeoutKeeps
<1>6. ASSUME NEW c \in Call, Close(c) PROVE RpcInvariant'
  BY <1>6, CloseKeeps
<1>7. ASSUME NEW s \in Socket, Receive(s) PROVE RpcInvariant'
  BY <1>7, ReceiveKeeps
<1>8. ASSUME NEW s \in Socket, Process(s) PROVE RpcInvariant'
  BY <1>8, ProcessKeeps
<1>9. ASSUME NEW s \in Socket, Disconnect(s) PROVE RpcInvariant'
  BY <1>9, DisconnectKeeps
<1>10. ASSUME NEW s \in Socket, NEW t \in serves[s], Event(s, t) PROVE RpcInvariant'
  BY <1>10, EventKeeps
<1>11. ASSUME NEW s \in Socket, NEW id \in handler[s], CloseTimeout(s, id) PROVE RpcInvariant'
  BY <1>11, CloseTimeoutKeeps
<1>12. ASSUME NEW s \in Socket, NEW t \in owes[s], Respond(s, t) PROVE RpcInvariant'
  BY <1>12, RespondKeeps
<1>13. CASE UNCHANGED vars
  BY <1>13, StutterKeeps
<1> QED
  BY <1>1, <1>2, <1>3, <1>4, <1>5, <1>6, <1>7, <1>8, <1>9, <1>10, <1>11, <1>12, <1>13
     DEF Next

\* The inductive invariant, of every reachable state.
THEOREM RpcInvariantHolds == Spec => []RpcInvariant
<1>1. Init => RpcInvariant
  BY InitHolds
<1>2. RpcInvariant /\ [Next]_vars => RpcInvariant'
  BY StepKeeps
<1> QED
  BY <1>1, <1>2, PTL DEF Spec

\* Safety (json-rpc-socket.ts, web-socket-clients.ts, dwn-api.ts): no handler is
\* left on a socket and no subscription on a server that the call they were made
\* for does not account for, and a handler hears of one endpoint only; but for
\* the tries whose request has timed out, and the handler of a call whose reply
\* brought no subscription.
THEOREM AccountedHolds == Spec => []Accounted
<1>1. RpcInvariant => Accounted
  <2> SUFFICES ASSUME RpcInvariant PROVE Accounted
    OBVIOUS
  <2> USE DEF RpcInvariant
  <2>1. HandlersAccounted
    <3>1. SUFFICES ASSUME NEW s \in Socket, NEW id \in handler[s], NEW c, NEW t,
                          c = id.call, t = <<c, id.place>>
                   PROVE  \/ t \in expired /\ id.kind = "events"
                          \/ id.kind = "close"
                          \/ /\ Tries(c) = t /\ call[c].socket = s
                             /\ \/ At(c, "wait")
                                \/ /\ id.kind = "events"
                                   /\ call[c].at \in {"subscribed", "returned"}
      BY DEF HandlersAccounted
    <3>2. /\ t \in Try /\ id = IdOf(t, id.kind) /\ c = t[1] /\ c \in Call
          /\ id.kind \in {"request", "events", "close"}
      <4>1. id \in Id
        BY DEF TypeOK
      <4>2. c \in Call
        BY <3>1, <4>1 DEF Id
      <4> QED
        BY <3>1, <4>1, <4>2, IdsApart
    <3>3. CASE id.kind = "request"
      <4>1. WaitsOn(t, s)
        BY <3>2, <3>3 DEF HandlersHold
      <4> QED
        BY <3>2, <4>1, TriesApart DEF WaitsOn, At
    <3>4. CASE id.kind = "events"
      <4>1. t \in expired \/ HoldsOn(t, s)
        BY <3>2, <3>4 DEF HandlersHold
      <4> QED
        BY <3>2, <3>4, <4>1, TriesApart DEF HoldsOn, UpOn, At
    <3> QED
      BY <3>2, <3>3, <3>4
  <2>2. ServedAccounted
    <3>1. SUFFICES ASSUME NEW s \in Socket, NEW t \in serves[s]
                   PROVE  \/ t \in expired
                          \/ IdOf(t, "close") \in ToSet(toServer[s])
                          \/ Tries(t[1]) = t /\ (At(t[1], "wait") \/ At(t[1], "subscribed"))
      BY DEF ServedAccounted
    <3>2. t \in Try /\ t[1] \in Call
      BY DEF TypeOK, Try
    <3>3. t \in expired \/ In(toServer[s], IdOf(t, "close")) \/ UpOn(t, s)
      BY <3>2 DEF NetHolds, ServesHold
    <3>4. In(toServer[s], IdOf(t, "close")) => IdOf(t, "close") \in ToSet(toServer[s])
      BY DEF In, ToSet
    <3> QED
      BY <3>2, <3>3, <3>4, TriesApart DEF UpOn, At
  <2>3. OneSource
    <3>1. SUFFICES ASSUME NEW c \in Call, NEW e \in Place, NEW f \in Place, e # f,
                          delivered[<<c, e>>] > 0, delivered[<<c, f>>] > 0,
                          <<c, e>> \notin expired, <<c, f>> \notin expired
                   PROVE  FALSE
      BY DEF OneSource
    <3>2. <<c, e>> \in Try /\ <<c, f>> \in Try
      BY DEF Try
    <3>3. Now(<<c, e>>) /\ Now(<<c, f>>)
      BY <3>1, <3>2 DEF NetHolds, CountsHold
    <3> QED
      BY <3>1, <3>3 DEF Now
  <2> QED
    BY <2>1, <2>2, <2>3 DEF Accounted
<1> QED
  BY <1>1, RpcInvariantHolds, PTL

\* Safety (json-rpc-socket.ts lines 137-139): the events of a subscription that is
\* up have been given to its handler, or are on their way to it, the ones sent
\* ahead of the response included.
THEOREM NoEventLostHolds == Spec => []NoEventLost
<1>1. RpcInvariant => NoEventLost
  <2> SUFFICES ASSUME RpcInvariant, NEW c \in Call, Subscribed(c)
               PROVE  sent[Tries(c)] = delivered[Tries(c)] + Pending(call[c].socket, Tries(c))
    BY DEF NoEventLost
  <2> USE DEF RpcInvariant
  <2>1. PICK t, s : t = Tries(c) /\ s = call[c].socket
    OBVIOUS
  <2>2. /\ call[c].at = "subscribed" /\ s \in Socket /\ IsOpen(s)
        /\ call[c].place \in Place
    BY <2>1, Places DEF Subscribed, At, CallHolds
  <2>3. t \in Try /\ UpOn(t, s)
    <3>1. t \in Try
      BY <2>1, <2>2 DEF Tries, Try
    <3> QED
      BY <2>1, <2>2, <3>1, TriesApart DEF UpOn
  <2>4. sent[t] = delivered[t] + Pending(s, t)
    BY <2>2, <2>3 DEF NetHolds, CountsHold
  <2> QED
    BY <2>1, <2>4
<1> QED
  BY <1>1, RpcInvariantHolds, PTL

\* Action (lines 128-131 and 147): a call that is closed is given no event more.
THEOREM SilentAfterCloseHolds == Spec => SilentAfterClose
<1> DEFINE Silent == \A c \in Call : At(c, "closed") => delivered'[Tries(c)] = delivered[Tries(c)]
<1>1. RpcInvariant /\ [Next]_vars => [Silent]_vars
  <2> SUFFICES ASSUME RpcInvariant, Next, NEW c \in Call, At(c, "closed")
               PROVE  delivered'[Tries(c)] = delivered[Tries(c)]
    OBVIOUS
  <2>1. CASE UNCHANGED delivered
    BY <2>1
  <2>2. ASSUME NEW s \in Socket, Receive(s), ~UNCHANGED delivered
        PROVE  delivered'[Tries(c)] = delivered[Tries(c)]
    <3>1. PICK m, t : m = Head(toClient[s]) /\ t = <<m.id.call, m.id.place>>
      OBVIOUS
    <3>2. /\ toClient[s] # << >> /\ toClient' = [toClient EXCEPT ![s] = Tail(@)]
          /\ m.id \in handler[s] /\ m.id.kind = "events"
          /\ delivered' = [delivered EXCEPT ![t] = @ + 1]
      BY <2>2, <3>1 DEF Receive, Responded, EventArrives, CloseConfirmed
    <3>3. Came(s, m, t)
      BY <3>1, <3>2, Comes
    <3>4. /\ t \in Try /\ t[1] \in Call
          /\ t \in expired \/ UpOn(t, s)
      <4>1. ~m.error
        BY <2>2, <3>1, <3>2 DEF Receive, Responded, EventArrives, CloseConfirmed
      <4> QED
        BY <3>2, <3>3, <4>1, EventOfUp
    <3>5. Tries(c) # t
      <4>1. ASSUME Tries(c) = t PROVE FALSE
        <5>1. t[1] = c /\ Now(t) /\ call[t[1]].at = "closed"
          BY <3>4, <4>1, TriesApart DEF At
        <5>2. TypeOK /\ Over(t)
          BY <3>4, <5>1 DEF RpcInvariant, UpOn
        <5> QED
          BY <3>4, <5>1, <5>2, OverIsDown
      <4> QED
        BY <4>1
    <3>6. delivered \in [Try -> 0..MaxEvent]
      BY DEF RpcInvariant, TypeOK
    <3> QED
      BY <3>2, <3>5, <3>6
  <2>3. UNCHANGED delivered \/ \E s \in Socket : Receive(s)
    BY DEF Next, SendRequest, GetServerInfo, SendHttp, Fetched, SendOnConnection, Connect,
           Opened, ConnectError, Timeout, Close, Process, Disconnect, Event, Respond, CloseTimeout
  <2> QED
    BY <2>1, <2>2, <2>3
<1> QED
  BY <1>1, RpcInvariantHolds, PTL DEF Spec, SilentAfterClose

=============================================================================
