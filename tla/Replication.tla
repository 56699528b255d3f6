---------------------------- MODULE Replication ----------------------------
(***************************************************************************)
(* What sync promises to the people who write to the nodes: a message that *)
(* is on one node of its tenant reaches the others, whole, once, after the *)
(* messages it depends on, and never leaves the nodes of its tenant.  How  *)
(* it gets there, when, and through which queues is not said.              *)
(***************************************************************************)
CONSTANTS
    Msg, Needs, Supersedes,
    Nodes,
    Local,   \* the node every message passes through
    Homes,   \* Homes[m]: the other nodes of m's tenant
    Origins, \* Origins[m]: the nodes m's author writes it to
    Synced   \* the messages the tenant has asked to be synced

VARIABLE have   \* have[n]: every message node n has ever accepted

Settled(n, m) == \E k \in have[n] : k = m \/ m \in Supersedes[k]

Take(n, m) ==
    /\ ~Settled(n, m)
    /\ Needs[m] \subseteq have[n]
    /\ have' = [have EXCEPT ![n] = @ \cup {m}]

Write(n, m) == n \in Origins[m] /\ Take(n, m)

Copy(m, from, to) ==
    /\ m \in have[from] /\ m \in Synced
    /\ Take(to, m)

Push(m, u) == u \in Homes[m] /\ Copy(m, Local, u)
Pull(m, u) == u \in Homes[m] /\ Copy(m, u, Local)

Init == have = [n \in Nodes |-> {}]

Next == \E m \in Msg :
    \/ \E n \in Origins[m] : Write(n, m)
    \/ \E u \in Homes[m] : Push(m, u) \/ Pull(m, u)

Spec == Init /\ [][Next]_have

FairSpec ==
    /\ Spec
    /\ \A m \in Msg : \A u \in Homes[m] :
          WF_have(Push(m, u)) /\ WF_have(Pull(m, u))
=============================================================================
