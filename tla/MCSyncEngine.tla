---------------------------- MODULE MCSyncEngine ----------------------------
(* Small instances of SyncEngine. *)
EXTENDS SyncEngine

CONSTANTS alice, bob, u1, u2, notes, other, phone, w0, w1, w2, f0

\* A record: its initial write, an update and a later update or delete that
\* makes the first one obsolete.
RecordMsg == {w0, w1, w2}
RecordNeeds == [m \in Msg |-> IF m \in {w1, w2} THEN {w0} ELSE {}]
RecordSupersedes == [m \in Msg |-> IF m = w2 THEN {w1} ELSE {}]

\* w0 is written on this device and sent to one endpoint; what follows it
\* comes from other devices.  The other endpoint may refuse w0.
RecordOrigins == [m \in Msg |-> IF m = w0 THEN {Local, u1} ELSE Endpoint]
RecordRefuses == [n \in Nodes |-> IF n = u2 THEN {w0} ELSE {}]

\* w0 is written on this device only, the rest elsewhere only.
ApartOrigins == [m \in Msg |-> IF m = w0 THEN {Local}
                               ELSE EndpointsOf[TenantOf[m]]]

NothingRefused == [n \in Nodes |-> {}]

\* Any node may refuse the messages of other devices.
OthersRefused == [n \in Nodes |-> Msg \ {w0}]

AllAlice == [m \in Msg |-> alice]
AllNotes == [m \in Msg |-> notes]
BothEndpoints == [d \in Did |-> Endpoint]
Everything == {[delegate |-> NoDelegate, protocols |-> {}]}

NothingSuperseded == [m \in Msg |-> {}]

\* Scopes: notes and other are two protocols; f0 belongs to the other one.
ScopeMsg == {w0, w1, f0}
ScopeProtocol == [m \in Msg |-> IF m = f0 THEN other ELSE notes]
ScopeOptions == {[delegate |-> NoDelegate, protocols |-> {}],
                 [delegate |-> phone, protocols |-> {notes}]}
Delegated == {[delegate |-> phone, protocols |-> {notes}]}

\* Two tenants, each with an endpoint.
TwoTenants == [m \in Msg |-> IF m = f0 THEN bob ELSE alice]
OneEach == [d \in Did |-> IF d = bob THEN {u2} ELSE {u1}]

\* Peers in the order of their keys: delegate, endpoint, protocol.
RankOf(p) == (IF p.did = alice THEN 0 ELSE 12)
           + (IF p.delegate = NoDelegate THEN 0 ELSE 6)
           + (IF p.url = u1 THEN 0 ELSE 3)
           + (CASE p.protocol = AllProtocols -> 0
                [] p.protocol = notes -> 1
                [] OTHER -> 2)
KeyRank == [p \in Peer |-> RankOf(p)]
=============================================================================
