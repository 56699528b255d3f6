------------------------------ MODULE DwnNode ------------------------------
(***************************************************************************)
(* A Decentralized Web Node as the agent sees it: the operations that      *)
(* sync-engine-level.ts calls on the local node and, over RPC, on a remote *)
(* one.  The node itself is the dwn-sdk-js library; what is stated here is *)
(* what the agent's code and tests rely on.                                *)
(*                                                                         *)
(* A node is a record: the messages it holds, the place of every message   *)
(* in its event log (0 when it has never been accepted) and the last place *)
(* given out.  A place is given once: a node that discards a message does  *)
(* not take it back.                                                       *)
(***************************************************************************)
EXTENDS Integers, FiniteSets

CONSTANTS
    Msg,         \* messages, by their CID
    Deletes,     \* the messages that are RecordsDelete
    Needs,       \* Needs[m]: what must be on a node before it accepts m
    Supersedes   \* Supersedes[m]: what a node discards when it accepts m

ASSUME MsgAssumption ==
    /\ Deletes \subseteq Msg
    /\ Needs \in [Msg -> SUBSET Msg]
    /\ Supersedes \in [Msg -> SUBSET Msg]
    /\ \A m \in Msg : m \notin Supersedes[m]

Node == [stored : SUBSET Msg, at : [Msg -> Nat], head : Nat]

EmptyNode == [stored |-> {}, at |-> [m \in Msg |-> 0], head |-> 0]

Arrived(n) == {m \in Msg : n.at[m] > 0}

\* The node has m, or has taken a message that makes m obsolete.
Covers(n, m) == \E k \in Arrived(n) : k = m \/ m \in Supersedes[k]

Accepts(n, m) == ~Covers(n, m) /\ Needs[m] \subseteq Arrived(n)

\* The status of processMessage.  A RecordsDelete of what is not there, or
\* is already deleted, is answered 404; its reply carries no entry.
Reply(n, m) ==
    CASE Accepts(n, m)                          -> 202
      [] ~Accepts(n, m) /\ m \in Deletes        -> 404
      [] Covers(n, m) /\ m \notin Deletes       -> 409
      [] OTHER                                  -> 400

\* The node after processMessage.
After(n, m) ==
    IF Accepts(n, m)
    THEN [stored |-> (n.stored \cup {m}) \ Supersedes[m],
          at     |-> [n.at EXCEPT ![m] = n.head + 1],
          head   |-> n.head + 1]
    ELSE n

\* The entries of MessagesQuery past a cursor, among the messages of a
\* filter, and the cursor that comes back with them.
EntriesAfter(n, cursor, filter) ==
    {m \in n.stored \cap filter : n.at[m] > cursor}

IsCursorOf(n, entries, c) ==
    /\ c \in {n.at[m] : m \in entries}
    /\ \A m \in entries : n.at[m] <= c
=============================================================================
