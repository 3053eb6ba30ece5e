----------------------------- MODULE ReplicaSet -----------------------------
(***************************************************************************)
(* What the key-value store of a Cave cluster promises ("each peer listens *)
(* for updates and applies them as they come in", README.md): every node   *)
(* has a replica; a write changes the replica of the node that accepts it  *)
(* and becomes something every other node has to do; a node does what it   *)
(* has to do in any order, each update at most once, and an update may be  *)
(* lost on the way to some of the nodes.                                   *)
(***************************************************************************)
EXTENDS Bolt

CONSTANT Node

VARIABLES
  db,      (* db[n]: the replica of node n                                 *)
  issued,  (* the updates accepted so far                                  *)
  todo     (* todo[n]: the indices in issued of what n has still to handle *)

vars == <<db, issued, todo>>

Init ==
  /\ db = [n \in Node |-> EmptyTree]
  /\ issued = <<>>
  /\ todo = [n \in Node |-> {}]

(* Node n accepts an update; a put must succeed on its own replica.        *)
Write(n, u) ==
  /\ issued' = Append(issued, u)
  /\ u.type = "put:key" => CanPut(db[n], u.path)
  /\ db' = [db EXCEPT ![n] = Apply(@, u)]
  /\ todo' = [m \in Node |-> IF m = n THEN todo[m]
                             ELSE todo[m] \cup {Len(issued) + 1}]

Handle(n, i) ==
  /\ i \in todo[n]
  /\ db' = [db EXCEPT ![n] = Apply(@, issued[i])]
  /\ todo' = [todo EXCEPT ![n] = @ \ {i}]
  /\ UNCHANGED issued

(* Update i does not reach the nodes in S.                                 *)
Lose(i, S) ==
  /\ todo' = [m \in Node |-> IF m \in S THEN todo[m] \ {i} ELSE todo[m]]
  /\ UNCHANGED <<db, issued>>

Next ==
  \/ \E n \in Node, u \in Update : Write(n, u)
  \/ \E n \in Node, i \in DOMAIN issued : Handle(n, i)
  \/ \E i \in DOMAIN issued, S \in SUBSET Node : Lose(i, S)

Spec == Init /\ [][Next]_vars

=============================================================================
