--------------------------------- MODULE Join --------------------------------
(***************************************************************************)
(* A cluster that comes up while clients already write to it: the boot and *)
(* synchronisation of module Cluster together with the broadcast of        *)
(* updates.  A joining node takes updates into its channel from the moment *)
(* it listens, copies the database file of a peer that goes on changing    *)
(* it, and applies what the channel holds once its KV service runs.        *)
(*                                                                         *)
(* Writes are numbered.  Which of them a database contains is what matters *)
(* here; what they do to it is the subject of module CaveKV.               *)
(*                                                                         *)
(* No node crashes, the network and the disks work: an update that is lost *)
(* for such a reason is never sent again, which module CaveKV covers, and  *)
(* what a failing disk leaves behind is in module Cluster.                 *)
(***************************************************************************)
EXTENDS Cluster

CONSTANT MaxWrites   (* bound on the writes of clients                     *)

ASSUME JoinAssumption == MaxWrites \in Nat /\ ~ Faulty /\ ~ DiskFails

VARIABLES
  issued,    (* the number of writes committed so far                      *)
  content,   (* content[n]: the writes in the database file of n           *)
  copied,    (* copied[n]: the writes in what SyncHandle of n received     *)
  unsent,    (* unsent[n]: writes that clients of n wait to see broadcast  *)
  flying,    (* updates sent and not yet received                          *)
  updates    (* updates[n]: the update channel of n                        *)

replicas == <<issued, content, copied, unsent, flying, updates>>
joinVars == <<vars, replicas>>

Write == 1..MaxWrites

JoinInit ==
  /\ Init
  /\ issued = 0
  /\ content = [n \in Node |-> {}]
  /\ copied = [n \in Node |-> {}]
  /\ unsent = [n \in Node |-> {}]
  /\ flying = {}
  /\ updates = [n \in Node |-> {}]

-----------------------------------------------------------------------------
(* What the steps of module Cluster do to the writes.                      *)

(* A process that panics takes its channel and its requests with it.       *)
Forget(n) ==
  /\ updates' = [updates EXCEPT ![n] = {}]
  /\ unsent' = [unsent EXCEPT ![n] = {}]
  /\ copied' = [copied EXCEPT ![n] = {}]
  /\ UNCHANGED <<issued, content, flying>>

Starts(n) == (Launch(n) \/ Starting(n)) /\ UNCHANGED replicas

Boots(n) ==
  /\ Booting(n)
  /\ IF main'[n] = "panicked" THEN Forget(n) ELSE UNCHANGED replicas

(* SyncResponse copies the file as it is, whatever state its node is in.   *)
Copies(j) ==
  /\ SyncResponse(j)
  /\ copied' = [copied EXCEPT ![j.peer] =
                  IF j.step = "send file" THEN content[j.node] ELSE {}]
  /\ UNCHANGED <<issued, content, unsent, flying, updates>>

Answers(n) ==
  \E j \in jobs :
    /\ j.node = n
    /\ \/ Copies(j)
       \/ /\ SyncResponseFails(j) \/ CreateKeyFile(j) \/ WriteKeyFile(j)
          /\ UNCHANGED replicas

(* SyncHandle truncates the database file and writes what it received.     *)
Syncs(n) ==
  /\ \/ TruncateDatabase(n) /\ content' = [content EXCEPT ![n] = {}]
     \/ WriteDatabase(n) /\ content' = [content EXCEPT ![n] = copied[n]]
  /\ UNCHANGED <<issued, copied, unsent, flying, updates>>

Handles(n) == Handling(n) /\ UNCHANGED replicas

-----------------------------------------------------------------------------
(* The broadcast.                                                          *)

(* A write that waits to be broadcast before its transaction commits.      *)
QueuesFirst(n) ==
  /\ issued < MaxWrites
  /\ main[n] = "up"
  /\ unsent' = [unsent EXCEPT ![n] = @ \cup {issued + 1}]
  /\ UNCHANGED <<vars, issued, content, copied, flying, updates>>

(* The transaction of a client's request.                                  *)
Commits(n) ==
  /\ issued < MaxWrites
  /\ ClientWrites(n)
  /\ issued' = issued + 1
  /\ content' = [content EXCEPT ![n] = @ \cup {issued'}]
  /\ unsent' = [unsent EXCEPT ![n] = @ \cup {issued'}]
  /\ UNCHANGED <<copied, flying, updates>>

(* Only nodes whose KV service runs are sent the update.                   *)
EmitsToServing(n) ==
  /\ \E w \in unsent[n] :
       /\ unsent' = [unsent EXCEPT ![n] = @ \ {w}]
       /\ flying' = flying \cup {<<m, w>> : m \in {p \in peers[n] : main[p] = "up"}}
  /\ UNCHANGED <<vars, issued, content, copied, updates>>

(* Cluster.Emit: one send for each node that is a peer at this moment.     *)
Emits(n) ==
  /\ \E w \in unsent[n] :
       /\ unsent' = [unsent EXCEPT ![n] = @ \ {w}]
       /\ flying' = flying \cup {<<m, w>> : m \in peers[n]}
  /\ UNCHANGED <<vars, issued, content, copied, updates>>

(* A handler without a channel as long as the KV service does not run.     *)
ReceivesIfServing(m, w) ==
  /\ <<m, w>> \in flying
  /\ Listening(m)
  /\ flying' = flying \ {<<m, w>>}
  /\ updates' = IF main[m] = "up" THEN [updates EXCEPT ![m] = @ \cup {w}]
                ELSE updates
  /\ UNCHANGED <<vars, issued, content, copied, unsent>>

(* The message handler, registered before the node listens: updates <- msg.*)
Receives(m, w) ==
  /\ <<m, w>> \in flying
  /\ Listening(m)
  /\ flying' = flying \ {<<m, w>>}
  /\ updates' = [updates EXCEPT ![m] = @ \cup {w}]
  /\ UNCHANGED <<vars, issued, content, copied, unsent>>

(* The loop of kv.start takes an update and applies it.                    *)
HandleUpdate(n) ==
  /\ main[n] = "up"
  /\ \E w \in updates[n] :
       /\ updates' = [updates EXCEPT ![n] = @ \ {w}]
       /\ content' = [content EXCEPT ![n] = @ \cup {w}]
  /\ db' = [db EXCEPT ![n] = IF @ = "torn" THEN @ ELSE "data"]
  /\ UNCHANGED <<main, start, starting, syncing, traffic, key, kvkey, launches,
                 issued, copied, unsent, flying>>

-----------------------------------------------------------------------------
JoinNext ==
  \/ \E n \in Node :
       \/ Starts(n) \/ Boots(n) \/ Syncs(n) \/ Handles(n) \/ Answers(n)
       \/ Commits(n) \/ Emits(n) \/ HandleUpdate(n)
  \/ \E m \in Node, w \in Write : Receives(m, w)

(* Every node is launched; the goroutines of a node run on.                *)
JoinFairness ==
  /\ \A n \in Node :
       /\ WF_joinVars(Starts(n)) /\ WF_joinVars(Boots(n))
       /\ WF_joinVars(Syncs(n)) /\ WF_joinVars(Handles(n))
       /\ WF_joinVars(Answers(n))
       /\ WF_joinVars(Emits(n)) /\ WF_joinVars(HandleUpdate(n))
  /\ \A m \in Node, w \in Write : WF_joinVars(Receives(m, w))

JoinSpec == JoinInit /\ [][JoinNext]_joinVars /\ JoinFairness

-----------------------------------------------------------------------------
JoinTypeOK ==
  /\ issued \in 0..MaxWrites
  /\ content \in [Node -> SUBSET (1..issued)]
  /\ copied \in [Node -> SUBSET (1..issued)]
  /\ unsent \in [Node -> SUBSET (1..issued)]
  /\ flying \subseteq Node \X (1..issued)
  /\ updates \in [Node -> SUBSET (1..issued)]

(* Two nodes that boot together lose nothing that clients write while one  *)
(* of them still joins: whatever was copied when, a write is in the        *)
(* database of each serving node or on its way there, in its channel, in   *)
(* the network or still to be broadcast.  It takes the update channel that *)
(* main makes before the node listens, a peer list that is complete before *)
(* a node serves (cluster.go, Start), and an update that is both copied    *)
(* and sent.                                                               *)
OnItsWay(n) ==
  updates[n] \cup {w \in Write : <<n, w>> \in flying}
    \cup UNION {unsent[m] : m \in Node \ {n}}

NothingLost ==
  \A n \in Node : main[n] = "up" => 1..issued \subseteq content[n] \cup OnItsWay(n)

(* Of any number of nodes: a write that was sent to a node is in the       *)
(* network, in its update channel, or in the database that it serves, and  *)
(* stays with it until the node ends, although SyncHandle replaces the     *)
(* whole database meanwhile.  What a late joiner misses, no one sent it.   *)
Reached(n, w) ==
  \/ <<n, w>> \in flying
  \/ w \in updates[n]
  \/ main[n] = "up" /\ w \in content[n]

SentIsKept ==
  [][\A n \in Node, w \in Write :
       Reached(n, w) => Reached(n, w)' \/ main'[n] = "panicked"]_joinVars

(* So in the end every node has every write, unless a node panics.         *)
EveryWriteArrives ==
  \A n \in Node, w \in Write :
    issued >= w ~> (w \in content[n] \/ \E m \in Node : main[m] = "panicked")

=============================================================================
