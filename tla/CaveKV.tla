------------------------------- MODULE CaveKV -------------------------------
(***************************************************************************)
(* The replicated key-value store of a running Cave cluster: kv.go, the    *)
(* part of cluster.go that broadcasts and receives updates, and the        *)
(* handlers of api.go that write.  Every node keeps a bbolt database of    *)
(* its own.  A write is committed to the database of the node that gets    *)
(* the request, then sent to each peer that node knows; a peer puts it in  *)
(* its update channel and its KV loop applies it.                          *)
(*                                                                         *)
(* Nothing orders the sends (each runs in a goroutine of its own), a send  *)
(* may fail, and the request goroutines of a node interleave between their *)
(* transactions.                                                           *)
(***************************************************************************)
EXTENDS Bolt

CONSTANTS
  Node,
  Slot,      (* request goroutines a node can run at a time                *)
  Requested, (* bound on the paths requests name, directories among them   *)
  MaxOps,    (* bound on the writes committed in a behaviour               *)
  QueueCap   (* capacity of the channel app.updates (4096 in main.go)      *)

ASSUME KVAssumption ==
  /\ Requested \subseteq Path
  /\ MaxOps \in Nat
  /\ QueueCap \in Nat \ {0}
  /\ LockId = 1..MaxOps

VARIABLES
  db,       (* db[n]: the bucket "kv" of node n                            *)
  work,     (* work[n][s]: what request goroutine s of node n does next    *)
  peers,    (* peers[n]: Cluster.peers, the nodes n broadcasts to          *)
  net,      (* sends in progress: <<destination, index in log>>            *)
  updates,  (* updates[n]: the channel app.updates, indices in log         *)
  log,      (* history: the KVUpdates committed so far by their origins    *)
  seen,     (* history: seen[n], the updates n has committed or handled    *)
  missed,   (* history: missed[n], the updates that will not reach n       *)
  raced     (* history: an update was committed while an earlier one of a  *)
            (* related path had not been handled everywhere                *)

vars == <<db, work, peers, net, updates, log, seen, missed, raced>>

-----------------------------------------------------------------------------
(* What a request goroutine does next: nothing; Emit the update it has     *)
(* committed (and then, in kvDeleteHandler, go on with DeleteKey); call    *)
(* DeleteKey; or, in Lock and Unlock, write back the object it has read.   *)
Idle == [pc |-> "idle"]
Emitting(i, more) == [pc |-> "emit", op |-> i, more |-> more]
Deleting(p) == [pc |-> "delete", path |-> p]
Rewriting(p, o, claim) ==
  [pc |-> "rewrite", path |-> p, value |-> o, claim |-> claim]

Goroutine ==
  {Idle} \cup {Emitting(i, more) : i \in 1..MaxOps, more \in BOOLEAN}
         \cup {Deleting(p) : p \in Path}
         \cup {Rewriting(p, o, c) : p \in Path, o \in Object, c \in BOOLEAN}

-----------------------------------------------------------------------------
Init ==
  /\ db = [n \in Node |-> EmptyTree]
  /\ work = [n \in Node |-> [s \in Slot |-> Idle]]
  /\ peers = [n \in Node |-> Node \ {n}]
  /\ net = {}
  /\ updates = [n \in Node |-> <<>>]
  /\ log = <<>>
  /\ seen = [n \in Node |-> {}]
  /\ missed = [n \in Node |-> {}]
  /\ raced = FALSE

(* Everyone has handled update i.                                          *)
Settled(i) == \A n \in Node : i \in seen[n]

(* A transaction of goroutine s of node n: PutObject, DeleteKey and        *)
(* DeleteBucket up to their call of emitEvent.                             *)
Commit(n, s, type, p, o, more) ==
  LET u == [type |-> type, path |-> p, value |-> o]
      i == Len(log) + 1
  IN /\ i <= MaxOps
     /\ db' = [db EXCEPT ![n] = Apply(@, u)]
     /\ log' = Append(log, u)
     /\ seen' = [seen EXCEPT ![n] = @ \cup {i}]
     /\ work' = [work EXCEPT ![n][s] = Emitting(i, more)]
     /\ raced' = \/ raced
                 \/ \E j \in DOMAIN log :
                      Related(log[j].path, p) /\ ~ Settled(j)
     /\ UNCHANGED <<peers, net, updates, missed>>

(* A put that fails returns its error before it emits anything; bbolt has  *)
(* rolled its transaction back.                                            *)
PutObject(n, s, p, o) ==
  \/ /\ CanPut(db[n], p)
     /\ Commit(n, s, "put:key", p, o, FALSE)
  \/ /\ ~ CanPut(db[n], p)
     /\ db' = [db EXCEPT ![n] = Put(@, p, o)]
     /\ work' = [work EXCEPT ![n][s] = Idle]
     /\ UNCHANGED <<peers, net, updates, log, seen, missed, raced>>

(* A delete emits whatever its transaction did: the error of the           *)
(* transaction is overwritten by the result of emitEvent.                  *)
DeleteKey(n, s, p) == Commit(n, s, "delete:key", p, Absent, FALSE)

(* POST /api/v1/kv/...: a new object, without the locks of the old one.    *)
HandlePut(n, s) ==
  /\ work[n][s] = Idle
  /\ \E p \in Requested, v \in Data :
       PutObject(n, s, p, [data |-> v, locks |-> {}])

(* DELETE /api/v1/kv/...: for a directory first DeleteBucket, with the     *)
(* slash still at the end of the path, then DeleteKey.                     *)
HandleDelete(n, s) ==
  /\ work[n][s] = Idle
  /\ \E p \in Requested :
       IF IsDirectory(p)
       THEN Commit(n, s, "delete:bucket", p, Absent, TRUE)
       ELSE DeleteKey(n, s, p)

HandleDeleteRest(n, s) ==
  /\ work[n][s].pc = "delete"
  /\ DeleteKey(n, s, work[n][s].path)

(* The KV service that kv.start registers with the plugin manager makes    *)
(* DeleteBucket, Lock and Unlock callable as they are.                     *)
CallDeleteBucket(n, s) ==
  /\ work[n][s] = Idle
  /\ \E p \in Requested : Commit(n, s, "delete:bucket", p, Absent, FALSE)

(* GetObject, the first half of Lock.                                      *)
CallLock(n, s) ==
  /\ work[n][s] = Idle
  /\ \E p \in Requested :
       /\ Get(db[n], p) # Absent
       /\ work' = [work EXCEPT ![n][s] = Rewriting(p, Get(db[n], p), TRUE)]
  /\ UNCHANGED <<db, peers, net, updates, log, seen, missed, raced>>

(* GetObject, the first half of Unlock, for a lock the object has.         *)
CallUnlock(n, s) ==
  /\ work[n][s] = Idle
  /\ \E p \in Requested :
       /\ Get(db[n], p) # Absent
       /\ \E id \in Get(db[n], p).locks :
            work' = [work EXCEPT ![n][s] =
                       Rewriting(p, [Get(db[n], p) EXCEPT !.locks = @ \ {id}],
                                 FALSE)]
  /\ UNCHANGED <<db, peers, net, updates, log, seen, missed, raced>>

(* PutObject, their second half; a new lock gets a name never used before. *)
WriteBack(n, s) ==
  /\ work[n][s].pc = "rewrite"
  /\ LET w == work[n][s] IN
       PutObject(n, s, w.path,
                 IF w.claim
                 THEN [w.value EXCEPT !.locks = @ \cup {Len(log) + 1}]
                 ELSE w.value)

(* Cluster.Emit: one send for each node that is a peer at this moment.     *)
Emit(n, s) ==
  /\ work[n][s].pc = "emit"
  /\ LET w == work[n][s] IN
       /\ net' = net \cup {<<m, w.op>> : m \in peers[n]}
       /\ missed' = [m \in Node |->
                       IF m \in peers[n] \cup {n} THEN missed[m]
                       ELSE missed[m] \cup {w.op}]
       /\ work' = [work EXCEPT ![n][s] =
                     IF w.more THEN Deleting(log[w.op].path) ELSE Idle]
  /\ UNCHANGED <<db, peers, updates, log, seen, raced>>

-----------------------------------------------------------------------------
(* The loop of Cluster.Start replaces the peers by what the peer table of  *)
(* the network library holds, which may lack any of the other nodes.       *)
Discover(n) ==
  /\ \E S \in SUBSET (Node \ {n}) : peers' = [peers EXCEPT ![n] = S]
  /\ UNCHANGED <<db, work, net, updates, log, seen, missed, raced>>

(* node.Send fails or times out; the error is logged and the update is     *)
(* not sent again.                                                         *)
SendFails(m, i) ==
  /\ <<m, i>> \in net
  /\ net' = net \ {<<m, i>>}
  /\ missed' = [missed EXCEPT ![m] = @ \cup {i}]
  /\ UNCHANGED <<db, work, peers, updates, log, seen, raced>>

(* A handler that drops what does not fit instead of waiting for room.     *)
ReceiveOrDrop(m, i) ==
  /\ <<m, i>> \in net
  /\ net' = net \ {<<m, i>>}
  /\ updates' = IF Len(updates[m]) < QueueCap
                THEN [updates EXCEPT ![m] = Append(@, i)] ELSE updates
  /\ UNCHANGED <<db, work, peers, log, seen, missed, raced>>

(* A channel without a bound.                                              *)
ReceiveUnbounded(m, i) ==
  /\ <<m, i>> \in net
  /\ net' = net \ {<<m, i>>}
  /\ updates' = [updates EXCEPT ![m] = Append(@, i)]
  /\ UNCHANGED <<db, work, peers, log, seen, missed, raced>>

(* The message handler of the node: updates <- msg waits for room.         *)
Receive(m, i) ==
  /\ <<m, i>> \in net
  /\ Len(updates[m]) < QueueCap
  /\ net' = net \ {<<m, i>>}
  /\ updates' = [updates EXCEPT ![m] = Append(@, i)]
  /\ UNCHANGED <<db, work, peers, log, seen, missed, raced>>

(* A peer that emits what it applies, as PutObject does by default.        *)
HandleUpdateEchoing(n) ==
  /\ updates[n] # <<>>
  /\ LET i == Head(updates[n]) IN
       /\ db' = [db EXCEPT ![n] = Apply(@, log[i])]
       /\ seen' = [seen EXCEPT ![n] = @ \cup {i}]
       /\ net' = net \cup {<<m, i>> : m \in peers[n]}
  /\ updates' = [updates EXCEPT ![n] = Tail(@)]
  /\ UNCHANGED <<work, peers, log, missed, raced>>

(* A peer for which deleting a bucket is deleting a key.                   *)
HandleUpdateAsKeys(n) ==
  /\ updates[n] # <<>>
  /\ LET i == Head(updates[n])
         u == log[i]
     IN /\ db' = [db EXCEPT ![n] = IF u.type = "put:key"
                                   THEN Put(@, u.path, u.value)
                                   ELSE Delete(@, u.path)]
        /\ seen' = [seen EXCEPT ![n] = @ \cup {i}]
  /\ updates' = [updates EXCEPT ![n] = Tail(@)]
  /\ UNCHANGED <<work, peers, net, log, missed, raced>>

(* A peer that looks at the first update without taking it.                *)
HandleUpdateTwice(n) ==
  /\ updates[n] # <<>>
  /\ LET i == Head(updates[n]) IN
       /\ db' = [db EXCEPT ![n] = Apply(@, log[i])]
       /\ seen' = [seen EXCEPT ![n] = @ \cup {i}]
       /\ updates' = [updates EXCEPT ![n] = IF i \in seen[n] THEN Tail(@) ELSE @]
  /\ UNCHANGED <<work, peers, net, log, missed, raced>>

(* kv.start takes the next update; handleUpdate applies it without         *)
(* emitting it again, and an error is only logged.                         *)
HandleUpdate(n) ==
  /\ updates[n] # <<>>
  /\ LET i == Head(updates[n]) IN
       /\ db' = [db EXCEPT ![n] = Apply(@, log[i])]
       /\ seen' = [seen EXCEPT ![n] = @ \cup {i}]
  /\ updates' = [updates EXCEPT ![n] = Tail(@)]
  /\ UNCHANGED <<work, peers, net, log, missed, raced>>

-----------------------------------------------------------------------------
Request(n, s) ==
  \/ HandlePut(n, s)
  \/ HandleDelete(n, s)
  \/ CallDeleteBucket(n, s)
  \/ CallLock(n, s)
  \/ CallUnlock(n, s)

Continue(n, s) ==
  \/ HandleDeleteRest(n, s)
  \/ WriteBack(n, s)
  \/ Emit(n, s)

Next ==
  \/ \E n \in Node, s \in Slot : Request(n, s) \/ Continue(n, s)
  \/ \E n \in Node : Discover(n) \/ HandleUpdate(n)
  \/ \E m \in Node, i \in 1..MaxOps : Receive(m, i) \/ SendFails(m, i)

(* A request goroutine, a send and the KV loop run until they are done;    *)
(* requests and discoveries need not happen.                               *)
Fairness ==
  /\ \A n \in Node, s \in Slot : WF_vars(Continue(n, s))
  /\ \A n \in Node : WF_vars(HandleUpdate(n))
  /\ \A m \in Node, i \in 1..MaxOps : WF_vars(Receive(m, i))

Spec == Init /\ [][Next]_vars

FairSpec == Spec /\ Fairness

-----------------------------------------------------------------------------
TypeOK ==
  /\ db \in [Node -> Tree]
  /\ work \in [Node -> [Slot -> Goroutine]]
  /\ peers \in [Node -> SUBSET Node]
  /\ \A n \in Node : n \notin peers[n]
  /\ net \subseteq Node \X (1..MaxOps)
  /\ updates \in [Node -> Seq(1..MaxOps)]
  /\ \A n \in Node : Len(updates[n]) <= QueueCap
  /\ log \in Seq(Update)
  /\ Len(log) <= MaxOps
  /\ seen \in [Node -> SUBSET (1..MaxOps)]
  /\ missed \in [Node -> SUBSET (1..MaxOps)]
  /\ raced \in BOOLEAN

TreesWellFormed == \A n \in Node : WellFormed(db[n])

(* A bucket is only left empty by a delete of something that was in it:    *)
(* the buckets getBuckets makes for a put do not outlive its failure (a    *)
(* name on the way that is a key, or the empty name that "a/" ends in), at *)
(* its origin or at a peer, so that a client that lists directories never  *)
(* comes upon one no key was ever in.  DeleteKey leaves the buckets on its *)
(* way behind, empty or not (kv.go, PutObject, getBuckets, DeleteKey).     *)
NoStrayBuckets ==
  \A n \in Node, q \in Place :
    /\ db[n][q] = Bucket
    /\ \A p \in Place : Above(q, p) => db[n][p] = Absent
    => \E i \in seen[n] : log[i].type # "put:key" /\ Above(q, log[i].path)

(* Where an update can be on its way to node n.                            *)
InFlight(n) == {i \in 1..MaxOps : <<n, i>> \in net}
Queued(n) == {updates[n][k] : k \in DOMAIN updates[n]}
Carries(m, s, i) == work[m][s].pc = "emit" /\ work[m][s].op = i
Unsent(n) ==
  {i \in 1..MaxOps : \E m \in Node \ {n}, s \in Slot : Carries(m, s, i)}

(* No update is lost without a failed send or an incomplete peer list, and *)
(* none reaches a node twice: each committed update is, for each node, in  *)
(* exactly one of the places between its commit and its handling.  A peer  *)
(* that emitted what it applies (the e argument of PutObject, DeleteKey    *)
(* and DeleteBucket) would break it.                                       *)
AccountedAt(n) ==
  /\ DOMAIN log = seen[n] \cup missed[n]
                  \cup InFlight(n) \cup Queued(n) \cup Unsent(n)
  /\ seen[n] \cap missed[n] = {}
  /\ (seen[n] \cup missed[n]) \cap (InFlight(n) \cup Queued(n) \cup Unsent(n)) = {}
  /\ InFlight(n) \cap (Queued(n) \cup Unsent(n)) = {}
  /\ Queued(n) \cap Unsent(n) = {}
  /\ \A j, k \in DOMAIN updates[n] : updates[n][j] = updates[n][k] => j = k

Accounted == \A n \in Node : AccountedAt(n)

(* The updates that can matter for what is stored at q.                    *)
Concerning(q) == {i \in DOMAIN log : Related(log[i].path, q)}

(* What replication without order can promise: as long as no update was    *)
(* issued while a related one was still under way, two nodes that have     *)
(* both handled all updates concerning a place store the same there,       *)
(* whatever else is in flight, whatever order unrelated updates arrived in *)
(* and whichever put, delete or bucket deletion failed on the way.         *)
Agreement ==
  ~ raced =>
    \A m, n \in Node, q \in Place :
      Concerning(q) \subseteq seen[m] \cap seen[n] => db[m][q] = db[n][q]

(* The updates node n has still to handle, wherever they are.              *)
todo == [n \in Node |-> InFlight(n) \cup Queued(n) \cup Unsent(n)]

(* A running cluster is a set of replicas that apply each other's updates  *)
(* in any order, each at most once.                                        *)
Replicas == INSTANCE ReplicaSet WITH issued <- log

ImplementsReplicas == Replicas!Spec

(* Every update is eventually handled by each node, or known to be lost to *)
(* a failed send or to an origin that did not know the node: back-pressure *)
(* of a full update channel delays it and never drops it.                  *)
Delivered ==
  \A n \in Node, i \in 1..MaxOps :
    (i \in DOMAIN log) ~> (i \in seen[n] \cup missed[n])

=============================================================================
