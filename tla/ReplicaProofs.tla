---------------------------- MODULE ReplicaProofs ----------------------------
(***************************************************************************)
(* What a client of the replicated store can rely on, for any number of    *)
(* nodes, requests and writes: a running cluster is a set of replicas that *)
(* apply each other's updates at most once and in any order, and replicas  *)
(* agree as long as no two related updates were under way together.        *)
(***************************************************************************)
EXTENDS CaveKVProofs

(* What a node has still to handle is what has been committed and neither  *)
(* handled nor missed by it.                                               *)
LEMMA TodoIsRest ==
  /\ IInv => todo = [n \in Node |-> DOMAIN log \ (seen[n] \cup missed[n])]
  /\ IInv' => todo' = [n \in Node |-> DOMAIN log' \ (seen'[n] \cup missed'[n])]
<1>1. ASSUME IInv, NEW n \in Node
      PROVE  InFlight(n) \cup Queued(n) \cup Unsent(n)
               = DOMAIN log \ (seen[n] \cup missed[n])
  <2>1. AccountedAt(n)
    BY <1>1 DEF IInv, Accounted
  <2> QED
    BY <2>1 DEF AccountedAt
<1>2. ASSUME IInv', NEW n \in Node
      PROVE  InFlight(n)' \cup Queued(n)' \cup Unsent(n)'
               = DOMAIN log' \ (seen'[n] \cup missed'[n])
  <2>1. AccountedAt(n)'
    BY <1>2 DEF IInv, Accounted
  <2> QED
    BY <2>1 DEF AccountedAt
<1> QED
  BY <1>1, <1>2 DEF todo

(* The transactions of the replicas are those of the nodes.                *)
LEMMA SameTransactions ==
  /\ Replicas!EmptyTree = EmptyTree
  /\ Replicas!Update = Update
  /\ \A t, p : Replicas!CanPut(t, p) <=> CanPut(t, p)
  /\ \A t, u : Replicas!Apply(t, u) = Apply(t, u)
<1>1. Replicas!EmptyTree = EmptyTree /\ Replicas!Update = Update
  BY DEF Replicas!EmptyTree, EmptyTree, Replicas!Place, Place, Replicas!Update,
         Update, Replicas!UpdateType, UpdateType, Replicas!Path, Path,
         Replicas!Object, Object
<1>2. \A p, q : Replicas!Above(p, q) <=> Above(p, q)
  BY DEF Replicas!Above, Above
<1>3. Replicas!Place = Place
  BY DEF Replicas!Place, Place
<1>4. \A t, p : Replicas!CanPut(t, p) <=> CanPut(t, p)
  BY <1>2, <1>3 DEF Replicas!CanPut, CanPut
<1>5. \A t, p, o : Replicas!Put(t, p, o) = Put(t, p, o)
  BY <1>2, <1>3, <1>4 DEF Replicas!Put, Put
<1>6. \A t, p : Replicas!BucketsExist(t, p) <=> BucketsExist(t, p)
  BY <1>2, <1>3 DEF Replicas!BucketsExist, BucketsExist
<1>7. \A t, p : Replicas!Delete(t, p) = Delete(t, p)
  BY <1>6 DEF Replicas!Delete, Delete
<1>8. \A t, p : Replicas!DeleteBucket(t, p) = DeleteBucket(t, p)
  BY <1>2, <1>3, <1>6 DEF Replicas!DeleteBucket, DeleteBucket
<1>9. \A t, u : Replicas!Apply(t, u) = Apply(t, u)
  BY <1>5, <1>7, <1>8 DEF Replicas!Apply, Apply
<1> QED
  BY <1>1, <1>4, <1>9

-----------------------------------------------------------------------------
(* At first the replicas are empty and no duty is open.                    *)
LEMMA InitReplicas == Init => Replicas!Init
<1> SUFFICES ASSUME Init PROVE Replicas!Init
  OBVIOUS
<1>1. todo = [n \in Node |-> DOMAIN log \ (seen[n] \cup missed[n])]
  BY InitIInv, TodoIsRest
<1>2. todo = [n \in Node |-> {}]
  BY <1>1 DEF Init
<1> QED
  BY <1>2, SameTransactions DEF Init, Replicas!Init

(* The commit of a transaction is the write of a replica.                  *)
LEMMA CommitStep ==
  ASSUME IInv, IInv', NEW n \in Node, NEW s, NEW type \in UpdateType,
         NEW p \in Path, NEW o \in Object \cup {Absent}, NEW more,
         type = "put:key" => CanPut(db[n], p), Commit(n, s, type, p, o, more)
  PROVE  Replicas!Next
<1> DEFINE u == [type |-> type, path |-> p, value |-> o]
           i == Len(log) + 1
<1>1. /\ db' = [db EXCEPT ![n] = Apply(@, u)]
      /\ log' = Append(log, u)
      /\ seen' = [seen EXCEPT ![n] = @ \cup {i}]
      /\ missed' = missed
  BY DEF Commit
<1>2. u \in Update
  BY DEF Update
<1>3. log \in Seq(Update) /\ seen \in [Node -> SUBSET (1..MaxOps)]
  BY DEF IInv, TypeOK
<1>4. DOMAIN log' = DOMAIN log \cup {i} /\ i \notin DOMAIN log
  BY <1>1, <1>2, <1>3
<1>5. \A m \in Node : seen[m] \cup missed[m] \subseteq DOMAIN log
  <2>1. ASSUME NEW m \in Node PROVE AccountedAt(m)
    BY DEF IInv, Accounted
  <2>2. ASSUME NEW m \in Node PROVE seen[m] \cup missed[m] \subseteq DOMAIN log
    BY <2>1 DEF AccountedAt
  <2> QED
    BY <2>2
<1>6. todo' = [m \in Node |-> IF m = n THEN todo[m] ELSE todo[m] \cup {i}]
  <2>1. ASSUME NEW m \in Node
        PROVE  todo'[m] = IF m = n THEN todo[m] ELSE todo[m] \cup {i}
    <3>1. /\ todo[m] = DOMAIN log \ (seen[m] \cup missed[m])
          /\ todo'[m] = DOMAIN log' \ (seen'[m] \cup missed'[m])
      BY TodoIsRest
    <3>2. seen'[m] = IF m = n THEN seen[m] \cup {i} ELSE seen[m]
      BY <1>1, <1>3
    <3> QED
      BY <3>1, <3>2, <1>1, <1>4, <1>5
  <2> QED
    BY <2>1 DEF todo
<1>7. u.type = "put:key" => CanPut(db[n], u.path)
  OBVIOUS
<1>8. Replicas!Write(n, u)
  BY <1>1, <1>6, <1>7, SameTransactions DEF Replicas!Write
<1> QED
  BY <1>2, <1>8, SameTransactions DEF Replicas!Next

(* What no one can tell from the databases and what is left to do.         *)
LEMMA QuietStep ==
  ASSUME IInv, IInv', UNCHANGED <<db, log, seen, missed>>
  PROVE  UNCHANGED Replicas!vars
<1>1. todo' = todo
  BY TodoIsRest
<1> QED
  BY <1>1 DEF Replicas!vars

(* The nodes that an origin does not know, and itself, do not hear of it.  *)
LEMMA EmitStep ==
  ASSUME IInv, IInv', NEW n \in Node, NEW s \in Slot, Emit(n, s)
  PROVE  Replicas!Next
<1> DEFINE i == work[n][s].op
           S == Node \ (peers[n] \cup {n})
<1>1. /\ missed' = [m \in Node |-> IF m \in peers[n] \cup {n} THEN missed[m]
                                   ELSE missed[m] \cup {i}]
      /\ UNCHANGED <<db, log, seen>> /\ work[n][s].pc = "emit"
  BY DEF Emit
<1>2. i \in DOMAIN log
  <2>1. i \in 1..MaxOps /\ Carries(n, s, i)
    BY <1>1, GoroutineCases DEF IInv, TypeOK, Carries
  <2> QED
    BY <2>1 DEF IInv, Carried
<1> HIDE DEF i
<1>3. todo' = [m \in Node |-> IF m \in S THEN todo[m] \ {i} ELSE todo[m]]
  <2>1. ASSUME NEW m \in Node
        PROVE  todo'[m] = IF m \in S THEN todo[m] \ {i} ELSE todo[m]
    <3>1. /\ todo[m] = DOMAIN log \ (seen[m] \cup missed[m])
          /\ todo'[m] = DOMAIN log' \ (seen'[m] \cup missed'[m])
      BY TodoIsRest
    <3>2. missed'[m] = IF m \in S THEN missed[m] \cup {i} ELSE missed[m]
      BY <1>1
    <3> HIDE DEF S
    <3> QED
      BY <3>1, <3>2, <1>1
  <2> QED
    BY <2>1 DEF todo
<1>4. Replicas!Lose(i, S)
  BY <1>1, <1>3 DEF Replicas!Lose
<1> QED
  BY <1>2, <1>4 DEF Replicas!Next

(* A failed send loses the update for its destination.                     *)
LEMMA SendFailsStep ==
  ASSUME IInv, IInv', NEW n \in Node, NEW i \in 1..MaxOps, SendFails(n, i)
  PROVE  Replicas!Next
<1>1. /\ <<n, i>> \in net
      /\ missed' = [missed EXCEPT ![n] = @ \cup {i}]
      /\ UNCHANGED <<db, log, seen>>
  BY DEF SendFails
<1>2. i \in DOMAIN log
  <2>1. i \in InFlight(n)
    BY <1>1 DEF InFlight
  <2> QED
    BY <2>1 DEF IInv, Accounted, AccountedAt
<1>3. todo' = [m \in Node |-> IF m \in {n} THEN todo[m] \ {i} ELSE todo[m]]
  <2>1. ASSUME NEW m \in Node
        PROVE  todo'[m] = IF m \in {n} THEN todo[m] \ {i} ELSE todo[m]
    <3>1. /\ todo[m] = DOMAIN log \ (seen[m] \cup missed[m])
          /\ todo'[m] = DOMAIN log' \ (seen'[m] \cup missed'[m])
      BY TodoIsRest
    <3>2. missed'[m] = IF m \in {n} THEN missed[m] \cup {i} ELSE missed[m]
      BY <1>1 DEF IInv, TypeOK
    <3> QED
      BY <3>1, <3>2, <1>1
  <2> QED
    BY <2>1 DEF todo
<1>4. Replicas!Lose(i, {n})
  BY <1>1, <1>3 DEF Replicas!Lose
<1> QED
  BY <1>2, <1>4 DEF Replicas!Next

(* What is at the head of a node's channel is left for it to handle.       *)
LEMMA HeadIsTodo ==
  ASSUME IInv, NEW n \in Node, updates[n] # <<>>
  PROVE  Head(updates[n]) \in DOMAIN log \ (seen[n] \cup missed[n])
<1>1. AccountedAt(n) /\ updates[n] \in Seq(1..MaxOps)
  BY DEF IInv, Accounted, TypeOK
<1>2. Head(updates[n]) \in Queued(n)
  BY <1>1, QueuedTail DEF AccountedAt, Queued
<1> QED
  BY <1>1, <1>2 DEF AccountedAt

(* The KV loop handles one of the updates the node has not handled yet.    *)
LEMMA HandleUpdateStep ==
  ASSUME IInv, IInv', NEW n \in Node, HandleUpdate(n)
  PROVE  Replicas!Next
<1> DEFINE i == Head(updates[n])
<1>1. /\ updates[n] # <<>>
      /\ db' = [db EXCEPT ![n] = Apply(@, log[i])]
      /\ seen' = [seen EXCEPT ![n] = @ \cup {i}]
      /\ UNCHANGED <<log, missed>>
  BY DEF HandleUpdate
<1>2. i \in DOMAIN log \ (seen[n] \cup missed[n])
  BY <1>1, HeadIsTodo
<1> HIDE DEF i
<1>3. todo' = [todo EXCEPT ![n] = @ \ {i}] /\ i \in todo[n]
  <2>1. ASSUME NEW m \in Node
        PROVE  todo'[m] = IF m = n THEN todo[m] \ {i} ELSE todo[m]
    <3>1. /\ todo[m] = DOMAIN log \ (seen[m] \cup missed[m])
          /\ todo'[m] = DOMAIN log' \ (seen'[m] \cup missed'[m])
      BY TodoIsRest
    <3>2. seen'[m] = IF m = n THEN seen[m] \cup {i} ELSE seen[m]
      BY <1>1 DEF IInv, TypeOK
    <3> QED
      BY <3>1, <3>2, <1>1
  <2>2. i \in todo[n]
    BY <1>2, TodoIsRest
  <2> QED
    BY <2>1, <2>2 DEF todo
<1>4. Replicas!Handle(n, i)
  BY <1>1, <1>3, SameTransactions DEF Replicas!Handle
<1> QED
  BY <1>2, <1>4 DEF Replicas!Next

(* Every step of CaveKV is a step of ReplicaSet or changes nothing in it.  *)
LEMMA NextReplicas ==
  IInv /\ IInv' /\ [Next]_vars => [Replicas!Next]_Replicas!vars
<1> SUFFICES ASSUME IInv, IInv', [Next]_vars
             PROVE  [Replicas!Next]_Replicas!vars
  OBVIOUS
<1>1. CASE UNCHANGED <<db, log, seen, missed>>
  BY <1>1, QuietStep
<1>2. ASSUME NEW n \in Node, NEW s \in Slot, Request(n, s) \/ Continue(n, s)
      PROVE  [Replicas!Next]_Replicas!vars
  <2>1. CASE Committing(n, s)
    BY <2>1, CommitStep DEF Committing
  <2>2. CASE Emit(n, s)
    BY <2>2, EmitStep
  <2>3. CASE UNCHANGED <<db, log, seen, missed, raced>>
    BY <2>3, <1>1
  <2> QED
    BY <1>2, <2>1, <2>2, <2>3, GoroutineSteps
<1>3. ASSUME NEW n \in Node, Discover(n) \/ HandleUpdate(n)
      PROVE  [Replicas!Next]_Replicas!vars
  <2>1. CASE Discover(n)
    BY <2>1, <1>1 DEF Discover
  <2> QED
    BY <1>3, <2>1, HandleUpdateStep
<1>4. ASSUME NEW n \in Node, NEW i \in 1..MaxOps, Receive(n, i) \/ SendFails(n, i)
      PROVE  [Replicas!Next]_Replicas!vars
  <2>1. CASE Receive(n, i)
    BY <2>1, <1>1 DEF Receive
  <2> QED
    BY <1>4, <2>1, SendFailsStep
<1>5. CASE UNCHANGED vars
  BY <1>1, <1>5 DEF vars
<1> QED
  BY <1>2, <1>3, <1>4, <1>5 DEF Next

(* A running cluster is a set of replicas: what one accepts, each other    *)
(* applies at most once, at a moment of its own, unless a failed send or   *)
(* an incomplete list of peers keeps it from that (kv.go, PutObject,       *)
(* DeleteKey, DeleteBucket and handleUpdate; cluster.go, Emit).            *)
THEOREM CaveImplementsReplicas == Spec => ImplementsReplicas
BY InitReplicas, Invariance, NextReplicas, PTL
   DEF Spec, ImplementsReplicas, Replicas!Spec

-----------------------------------------------------------------------------
(* Why replicas agree.  As long as no update was issued while a related    *)
(* one was under way, the updates a node has not handled yet are not       *)
(* related to each other, and there is a tree D, what the updates make in  *)
(* the order of their commits, that every replica is on its way to.        *)
Pending(n) == DOMAIN log \ seen[n]

IsPut(i) == log[i].type = "put:key"

Calm ==
  \A i, j \in DOMAIN log :
    i < j /\ Related(log[i].path, log[j].path) => Settled(i)

(* A put that succeeded at its origin is not in the way of a bucket        *)
(* anywhere it has still to be done,                                       *)
PutsFit ==
  \A n \in Node : \A i \in Pending(n) :
    IsPut(i) => db[n][log[i].path] # Bucket

(* and the buckets on its way stay until everyone has done it.             *)
PutsStand(D) ==
  \A i \in DOMAIN log : IsPut(i) /\ ~ Settled(i) =>
    /\ log[i].path \in Place
    /\ \A q \in Place : Above(q, log[i].path) => D[q] = Bucket

(* Handling a pending update will make its place, and what lies below, as  *)
(* it is in D;                                                             *)
WillAgree(D) ==
  \A n \in Node : \A i \in Pending(n), r \in Place :
    Covers(log[i].path, r) => D[r] = Effect(db[n], log[i], r)

(* a place no pending update can take away is as it is in D, or a bucket   *)
(* that a pending put will create.                                         *)
AgreesSoFar(D) ==
  \A n \in Node, q \in Place :
    (\A i \in Pending(n) : ~ Covers(log[i].path, q)) =>
      \/ db[n][q] = D[q]
      \/ /\ db[n][q] = Absent /\ D[q] = Bucket
         /\ \E i \in Pending(n) : IsPut(i) /\ Above(q, log[i].path)

Toward(D) ==
  /\ D \in Tree
  /\ WellFormed(D)
  /\ PutsStand(D)
  /\ WillAgree(D)
  /\ AgreesSoFar(D)

Converging == ~ raced => Calm /\ PutsFit /\ \E D : Toward(D)

(* The log holds updates, with paths.                                      *)
LEMMA LogPaths ==
  ASSUME IInv, NEW i \in DOMAIN log
  PROVE  log[i] \in Update /\ log[i].path \in Path
<1>1. log[i] \in Update
  BY DEF IInv, TypeOK
<1> QED
  BY <1>1 DEF Update

(* At the start all replicas are empty.                                    *)
LEMMA InitConverging == Init => Converging
<1> SUFFICES ASSUME Init PROVE Converging
  OBVIOUS
<1>1. DOMAIN log = {} /\ \A n \in Node : Pending(n) = {} /\ db[n] = EmptyTree
  BY DEF Init, Pending
<1>2. Calm /\ PutsFit
  BY <1>1 DEF Calm, PutsFit
<1>3. Toward(EmptyTree)
  BY <1>1, EmptyTreeWellFormed DEF Toward, PutsStand, WillAgree, AgreesSoFar
<1> QED
  BY <1>2, <1>3 DEF Converging

(* Two updates a node has still to handle are not related.                 *)
LEMMA PendingUnrelated ==
  ASSUME IInv, Calm, NEW n \in Node, NEW i \in Pending(n), NEW j \in Pending(n),
         i # j
  PROVE  ~ Related(log[i].path, log[j].path)
<1>1. i \in DOMAIN log /\ j \in DOMAIN log /\ i \in Nat /\ j \in Nat
  BY DEF Pending, IInv, TypeOK
<1>2. ~ Settled(i) /\ ~ Settled(j)
  BY DEF Pending, Settled
<1>3. i < j \/ j < i
  BY <1>1
<1> QED
  BY <1>1, <1>2, <1>3, RelatedCovers DEF Calm

(* The facts of a commit that no related update accompanies.               *)
LEMMA CommitCalm ==
  ASSUME IInv, Calm, NEW D, Toward(D), NEW n \in Node, NEW p \in Path,
         \A j \in DOMAIN log : Related(log[j].path, p) => Settled(j)
  PROVE  /\ \A m \in Node : \A j \in Pending(m) :
              ~ Related(log[j].path, p) /\ ~ Related(p, log[j].path)
         /\ \A m \in Node, r \in Place : Covers(p, r) => db[m][r] = D[r]
         /\ \A m \in Node, r \in Place : Above(r, p) =>
              db[m][r] = D[r] \/ (db[m][r] = Absent /\ D[r] = Bucket)
         /\ CanPut(db[n], p) => CanPut(D, p)
<1>1. \A m \in Node : \A j \in Pending(m) :
        ~ Related(log[j].path, p) /\ ~ Related(p, log[j].path)
  BY RelatedCovers DEF Pending, Settled
<1>2. ASSUME NEW m \in Node, NEW r \in Place, Covers(p, r)
      PROVE  db[m][r] = D[r]
  <2>1. ASSUME NEW j \in Pending(m) PROVE ~ Related(log[j].path, r)
    <3>1. log[j].path \in Path /\ r \in Path
      BY LogPaths, PathLen DEF Pending
    <3> QED
      BY <1>1, <1>2, <3>1, RelatedBelow, RelatedCovers
  <2>2. \A j \in Pending(m) : ~ Covers(log[j].path, r) /\ ~ Above(r, log[j].path)
    BY <2>1 DEF Related, Covers
  <2> QED
    BY <2>2 DEF Toward, AgreesSoFar
<1>3. ASSUME NEW m \in Node, NEW r \in Place, Above(r, p)
      PROVE  db[m][r] = D[r] \/ (db[m][r] = Absent /\ D[r] = Bucket)
  <2>1. ASSUME NEW j \in Pending(m) PROVE ~ Covers(log[j].path, r)
    <3>1. log[j].path \in Path /\ r \in Path /\ Covers(r, p)
      BY <1>3, LogPaths, PathLen DEF Pending, Covers
    <3> QED
      BY <1>1, <3>1, CoversTransitive, RelatedCovers
  <2> QED
    BY <2>1 DEF Toward, AgreesSoFar
<1>4. ASSUME CanPut(db[n], p) PROVE CanPut(D, p)
  <2>1. p \in Place /\ D[p] # Bucket
    BY <1>2, <1>4 DEF CanPut, Covers
  <2> QED
    BY <1>3, <1>4, <2>1 DEF CanPut
<1> QED
  BY <1>1, <1>2, <1>3, <1>4

(* A commit whose related predecessors have all been handled moves the     *)
(* tree the replicas are on their way to.                                  *)
LEMMA CommitConverges ==
  ASSUME IInv, ~ raced, ~ raced', Calm, PutsFit, NEW D, Toward(D),
         NEW n \in Node, NEW s, NEW type \in UpdateType, NEW p \in Path,
         NEW o \in Object \cup {Absent}, NEW more,
         type = "put:key" => CanPut(db[n], p), Commit(n, s, type, p, o, more)
  PROVE  Calm' /\ PutsFit' /\ \E T : Toward(T)'
<1> DEFINE u == [type |-> type, path |-> p, value |-> o]
           i == Len(log) + 1
           E == Apply(D, u)
<1>1. /\ db' = [db EXCEPT ![n] = Apply(@, u)]
      /\ log' = Append(log, u)
      /\ seen' = [seen EXCEPT ![n] = @ \cup {i}]
      /\ \A j \in DOMAIN log : Related(log[j].path, p) => Settled(j)
  BY DEF Commit
<1>2. u \in Update /\ u.path = p /\ u.type = type
  BY DEF Update
<1> HIDE DEF u
<1>3. /\ log \in Seq(Update) /\ seen \in [Node -> SUBSET (1..MaxOps)]
      /\ db \in [Node -> Tree] /\ \A m \in Node : WellFormed(db[m])
  BY DEF IInv, TypeOK, TreesWellFormed
<1>4. /\ DOMAIN log' = DOMAIN log \cup {i} /\ i \notin DOMAIN log
      /\ log'[i] = u /\ \A j \in DOMAIN log : log'[j] = log[j] /\ j < i
      /\ i \in Nat
  BY <1>1, <1>2, <1>3
<1> HIDE DEF i
<1>5. /\ seen'[n] = seen[n] \cup {i}
      /\ \A m \in Node : m # n => seen'[m] = seen[m]
      /\ \A m \in Node : seen[m] \subseteq DOMAIN log
  BY <1>1, <1>3 DEF IInv, Accounted, AccountedAt
<1>6. /\ Pending(n)' = Pending(n)
      /\ \A m \in Node : m # n => Pending(m)' = Pending(m) \cup {i}
      /\ \A m \in Node : i \notin Pending(m)
  BY <1>4, <1>5 DEF Pending
<1>7. /\ \A m \in Node : \A j \in Pending(m) :
           ~ Related(log[j].path, p) /\ ~ Related(p, log[j].path)
      /\ \A m \in Node, r \in Place : Covers(p, r) => db[m][r] = D[r]
      /\ \A m \in Node, r \in Place : Above(r, p) =>
           db[m][r] = D[r] \/ (db[m][r] = Absent /\ D[r] = Bucket)
      /\ type = "put:key" => CanPut(D, p)
  BY <1>1, CommitCalm
<1>8. D \in Tree /\ WellFormed(D) /\ PutsStand(D) /\ WillAgree(D) /\ AgreesSoFar(D)
  BY DEF Toward
<1>9. /\ \A r \in Place : E[r] = Effect(D, u, r)
      /\ \A r \in Place : db'[n][r] = Effect(db[n], u, r)
      /\ \A m \in Node : m # n => db'[m] = db[m]
  <2>1. \A r \in Place : E[r] = Effect(D, u, r)
    BY <1>2, <1>7, <1>8, ApplyEffect
  <2>2. \A r \in Place : Apply(db[n], u)[r] = Effect(db[n], u, r)
    BY <1>2, <1>3, ApplyEffect
  <2>3. db'[n] = Apply(db[n], u) /\ \A m \in Node : m # n => db'[m] = db[m]
    BY <1>1, <1>3
  <2> QED
    BY <2>1, <2>2, <2>3
<1>10. E \in Tree /\ WellFormed(E)
  BY <1>2, <1>8, ApplyType, ApplyWellFormed
<1> HIDE DEF E
<1>11. \A j \in DOMAIN log : Settled(j) => Settled(j)'
  BY <1>5 DEF Settled
<1>12. \A j \in DOMAIN log : ~ Settled(j)' => ~ Related(log[j].path, p)
  BY <1>1, <1>11
<1>13. \A m \in Node : \A j \in Pending(m), r \in Place :
         Covers(log[j].path, r) => ~ Related(p, r)
  <2> SUFFICES ASSUME NEW m \in Node, NEW j \in Pending(m), NEW r \in Place,
                      Covers(log[j].path, r), Related(p, r)
               PROVE  FALSE
    OBVIOUS
  <2>1. log[j].path \in Path /\ r \in Path
    BY LogPaths, PathLen DEF Pending
  <2>2. Related(log[j].path, p)
    BY <2>1, RelatedBelow, RelatedCovers
  <2> QED
    BY <2>2, <1>7
<1>14. Calm'
  <2> SUFFICES ASSUME NEW j \in DOMAIN log', NEW k \in DOMAIN log', j < k,
                      Related(log'[j].path, log'[k].path)
               PROVE  Settled(j)'
    BY DEF Calm
  <2>1. j \in DOMAIN log
    BY <1>3, <1>4
  <2>2. CASE k \in DOMAIN log
    BY <2>1, <2>2, <1>4, <1>11 DEF Calm
  <2>3. CASE k = i
    BY <2>1, <2>3, <1>1, <1>2, <1>4, <1>11
  <2> QED
    BY <2>2, <2>3, <1>4
<1>15. PutsFit'
  <2> SUFFICES ASSUME NEW m \in Node, NEW j \in Pending(m)',
                      log'[j].type = "put:key"
               PROVE  db'[m][log'[j].path] # Bucket
    BY DEF PutsFit, IsPut
  <2>1. CASE j = i
    <3>1. m # n /\ type = "put:key" /\ log'[j].path = p /\ db'[m] = db[m]
      BY <2>1, <1>2, <1>4, <1>6, <1>9
    <3>2. p \in Place /\ D[p] # Bucket
      BY <3>1, <1>7 DEF CanPut
    <3> QED
      BY <3>1, <3>2, <1>7 DEF Covers
  <2>2. CASE j # i
    <3>1. j \in Pending(m) /\ log'[j] = log[j]
      BY <2>2, <1>4, <1>6 DEF Pending
    <3>2. IsPut(j) /\ db[m][log[j].path] # Bucket
      BY <3>1 DEF PutsFit, IsPut
    <3>3. log[j].path \in Place
      <4>1. j \in DOMAIN log /\ ~ Settled(j)
        BY <3>1 DEF Pending, Settled
      <4> QED
        BY <3>2, <4>1, <1>8 DEF PutsStand
    <3>4. m = n => db'[m][log[j].path] = db[m][log[j].path]
      BY <3>1, <3>3, <1>2, <1>7, <1>9, EffectElsewhere
    <3> QED
      BY <3>1, <3>2, <3>4, <1>9
  <2> QED
    BY <2>1, <2>2
<1>16. PutsStand(E)'
  <2> SUFFICES ASSUME NEW j \in DOMAIN log', log'[j].type = "put:key",
                      ~ Settled(j)'
               PROVE  /\ log'[j].path \in Place
                      /\ \A q \in Place : Above(q, log'[j].path) => E[q] = Bucket
    BY DEF PutsStand, IsPut
  <2>1. CASE j = i
    <3>1. type = "put:key" /\ log'[j].path = p
      BY <2>1, <1>2, <1>4
    <3>2. p \in Place
      BY <3>1, <1>7 DEF CanPut
    <3>3. ASSUME NEW q \in Place, Above(q, p) PROVE E[q] = Bucket
      <4>1. ~ Covers(p, q)
        <5>1. Len(p) \in Nat /\ Len(q) \in Nat
          BY <3>2, PlaceLen
        <5> QED
          BY <5>1, <3>3 DEF Covers, Above
      <4> QED
        BY <3>1, <3>3, <4>1, <1>2, <1>9, EffectElsewhere
    <3> QED
      BY <3>1, <3>2, <3>3
  <2>2. CASE j # i
    <3>1. /\ j \in DOMAIN log /\ log'[j] = log[j] /\ IsPut(j) /\ ~ Settled(j)
          /\ ~ Related(log[j].path, p)
      BY <2>2, <1>4, <1>11, <1>12 DEF IsPut
    <3>2. log[j].path \in Place
      BY <3>1, <1>8 DEF PutsStand
    <3>3. ASSUME NEW q \in Place, Above(q, log[j].path) PROVE E[q] = Bucket
      <4>1. D[q] = Bucket
        BY <3>1, <3>3, <1>8 DEF PutsStand
      <4>2. ~ Covers(p, q)
        <5>1. q \in Path /\ log[j].path \in Path /\ Covers(q, log[j].path)
          BY <3>2, <3>3, PathLen DEF Covers
        <5> QED
          BY <5>1, <3>1, CoversTransitive, RelatedCovers
      <4>3. E[q] = D[q] \/ E[q] = Bucket
        BY <4>2, <1>2, <1>9, EffectElsewhere DEF Related, Covers
      <4> QED
        BY <4>1, <4>3
    <3> QED
      BY <3>1, <3>2, <3>3
  <2> QED
    BY <2>1, <2>2
<1>17. WillAgree(E)'
  <2> SUFFICES ASSUME NEW m \in Node, NEW j \in Pending(m)', NEW r \in Place,
                      Covers(log'[j].path, r)
               PROVE  E[r] = Effect(db'[m], log'[j], r)
    BY DEF WillAgree
  <2>1. CASE j = i
    <3>1. m # n /\ log'[j] = u /\ db'[m] = db[m] /\ Covers(p, r)
      BY <2>1, <1>2, <1>4, <1>6, <1>9
    <3>2. Effect(D, u, r) = Effect(db[m], u, r)
      BY <3>1, <1>2, <1>7, EffectLocal
    <3> QED
      BY <3>1, <3>2, <1>9
  <2>2. CASE j # i
    <3>1. j \in Pending(m) /\ log'[j] = log[j] /\ log[j] \in Update
      BY <2>2, <1>4, <1>6, LogPaths DEF Pending
    <3>2. ~ Related(p, r)
      BY <3>1, <1>13
    <3>3. E[r] = D[r] /\ db'[m][r] = db[m][r]
      BY <3>2, <1>2, <1>9, EffectElsewhere
    <3>4. D[r] = Effect(db[m], log[j], r)
      BY <3>1, <1>8 DEF WillAgree
    <3> QED
      BY <3>1, <3>3, <3>4, EffectLocal
  <2> QED
    BY <2>1, <2>2
<1>18. AgreesSoFar(E)'
  <2> SUFFICES ASSUME NEW m \in Node, NEW q \in Place,
                      \A j \in Pending(m)' : ~ Covers(log'[j].path, q)
               PROVE  \/ db'[m][q] = E[q]
                      \/ /\ db'[m][q] = Absent /\ E[q] = Bucket
                         /\ \E j \in Pending(m)' :
                              log'[j].type = "put:key" /\ Above(q, log'[j].path)
    BY DEF AgreesSoFar, IsPut
  <2>1. Pending(m) \subseteq Pending(m)'
        /\ \A j \in Pending(m) : log'[j] = log[j]
    BY <1>4, <1>6 DEF Pending
  <2>2. \/ db[m][q] = D[q]
        \/ /\ db[m][q] = Absent /\ D[q] = Bucket
           /\ \E j \in Pending(m) : IsPut(j) /\ Above(q, log[j].path)
    BY <2>1, <1>8 DEF AgreesSoFar
  <2>3. CASE Covers(p, q)
    <3>1. m = n
      BY <2>3, <1>2, <1>4, <1>6
    <3>2. Effect(D, u, q) = Effect(db[n], u, q)
      BY <2>3, <1>2, <1>7, EffectLocal
    <3> QED
      BY <3>1, <3>2, <1>9
  <2>4. CASE ~ Covers(p, q) /\ Above(q, p) /\ type = "put:key"
    <3>1. E[q] = Bucket /\ (m = n => db'[m][q] = Bucket)
      BY <2>4, <1>2, <1>9, EffectElsewhere
    <3>2. CASE m = n
      BY <3>1, <3>2
    <3>3. CASE m # n
      <4>1. db'[m][q] = db[m][q] /\ i \in Pending(m)' /\ log'[i] = u
        BY <3>3, <1>4, <1>6, <1>9
      <4>2. D[q] \in {Absent, Bucket}
        BY <2>4, <1>7 DEF CanPut
      <4>3. db[m][q] \in {Absent, Bucket}
        BY <2>2, <4>2
      <4> QED
        BY <2>4, <3>1, <4>1, <4>3, <1>2
    <3> QED
      BY <3>2, <3>3
  <2>5. CASE ~ Covers(p, q) /\ ~ (Above(q, p) /\ type = "put:key")
    <3>1. E[q] = D[q] /\ db'[m][q] = db[m][q]
      BY <2>5, <1>2, <1>9, EffectElsewhere DEF Related, Covers
    <3> QED
      BY <2>1, <2>2, <3>1 DEF IsPut
  <2> QED
    BY <2>3, <2>4, <2>5
<1> QED
  BY <1>10, <1>14, <1>15, <1>16, <1>17, <1>18 DEF Toward

(* A node that handles an update comes nearer to where all are going.      *)
LEMMA HandleConverges ==
  ASSUME IInv, Calm, PutsFit, NEW D, Toward(D), NEW n \in Node, HandleUpdate(n)
  PROVE  Calm' /\ PutsFit' /\ Toward(D)'
<1> DEFINE i == Head(updates[n])
           u == log[i]
           p == log[i].path
<1>1. /\ updates[n] # <<>>
      /\ db' = [db EXCEPT ![n] = Apply(@, u)]
      /\ seen' = [seen EXCEPT ![n] = @ \cup {i}]
      /\ log' = log
  BY DEF HandleUpdate
<1>2. i \in Pending(n) /\ i \in DOMAIN log
  BY <1>1, HeadIsTodo DEF Pending
<1> HIDE DEF i
<1>3. u \in Update /\ p \in Path
  BY <1>2, LogPaths
<1>4. /\ seen \in [Node -> SUBSET (1..MaxOps)]
      /\ db \in [Node -> Tree] /\ \A m \in Node : WellFormed(db[m])
  BY DEF IInv, TypeOK, TreesWellFormed
<1>5. /\ Pending(n)' = Pending(n) \ {i}
      /\ \A m \in Node : m # n => Pending(m)' = Pending(m)
      /\ \A m \in Node : Pending(m)' \subseteq Pending(m)
      /\ \A j : Settled(j) => Settled(j)'
  BY <1>1, <1>4 DEF Pending, Settled
<1>6. D \in Tree /\ WellFormed(D) /\ PutsStand(D) /\ WillAgree(D) /\ AgreesSoFar(D)
  BY DEF Toward
<1>7. \A j \in Pending(n) : j # i => ~ Related(p, log[j].path)
  BY <1>2, PendingUnrelated
<1>8. u.type = "put:key" =>
        /\ CanPut(db[n], p)
        /\ \A q \in Place : Above(q, p) => D[q] = Bucket
  <2> SUFFICES ASSUME u.type = "put:key"
               PROVE  CanPut(db[n], p) /\ \A q \in Place : Above(q, p) => D[q] = Bucket
    OBVIOUS
  <2>1. IsPut(i) /\ ~ Settled(i)
    BY <1>2 DEF IsPut, Pending, Settled
  <2>2. p \in Place /\ (\A q \in Place : Above(q, p) => D[q] = Bucket)
        /\ db[n][p] # Bucket
    BY <1>2, <1>6, <2>1 DEF PutsStand, PutsFit
  <2>3. ASSUME NEW q \in Place, Above(q, p)
        PROVE  db[n][q] \in {Absent, Bucket}
    <3>1. ASSUME NEW j \in Pending(n) PROVE ~ Covers(log[j].path, q)
      <4>1. q \in Path /\ log[j].path \in Path /\ Covers(q, p)
        BY <2>3, LogPaths, PathLen DEF Pending, Covers
      <4>2. CASE j = i
        <5>1. Len(p) \in Nat /\ Len(q) \in Nat
          BY <2>2, PlaceLen
        <5> QED
          BY <4>2, <5>1, <2>3 DEF Covers, Above
      <4>3. CASE j # i
        <5>1. ~ Related(p, log[j].path)
          BY <4>3, <1>7
        <5> HIDE DEF p
        <5> QED
          BY <4>1, <5>1, <1>3, CoversTransitive, RelatedCovers
      <4> QED
        BY <4>2, <4>3
    <3>2. db[n][q] = D[q] \/ db[n][q] = Absent
      BY <3>1, <1>6 DEF AgreesSoFar
    <3> QED
      BY <3>2, <2>2, <2>3
  <2> QED
    BY <2>2, <2>3 DEF CanPut
<1>9. /\ \A r \in Place : db'[n][r] = Effect(db[n], u, r)
      /\ \A m \in Node : m # n => db'[m] = db[m]
  <2>1. \A r \in Place : Apply(db[n], u)[r] = Effect(db[n], u, r)
    BY <1>3, <1>4, <1>8, ApplyEffect
  <2>2. db'[n] = Apply(db[n], u) /\ \A m \in Node : m # n => db'[m] = db[m]
    BY <1>1, <1>4
  <2> QED
    BY <2>1, <2>2
<1>10. \A j \in Pending(n), r \in Place :
         j # i /\ Covers(log[j].path, r) => ~ Related(p, r)
  <2> SUFFICES ASSUME NEW j \in Pending(n), NEW r \in Place, j # i,
                      Covers(log[j].path, r), Related(p, r)
               PROVE  FALSE
    OBVIOUS
  <2>1. log[j].path \in Path /\ r \in Path
    BY LogPaths, PathLen DEF Pending
  <2>2. ~ Related(p, log[j].path)
    BY <1>7
  <2> HIDE DEF p
  <2> QED
    BY <2>1, <2>2, <1>3, RelatedBelow, RelatedCovers
<1> HIDE DEF u, p
<1>11. u = log[i] /\ u.path = p
  BY DEF u, p
<1>12. Calm'
  BY <1>1, <1>5 DEF Calm
<1>13. PutsFit'
  <2> SUFFICES ASSUME NEW m \in Node, NEW j \in Pending(m)',
                      log[j].type = "put:key"
               PROVE  db'[m][log[j].path] # Bucket
    BY <1>1 DEF PutsFit, IsPut
  <2>1. j \in Pending(m) /\ db[m][log[j].path] # Bucket
    BY <1>5 DEF PutsFit, IsPut
  <2>2. log[j].path \in Place
    BY <2>1, <1>6 DEF PutsStand, Pending, Settled, IsPut
  <2>3. m = n => db'[m][log[j].path] = db[m][log[j].path]
    BY <2>1, <2>2, <1>3, <1>5, <1>7, <1>9, <1>11, EffectElsewhere
  <2> QED
    BY <2>1, <2>3, <1>9
<1>14. PutsStand(D)'
  BY <1>1, <1>5, <1>6 DEF PutsStand, IsPut
<1>15. WillAgree(D)'
  <2> SUFFICES ASSUME NEW m \in Node, NEW j \in Pending(m)', NEW r \in Place,
                      Covers(log[j].path, r)
               PROVE  D[r] = Effect(db'[m], log[j], r)
    BY <1>1 DEF WillAgree
  <2>1. j \in Pending(m) /\ log[j] \in Update /\ D[r] = Effect(db[m], log[j], r)
    BY <1>5, <1>6, LogPaths DEF WillAgree, Pending
  <2>2. m = n => db'[m][r] = db[m][r]
    BY <2>1, <1>3, <1>5, <1>9, <1>10, <1>11, EffectElsewhere
  <2> QED
    BY <2>1, <2>2, <1>9, EffectLocal
<1>16. AgreesSoFar(D)'
  <2> SUFFICES ASSUME NEW m \in Node, NEW q \in Place,
                      \A j \in Pending(m)' : ~ Covers(log[j].path, q)
               PROVE  \/ db'[m][q] = D[q]
                      \/ /\ db'[m][q] = Absent /\ D[q] = Bucket
                         /\ \E j \in Pending(m)' :
                              log[j].type = "put:key" /\ Above(q, log[j].path)
    BY <1>1 DEF AgreesSoFar, IsPut
  <2>1. CASE m # n
    BY <2>1, <1>5, <1>6, <1>9 DEF AgreesSoFar, IsPut
  <2>2. CASE m = n /\ Covers(p, q)
    BY <2>2, <1>2, <1>6, <1>9, <1>11 DEF WillAgree
  <2>3. CASE m = n /\ ~ Covers(p, q) /\ Above(q, p) /\ u.type = "put:key"
    BY <2>3, <1>3, <1>8, <1>9, <1>11, EffectElsewhere
  <2>4. CASE m = n /\ ~ Covers(p, q) /\ ~ (Above(q, p) /\ u.type = "put:key")
    <3>1. db'[m][q] = db[m][q]
      BY <2>4, <1>3, <1>9, <1>11, EffectElsewhere DEF Related, Covers
    <3>2. \A j \in Pending(m) : ~ Covers(log[j].path, q)
      BY <2>4, <1>5, <1>11
    <3>3. \/ db[m][q] = D[q]
          \/ /\ db[m][q] = Absent /\ D[q] = Bucket
             /\ \E j \in Pending(m) : IsPut(j) /\ Above(q, log[j].path)
      BY <3>2, <1>6 DEF AgreesSoFar
    <3>4. \A j \in Pending(m) :
            IsPut(j) /\ Above(q, log[j].path) => j \in Pending(m)'
      BY <2>4, <1>5, <1>11 DEF IsPut
    <3> QED
      BY <3>1, <3>3, <3>4 DEF IsPut
  <2> QED
    BY <2>1, <2>2, <2>3, <2>4
<1> QED
  BY <1>6, <1>12, <1>13, <1>14, <1>15, <1>16 DEF Toward

(* Nothing else touches a database, the log or what has been handled.      *)
LEMMA StillConverging ==
  ASSUME Converging, UNCHANGED <<db, log, seen, raced>>
  PROVE  Converging'
<1>1. \A n \in Node : Pending(n)' = Pending(n)
  BY DEF Pending
<1>2. \A i : (IsPut(i)' <=> IsPut(i)) /\ (Settled(i)' <=> Settled(i))
  BY DEF IsPut, Settled
<1>3. Calm => Calm'
  BY <1>2 DEF Calm
<1>4. PutsFit => PutsFit'
  BY <1>1, <1>2 DEF PutsFit
<1>5. ASSUME NEW D, Toward(D) PROVE Toward(D)'
  <2>1. PutsStand(D)'
    BY <1>2, <1>5 DEF PutsStand, Toward
  <2>2. WillAgree(D)'
    BY <1>1, <1>5 DEF WillAgree, Toward
  <2>3. AgreesSoFar(D)'
    BY <1>1, <1>2, <1>5 DEF AgreesSoFar, Toward
  <2> QED
    BY <1>5, <2>1, <2>2, <2>3 DEF Toward
<1> QED
  BY <1>3, <1>4, <1>5 DEF Converging

(* Every step keeps the updates of related paths in the order of the log,  *)
(* until two of them race.                                                 *)
LEMMA NextConverging == IInv /\ Converging /\ [Next]_vars => Converging'
<1> SUFFICES ASSUME IInv, Converging, [Next]_vars PROVE Converging'
  OBVIOUS
<1>1. CASE UNCHANGED <<db, log, seen, raced>>
  BY <1>1, StillConverging
<1>2. ASSUME NEW n \in Node, NEW s \in Slot, Request(n, s) \/ Continue(n, s)
      PROVE  Converging'
  <2>1. CASE Committing(n, s)
    <3>1. PICK type \in UpdateType, p \in Path, o \in Object \cup {Absent},
               more \in BOOLEAN :
            /\ type = "put:key" => CanPut(db[n], p)
            /\ Commit(n, s, type, p, o, more)
      BY <2>1 DEF Committing
    <3>2. raced => raced'
      BY <3>1 DEF Commit
    <3>3. CASE ~ raced'
      <4>1. Calm /\ PutsFit /\ \E D : Toward(D)
        BY <3>2, <3>3 DEF Converging
      <4>2. PICK D : Toward(D)
        BY <4>1
      <4>3. Calm' /\ PutsFit' /\ \E T : Toward(T)'
        BY <3>1, <3>2, <3>3, <4>1, <4>2, CommitConverges
      <4> QED
        BY <4>3 DEF Converging
    <3> QED
      BY <3>3 DEF Converging
  <2>2. CASE Emit(n, s)
    BY <1>1, <2>2 DEF Emit
  <2>3. CASE UNCHANGED <<db, log, seen, missed, raced>>
    BY <2>3, <1>1
  <2> QED
    BY <1>2, <2>1, <2>2, <2>3, GoroutineSteps
<1>3. ASSUME NEW n \in Node, Discover(n) \/ HandleUpdate(n)
      PROVE  Converging'
  <2>1. CASE Discover(n)
    BY <2>1, <1>1 DEF Discover
  <2>2. CASE HandleUpdate(n)
    <3>1. raced' = raced
      BY <2>2 DEF HandleUpdate
    <3>2. CASE ~ raced
      <4>1. Calm /\ PutsFit /\ \E D : Toward(D)
        BY <3>2 DEF Converging
      <4>2. PICK D : Toward(D)
        BY <4>1
      <4>3. Calm' /\ PutsFit' /\ Toward(D)'
        BY <2>2, <4>1, <4>2, HandleConverges
      <4> QED
        BY <4>3 DEF Converging
    <3> QED
      BY <3>1, <3>2 DEF Converging
  <2> QED
    BY <1>3, <2>1, <2>2
<1>4. ASSUME NEW n \in Node, NEW i \in 1..MaxOps, Receive(n, i) \/ SendFails(n, i)
      PROVE  Converging'
  BY <1>1, <1>4 DEF Receive, SendFails
<1>5. CASE UNCHANGED vars
  BY <1>1, <1>5 DEF vars
<1> QED
  BY <1>2, <1>3, <1>4, <1>5 DEF Next

(* What the invariant is for.                                              *)
LEMMA ConvergingAgrees == IInv /\ Converging => Agreement
<1> SUFFICES ASSUME IInv, Converging, ~ raced,
                    NEW m \in Node, NEW n \in Node, NEW q \in Place,
                    Concerning(q) \subseteq seen[m] \cap seen[n]
             PROVE  db[m][q] = db[n][q]
  BY DEF Agreement
<1>1. PICK D : AgreesSoFar(D)
  BY DEF Converging, Toward
<1>2. ASSUME NEW k \in {m, n}, NEW i \in Pending(k)
      PROVE  ~ Covers(log[i].path, q) /\ ~ Above(q, log[i].path)
  <2>1. i \in DOMAIN log /\ i \notin Concerning(q)
    BY <1>2 DEF Pending
  <2> QED
    BY <2>1 DEF Concerning, Related, Covers
<1>3. \A k \in {m, n} : db[k][q] = D[q]
  BY <1>1, <1>2 DEF AgreesSoFar
<1> QED
  BY <1>3

(* As long as no update was issued while a related one was under way, two  *)
(* nodes that have handled everything that concerns a place store the same *)
(* there, whatever order updates of other places arrived in and whichever  *)
(* put or deletion failed on the way (kv.go, handleUpdate).                *)
THEOREM ReplicasAgree == Spec => []Agreement
BY InitConverging, Invariance, NextConverging, ConvergingAgrees, PTL DEF Spec

(* Nothing is on its way to a node, and nothing was lost.                  *)
Quiet == \A n \in Node : todo[n] = {} /\ missed[n] = {}

(* When the cluster is quiet, without races, all databases are the same    *)
(* (cluster.go, Emit; kv.go, handleUpdate): locks, buckets and values.     *)
THEOREM QuietReplicasAreEqual ==
  Spec => [](Quiet /\ ~ raced => \A m, n \in Node : db[m] = db[n])
<1>1. ASSUME IInv, Agreement, Quiet, ~ raced, NEW m \in Node, NEW n \in Node
      PROVE  db[m] = db[n]
  <2>1. ASSUME NEW k \in Node PROVE seen[k] = DOMAIN log
    <3>1. DOMAIN log = seen[k] \cup missed[k]
                         \cup InFlight(k) \cup Queued(k) \cup Unsent(k)
      BY <1>1 DEF IInv, Accounted, AccountedAt
    <3>2. missed[k] = {} /\ InFlight(k) \cup Queued(k) \cup Unsent(k) = {}
      BY <1>1 DEF Quiet, todo
    <3> QED
      BY <3>1, <3>2
  <2>2. \A q \in Place : db[m][q] = db[n][q]
    BY <1>1, <2>1 DEF Agreement, Concerning
  <2> QED
    BY <1>1, <2>2 DEF IInv, TypeOK, Tree
<1>2. IInv /\ Agreement => (Quiet /\ ~ raced => \A m, n \in Node : db[m] = db[n])
  BY <1>1
<1> QED
  BY <1>2, Invariance, ReplicasAgree, PTL

=============================================================================
