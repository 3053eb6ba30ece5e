---------------------------- MODULE CaveKVProofs ----------------------------
(***************************************************************************)
(* The safety of the replicated store for any number of nodes, requests    *)
(* and writes.  The first part is about the transactions of module Bolt:   *)
(* they keep a tree a tree, and a well-formed tree well-formed.            *)
(***************************************************************************)
EXTENDS CaveKV, SequenceTheorems, TLAPS

(* The places of a tree are sequences, so they have a length.              *)
LEMMA PlaceLen == ASSUME NEW p \in Place PROVE Len(p) \in Nat /\ p \in Seq(Name)
<1>1. PICK n \in 1..MaxDepth : p \in [1..n -> Name]
  BY DEF Place
<1>2. n \in Nat
  BY BoltAssumption
<1> QED
  BY <1>1, <1>2

(* A place is not above itself.                                            *)
LEMMA AboveIrreflexive == ASSUME NEW p \in Place PROVE ~ Above(p, p)
  BY PlaceLen DEF Above

(* What is above a place above r is above r.                               *)
LEMMA AboveTransitive ==
  ASSUME NEW p \in Place, NEW q \in Place, NEW r \in Place,
         Above(p, q), Above(q, r)
  PROVE  Above(p, r)
  BY PlaceLen DEF Above

(* Bucket is not a value: it is neither the absence of one nor an object.  *)
LEMMA BucketIsNoValue ==
  /\ Bucket # Absent
  /\ Bucket \notin Object
  BY BoltAssumption

-----------------------------------------------------------------------------
(* Every transaction turns a tree into a tree.                             *)
LEMMA ApplyType ==
  ASSUME NEW t \in Tree, NEW u \in Update
  PROVE  Apply(t, u) \in Tree
<1>1. /\ u.path \in Path
      /\ u.type \in UpdateType
      /\ u.value \in Object \cup {Absent}
  BY DEF Update
<1>2. Put(t, u.path, u.value) \in Tree
  BY <1>1 DEF Put, Tree
<1>3. Delete(t, u.path) \in Tree
  BY <1>1 DEF Delete, Tree
<1>4. DeleteBucket(t, u.path) \in Tree
  BY <1>1 DEF DeleteBucket, Tree
<1> QED
  BY <1>1, <1>2, <1>3, <1>4 DEF Apply, UpdateType

(* A put creates the buckets on the way to its key.                        *)
LEMMA PutWellFormed ==
  ASSUME NEW t \in Tree, WellFormed(t), NEW p \in Path,
         NEW o \in Object \cup {Absent}
  PROVE  WellFormed(Put(t, p, o))
<1>1. CASE ~ CanPut(t, p)
  BY <1>1 DEF Put
<1>2. CASE CanPut(t, p)
  <2> DEFINE new == [q \in Place |-> CASE q = p -> o
                                       [] Above(q, p) -> Bucket
                                       [] OTHER -> t[q]]
  <2>1. p \in Place /\ t[p] # Bucket
    BY <1>2 DEF CanPut
  <2>2. Put(t, p, o) = new
    BY <1>2 DEF Put
  <2>3. \A q \in Place : Above(q, p) => q # p /\ new[q] = Bucket
    BY <2>1, AboveIrreflexive
  <2>4. \A q \in Place : q # p /\ ~ Above(q, p) => new[q] = t[q]
    OBVIOUS
  <2>5. ASSUME NEW q \in Place, NEW r \in Place, Above(q, r), new[r] # Absent
        PROVE  new[q] = Bucket
    <3>1. CASE r = p
      BY <3>1, <2>5, <2>3
    <3>2. CASE Above(r, p)
      BY <3>2, <2>5, <2>1, <2>3, AboveTransitive
    <3>3. CASE r # p /\ ~ Above(r, p)
      <4>1. t[q] = Bucket
        BY <3>3, <2>4, <2>5 DEF WellFormed
      <4> QED
        BY <4>1, <2>1, <2>3, <2>4
    <3> QED
      BY <3>1, <3>2, <3>3
  <2> QED
    BY <2>2, <2>5 DEF WellFormed
<1> QED
  BY <1>1, <1>2

(* A delete takes away a key, and nothing lies below a key.                *)
LEMMA DeleteWellFormed ==
  ASSUME NEW t \in Tree, WellFormed(t), NEW p \in Path
  PROVE  WellFormed(Delete(t, p))
<1>1. CASE BucketsExist(t, p) /\ t[p] # Bucket
  <2>1. p \in Place
    BY <1>1 DEF BucketsExist
  <2>2. Delete(t, p) = [t EXCEPT ![p] = Absent]
    BY <1>1 DEF Delete
  <2> QED
    BY <1>1, <2>1, <2>2 DEF WellFormed, Tree
<1> QED
  BY <1>1 DEF Delete

(* A bucket deletion takes away everything below the bucket with it.       *)
LEMMA DeleteBucketWellFormed ==
  ASSUME NEW t \in Tree, WellFormed(t), NEW p \in Path
  PROVE  WellFormed(DeleteBucket(t, p))
<1>1. CASE BucketsExist(t, p) /\ t[p] = Bucket
  <2> DEFINE new == [q \in Place |->
                       IF q = p \/ Above(p, q) THEN Absent ELSE t[q]]
  <2>1. p \in Place
    BY <1>1 DEF BucketsExist
  <2>2. DeleteBucket(t, p) = new
    BY <1>1 DEF DeleteBucket
  <2>3. ASSUME NEW q \in Place, NEW r \in Place, Above(q, r), new[r] # Absent
        PROVE  new[q] = Bucket
    <3>1. r # p /\ ~ Above(p, r) /\ t[r] # Absent
      BY <2>3
    <3>2. q # p /\ ~ Above(p, q)
      BY <3>1, <2>1, <2>3, AboveTransitive
    <3> QED
      BY <3>1, <3>2, <2>3 DEF WellFormed
  <2> QED
    BY <2>2, <2>3 DEF WellFormed
<1> QED
  BY <1>1 DEF DeleteBucket

(* What any transaction leaves behind is reachable from the root.          *)
LEMMA ApplyWellFormed ==
  ASSUME NEW t \in Tree, WellFormed(t), NEW u \in Update
  PROVE  WellFormed(Apply(t, u))
<1>1. /\ u.path \in Path
      /\ u.type \in UpdateType
      /\ u.value \in Object \cup {Absent}
  BY DEF Update
<1> QED
  BY <1>1, PutWellFormed, DeleteWellFormed, DeleteBucketWellFormed
  DEF Apply, UpdateType

(* An empty bucket is a well-formed tree.                                  *)
LEMMA EmptyTreeWellFormed == EmptyTree \in Tree /\ WellFormed(EmptyTree)
  BY DEF EmptyTree, Tree, WellFormed

-----------------------------------------------------------------------------
(* Paths are sequences too, and two that are equally long and have the     *)
(* same names are the same path.                                           *)
LEMMA PathLen ==
  /\ Place \subseteq Path
  /\ \A p \in Path : Len(p) \in 1..MaxDepth /\ p \in [1..Len(p) -> Name \cup {Empty}]
<1>1. ASSUME NEW p \in Path
      PROVE  Len(p) \in 1..MaxDepth /\ p \in [1..Len(p) -> Name \cup {Empty}]
  <2>1. PICK n \in 1..MaxDepth : p \in [1..n -> Name \cup {Empty}]
    BY DEF Path
  <2>2. n \in Nat
    BY BoltAssumption
  <2>3. Len(p) = n
    BY <2>1, <2>2
  <2> QED
    BY <2>1, <2>3
<1>2. ASSUME NEW p \in Place PROVE p \in Path
  <2>1. PICK n \in 1..MaxDepth : p \in [1..n -> Name]
    BY DEF Place
  <2> QED
    BY <2>1 DEF Path
<1> QED
  BY <1>1, <1>2

(* p is a place, or above one, only if all its names are names.            *)
LEMMA AbovePlace ==
  ASSUME NEW p \in Path, NEW r \in Place, Above(p, r)
  PROVE  p \in Place
<1>1. /\ Len(p) \in 1..MaxDepth /\ p \in [1..Len(p) -> Name \cup {Empty}]
      /\ MaxDepth \in Nat
  BY PathLen, BoltAssumption
<1>2. Len(r) \in Nat /\ r \in Seq(Name)
  BY PlaceLen
<1>3. ASSUME NEW i \in 1..Len(p) PROVE p[i] \in Name
  <2>1. i \in 1..Len(r) /\ p[i] = r[i]
    BY <1>1, <1>2, <1>3 DEF Above
  <2> QED
    BY <2>1, <1>2
<1>4. p \in [1..Len(p) -> Name]
  BY <1>1, <1>3
<1> QED
  BY <1>1, <1>4 DEF Place

(* p is q or above it.                                                     *)
Covers(p, q) == p = q \/ Above(p, q)

(* A place that covers another covers what that one covers.                *)
LEMMA CoversTransitive ==
  ASSUME NEW p \in Path, NEW q \in Path, NEW r \in Path,
         Covers(p, q), Covers(q, r)
  PROVE  Covers(p, r)
<1>1. Len(p) \in Nat /\ Len(q) \in Nat /\ Len(r) \in Nat
  BY PathLen, BoltAssumption
<1>2. CASE Above(p, q) /\ Above(q, r)
  BY <1>1, <1>2 DEF Above, Covers
<1> QED
  BY <1>2 DEF Covers

(* Of two paths that lead to the same place one leads to the other.        *)
LEMMA CoversLinear ==
  ASSUME NEW p \in Path, NEW q \in Path, NEW r \in Path,
         Covers(p, r), Covers(q, r)
  PROVE  Covers(p, q) \/ Covers(q, p)
<1>1. /\ Len(p) \in Nat /\ Len(q) \in Nat /\ Len(r) \in Nat
      /\ p \in [1..Len(p) -> Name \cup {Empty}]
      /\ q \in [1..Len(q) -> Name \cup {Empty}]
  BY PathLen, BoltAssumption
<1>2. CASE p = r \/ q = r
  BY <1>2 DEF Covers
<1>3. CASE Above(p, r) /\ Above(q, r)
  <2>1. /\ Len(p) < Len(r) /\ \A i \in 1..Len(p) : p[i] = r[i]
        /\ Len(q) < Len(r) /\ \A i \in 1..Len(q) : q[i] = r[i]
    BY <1>3 DEF Above
  <2>2. CASE Len(p) < Len(q)
    BY <1>1, <2>1, <2>2 DEF Above, Covers
  <2>3. CASE Len(q) < Len(p)
    BY <1>1, <2>1, <2>3 DEF Above, Covers
  <2>4. CASE Len(p) = Len(q)
    <3>1. \A i \in 1..Len(p) : p[i] = q[i]
      BY <2>1, <2>4
    <3>2. p = q
      BY <1>1, <2>4, <3>1
    <3> QED
      BY <3>2 DEF Covers
  <2>5. \A j, k \in Nat : j < k \/ k < j \/ j = k
    OBVIOUS
  <2>6. Len(p) < Len(q) \/ Len(q) < Len(p) \/ Len(p) = Len(q)
    BY <1>1, <2>5, Zenon
  <2> QED
    BY <2>2, <2>3, <2>4, <2>6
<1> QED
  BY <1>2, <1>3 DEF Covers

(* Two places are related when one covers the other, in either order.      *)
LEMMA RelatedCovers ==
  ASSUME NEW p, NEW q
  PROVE  /\ Related(p, q) <=> Covers(p, q) \/ Covers(q, p)
         /\ Related(p, q) <=> Related(q, p)
  BY DEF Related, Covers

(* What is related to a place below p is related to p.                     *)
LEMMA RelatedBelow ==
  ASSUME NEW p \in Path, NEW q \in Path, NEW r \in Path,
         Covers(p, q), Related(q, r)
  PROVE  Related(p, r)
<1>1. CASE Covers(q, r)
  BY <1>1, CoversTransitive, RelatedCovers
<1>2. CASE Covers(r, q)
  BY <1>2, CoversLinear, RelatedCovers
<1> QED
  BY <1>1, <1>2, RelatedCovers

-----------------------------------------------------------------------------
(* What a transaction leaves at place r, if a put succeeds: this depends   *)
(* on nothing but the transaction and what was at r before.                *)
Effect(t, u, r) ==
  CASE u.type = "put:key" ->
         IF r = u.path THEN u.value
         ELSE IF Above(r, u.path) THEN Bucket ELSE t[r]
    [] u.type = "delete:key" ->
         IF r = u.path /\ t[r] # Bucket THEN Absent ELSE t[r]
    [] u.type = "delete:bucket" ->
         IF (r = u.path /\ t[r] = Bucket) \/ Above(u.path, r) THEN Absent
         ELSE t[r]

(* Effect says, place by place, what Apply does to a tree.                 *)
LEMMA ApplyEffect ==
  ASSUME NEW t \in Tree, WellFormed(t), NEW u \in Update, NEW r \in Place,
         u.type = "put:key" => CanPut(t, u.path)
  PROVE  Apply(t, u)[r] = Effect(t, u, r)
<1>1. u.path \in Path /\ u.type \in UpdateType
  BY DEF Update
<1>2. CASE u.type = "put:key"
  <2>1. Apply(t, u) = Put(t, u.path, u.value) /\ CanPut(t, u.path)
    BY <1>2 DEF Apply
  <2>2. Apply(t, u) = [q \in Place |-> CASE q = u.path -> u.value
                                        [] Above(q, u.path) -> Bucket
                                        [] OTHER -> t[q]]
    BY <2>1 DEF Put
  <2>3. u.path \in Place
    BY <2>1 DEF CanPut
  <2>4. r = u.path => ~ Above(r, u.path)
    BY <2>3, AboveIrreflexive
  <2> QED
    BY <1>2, <2>2, <2>4 DEF Effect
<1>3. CASE u.type = "delete:key"
  <2>1. Apply(t, u) = Delete(t, u.path)
    BY <1>3 DEF Apply
  <2>2. CASE BucketsExist(t, u.path) /\ t[u.path] # Bucket
    <3>1. u.path \in Place
      BY <2>2 DEF BucketsExist
    <3> QED
      BY <1>3, <2>1, <2>2, <3>1 DEF Effect, Delete, Tree
  <2>3. CASE ~ (BucketsExist(t, u.path) /\ t[u.path] # Bucket)
    <3>1. Apply(t, u)[r] = t[r]
      BY <2>1, <2>3 DEF Delete
    <3>2. CASE r = u.path /\ t[r] # Bucket
      <4>1. PICK q \in Place : Above(q, r) /\ t[q] # Bucket
        BY <2>3, <3>2 DEF BucketsExist
      <4>2. t[r] = Absent
        BY <4>1 DEF WellFormed
      <4> QED
        BY <1>3, <3>1, <3>2, <4>2 DEF Effect
    <3> QED
      BY <1>3, <3>1, <3>2 DEF Effect
  <2> QED
    BY <2>2, <2>3
<1>4. CASE u.type = "delete:bucket"
  <2>1. Apply(t, u) = DeleteBucket(t, u.path)
    BY <1>4 DEF Apply
  <2>2. CASE BucketsExist(t, u.path) /\ t[u.path] = Bucket
    BY <1>4, <2>1, <2>2 DEF Effect, DeleteBucket
  <2>3. CASE ~ (BucketsExist(t, u.path) /\ t[u.path] = Bucket)
    <3>1. Apply(t, u)[r] = t[r]
      BY <2>1, <2>3 DEF DeleteBucket
    <3>2. ~ (r = u.path /\ t[r] = Bucket)
      <4>1. SUFFICES ASSUME r = u.path, t[r] = Bucket PROVE FALSE
        OBVIOUS
      <4>2. PICK q \in Place : Above(q, r) /\ t[q] # Bucket
        BY <2>3, <4>1 DEF BucketsExist
      <4> QED
        BY <4>1, <4>2, BucketIsNoValue DEF WellFormed
    <3>3. Above(u.path, r) => t[r] = Absent
      <4>1. SUFFICES ASSUME Above(u.path, r), t[r] # Absent PROVE FALSE
        OBVIOUS
      <4>2. u.path \in Place
        BY <1>1, <4>1, AbovePlace
      <4>3. t[u.path] = Bucket
        BY <4>1, <4>2 DEF WellFormed
      <4>4. \A q \in Place : Above(q, u.path) => t[q] = Bucket
        BY <4>2, <4>3, BucketIsNoValue DEF WellFormed
      <4> QED
        BY <2>3, <4>2, <4>3, <4>4 DEF BucketsExist
    <3> QED
      BY <1>4, <3>1, <3>2, <3>3 DEF Effect
  <2> QED
    BY <2>2, <2>3
<1> QED
  BY <1>1, <1>2, <1>3, <1>4 DEF UpdateType

(* A transaction leaves alone what is not related to its path, and a       *)
(* deletion what is above it.                                              *)
LEMMA EffectElsewhere ==
  ASSUME NEW t, NEW u \in Update, NEW r
  PROVE  /\ ~ Related(u.path, r) => Effect(t, u, r) = t[r]
         /\ ~ Covers(u.path, r) /\ u.type # "put:key" => Effect(t, u, r) = t[r]
         /\ ~ Covers(u.path, r) /\ u.type = "put:key" /\ Above(r, u.path)
              => Effect(t, u, r) = Bucket
<1>1. u.type \in UpdateType
  BY DEF Update
<1> QED
  BY <1>1 DEF Effect, Related, Covers, UpdateType

(* What an update does at a place depends on what is stored there only.    *)
LEMMA EffectLocal ==
  ASSUME NEW t1, NEW t2, NEW u \in Update, NEW r, t1[r] = t2[r]
  PROVE  Effect(t1, u, r) = Effect(t2, u, r)
<1>1. u.type \in UpdateType
  BY DEF Update
<1> QED
  BY <1>1 DEF Effect, UpdateType

-----------------------------------------------------------------------------
(* The inductive invariant.  It adds to what the runs check that an update *)
(* waiting to be sent is carried by a single goroutine and has been        *)
(* committed.                                                              *)
Carried ==
  \A m \in Node, s \in Slot, i \in 1..MaxOps : Carries(m, s, i) =>
    /\ i \in DOMAIN log
    /\ \A n \in Node, t \in Slot : Carries(n, t, i) => n = m /\ t = s

IInv == TypeOK /\ TreesWellFormed /\ Carried /\ Accounted

-----------------------------------------------------------------------------
(* What a goroutine can be doing.                                          *)
LEMMA GoroutineCases ==
  ASSUME NEW w \in Goroutine
  PROVE  /\ w.pc \in {"idle", "emit", "delete", "rewrite"}
         /\ w.pc = "emit" => w.op \in 1..MaxOps /\ w.more \in BOOLEAN
         /\ w.pc = "delete" => w.path \in Path
         /\ w.pc = "rewrite" => /\ w.path \in Path
                                /\ w.value \in Object
                                /\ w.claim \in BOOLEAN
<1>1. CASE w = Idle
  BY <1>1 DEF Idle
<1>2. ASSUME NEW i \in 1..MaxOps, NEW more \in BOOLEAN, w = Emitting(i, more)
      PROVE  w.pc = "emit" /\ w.op \in 1..MaxOps /\ w.more \in BOOLEAN
  BY <1>2 DEF Emitting
<1>3. ASSUME NEW p \in Path, w = Deleting(p)
      PROVE  w.pc = "delete" /\ w.path \in Path
  BY <1>3 DEF Deleting
<1>4. ASSUME NEW p \in Path, NEW o \in Object, NEW c \in BOOLEAN,
             w = Rewriting(p, o, c)
      PROVE  w.pc = "rewrite" /\ w.path \in Path /\ w.value \in Object
             /\ w.claim \in BOOLEAN
  BY <1>4 DEF Rewriting
<1>5. \/ w = Idle
      \/ \E i \in 1..MaxOps, more \in BOOLEAN : w = Emitting(i, more)
      \/ \E p \in Path : w = Deleting(p)
      \/ \E p \in Path, o \in Object, c \in BOOLEAN : w = Rewriting(p, o, c)
  BY DEF Goroutine
<1> QED
  BY <1>1, <1>2, <1>3, <1>4, <1>5

-----------------------------------------------------------------------------
(* At the start every database is empty and nothing has been committed.    *)
LEMMA InitIInv == Init => IInv
<1> SUFFICES ASSUME Init PROVE IInv
  OBVIOUS
<1>1. TypeOK
  <2>1. Idle \in Goroutine
    BY DEF Goroutine
  <2>2. MaxOps \in Nat /\ QueueCap \in Nat
    BY KVAssumption
  <2>3. /\ db \in [Node -> Tree]
        /\ work \in [Node -> [Slot -> Goroutine]]
        /\ peers \in [Node -> SUBSET Node]
        /\ \A n \in Node : n \notin peers[n]
    BY <2>1, EmptyTreeWellFormed DEF Init
  <2>4. /\ net \subseteq Node \X (1..MaxOps)
        /\ updates \in [Node -> Seq(1..MaxOps)]
        /\ \A n \in Node : Len(updates[n]) <= QueueCap
        /\ log \in Seq(Update)
        /\ Len(log) <= MaxOps
    BY <2>2 DEF Init
  <2>5. /\ seen \in [Node -> SUBSET (1..MaxOps)]
        /\ missed \in [Node -> SUBSET (1..MaxOps)]
        /\ raced \in BOOLEAN
    BY DEF Init
  <2> QED
    BY <2>3, <2>4, <2>5 DEF TypeOK
<1>2. TreesWellFormed
  BY EmptyTreeWellFormed DEF Init, TreesWellFormed
<1>3. \A m \in Node, s \in Slot : work[m][s].pc # "emit"
  BY DEF Init, Idle
<1>4. Carried
  BY <1>3 DEF Carried, Carries
<1>5. Accounted
  BY <1>3 DEF Init, Accounted, AccountedAt, InFlight, Queued, Unsent, Carries
<1> QED
  BY <1>1, <1>2, <1>4, <1>5 DEF IInv

(* A transaction of a goroutine that carries no update gives it one to     *)
(* carry.                                                                  *)
LEMMA CommitIInv ==
  ASSUME IInv, NEW n \in Node, NEW s \in Slot, work[n][s].pc # "emit",
         NEW type \in UpdateType, NEW p \in Path,
         NEW o \in Object \cup {Absent}, NEW more \in BOOLEAN,
         Commit(n, s, type, p, o, more)
  PROVE  IInv'
<1> DEFINE u == [type |-> type, path |-> p, value |-> o]
           i == Len(log) + 1
<1>1. /\ i <= MaxOps
      /\ db' = [db EXCEPT ![n] = Apply(@, u)]
      /\ log' = Append(log, u)
      /\ seen' = [seen EXCEPT ![n] = @ \cup {i}]
      /\ work' = [work EXCEPT ![n][s] = Emitting(i, more)]
      /\ raced' \in BOOLEAN
      /\ UNCHANGED <<peers, net, updates, missed>>
  BY DEF Commit, IInv, TypeOK
<1>2. TypeOK /\ TreesWellFormed /\ Carried /\ Accounted
  BY DEF IInv
<1>3. u \in Update
  BY DEF Update
<1>4. i \in 1..MaxOps /\ MaxOps \in Nat /\ Len(log) \in Nat
  BY <1>1, <1>2, KVAssumption DEF TypeOK
<1>5. Apply(db[n], u) \in Tree /\ WellFormed(Apply(db[n], u))
  BY <1>2, <1>3, ApplyType, ApplyWellFormed DEF TypeOK, TreesWellFormed
<1>6. Emitting(i, more) \in Goroutine
  BY <1>4 DEF Goroutine
<1>7. TypeOK'
  BY <1>1, <1>2, <1>3, <1>4, <1>5, <1>6 DEF TypeOK
<1>8. TreesWellFormed'
  BY <1>1, <1>2, <1>5 DEF TypeOK, TreesWellFormed
<1>9. DOMAIN log' = DOMAIN log \cup {i} /\ i \notin DOMAIN log
  BY <1>1, <1>2, <1>3, <1>4 DEF TypeOK
<1>10. \A m \in Node, t \in Slot, j \in 1..MaxOps :
         Carries(m, t, j)' <=> IF m = n /\ t = s THEN j = i ELSE Carries(m, t, j)
  BY <1>1, <1>2 DEF TypeOK, Carries, Emitting
<1>11. \A m \in Node, t \in Slot, j \in 1..MaxOps :
         Carries(m, t, j) => j \in DOMAIN log /\ ~ (m = n /\ t = s)
  <2>1. \A j : ~ Carries(n, s, j)
    BY DEF Carries
  <2> QED
    BY <2>1, <1>2 DEF Carried
<1>12. Carried'
  <2> SUFFICES ASSUME NEW m \in Node, NEW t \in Slot, NEW j \in 1..MaxOps,
                      Carries(m, t, j)'
               PROVE  /\ (j \in DOMAIN log)'
                      /\ \A m2 \in Node, t2 \in Slot :
                           Carries(m2, t2, j)' => m2 = m /\ t2 = t
    BY DEF Carried
  <2>1. CASE m = n /\ t = s
    BY <2>1, <1>9, <1>10, <1>11
  <2>2. CASE ~ (m = n /\ t = s)
    <3>1. Carries(m, t, j)
      BY <2>2, <1>10
    <3>2. j \in DOMAIN log /\ \A m2 \in Node, t2 \in Slot :
                               Carries(m2, t2, j) => m2 = m /\ t2 = t
      BY <3>1, <1>2 DEF Carried
    <3> QED
      BY <3>2, <1>9, <1>10
  <2> QED
    BY <2>1, <2>2
<1>13. Accounted'
  <2>1. \A m \in Node : Unsent(m)' = IF m = n THEN Unsent(m)
                                    ELSE Unsent(m) \cup {i}
    BY <1>4, <1>10, <1>11 DEF Unsent
  <2>2. \A m \in Node : /\ InFlight(m)' = InFlight(m)
                        /\ Queued(m)' = Queued(m)
                        /\ missed'[m] = missed[m]
                        /\ updates'[m] = updates[m]
                        /\ seen'[m] = IF m = n THEN seen[m] \cup {i} ELSE seen[m]
    BY <1>1, <1>2 DEF TypeOK, InFlight, Queued
  <2> SUFFICES ASSUME NEW m \in Node
               PROVE  AccountedAt(m)'
    BY DEF Accounted
  <2>3. AccountedAt(m) /\ i \notin seen[m] \cup missed[m] \cup InFlight(m)
                                     \cup Queued(m) \cup Unsent(m)
    BY <1>2, <1>9 DEF Accounted, AccountedAt
  <2>4. CASE m = n
    <3>1. /\ DOMAIN log' = DOMAIN log \cup {i}
          /\ seen'[m] = seen[m] \cup {i}
          /\ missed'[m] = missed[m]
          /\ InFlight(m)' = InFlight(m)
          /\ Queued(m)' = Queued(m)
          /\ Unsent(m)' = Unsent(m)
          /\ updates'[m] = updates[m]
      BY <2>1, <2>2, <2>4, <1>9
    <3> QED
      BY <3>1, <2>3 DEF AccountedAt
  <2>5. CASE m # n
    <3>1. /\ DOMAIN log' = DOMAIN log \cup {i}
          /\ seen'[m] = seen[m]
          /\ missed'[m] = missed[m]
          /\ InFlight(m)' = InFlight(m)
          /\ Queued(m)' = Queued(m)
          /\ Unsent(m)' = Unsent(m) \cup {i}
          /\ updates'[m] = updates[m]
      BY <2>1, <2>2, <2>5, <1>9
    <3> QED
      BY <3>1, <2>3 DEF AccountedAt
  <2> QED
    BY <2>4, <2>5
<1> QED
  BY <1>7, <1>8, <1>12, <1>13 DEF IInv

(* A goroutine that carries no update and takes none up only changes what  *)
(* it will do.                                                             *)
LEMMA ThinkIInv ==
  ASSUME IInv, NEW n \in Node, NEW s \in Slot, work[n][s].pc # "emit",
         NEW w \in Goroutine, w.pc # "emit",
         work' = [work EXCEPT ![n][s] = w],
         UNCHANGED <<db, peers, net, updates, log, seen, missed, raced>>
  PROVE  IInv'
<1>1. TypeOK /\ TreesWellFormed /\ Carried /\ Accounted
  BY DEF IInv
<1>2. TypeOK'
  BY <1>1 DEF TypeOK
<1>3. TreesWellFormed'
  BY <1>1 DEF TreesWellFormed
<1>5. \A m \in Node, t \in Slot : \A j : Carries(m, t, j)' <=> Carries(m, t, j)
  BY <1>1 DEF TypeOK, Carries
<1>6. Carried'
  BY <1>1, <1>5 DEF Carried
<1>7. Accounted'
  BY <1>1, <1>5 DEF Accounted, AccountedAt, InFlight, Queued, Unsent
<1> QED
  BY <1>2, <1>3, <1>6, <1>7 DEF IInv

(* An update leaves its goroutine for the network, or is missed.           *)
LEMMA EmitIInv ==
  ASSUME IInv, NEW n \in Node, NEW s \in Slot, Emit(n, s)
  PROVE  IInv'
<1> DEFINE i == work[n][s].op
           next == IF work[n][s].more THEN Deleting(log[i].path) ELSE Idle
<1>1. /\ work[n][s].pc = "emit"
      /\ net' = net \cup {<<m, i>> : m \in peers[n]}
      /\ missed' = [m \in Node |-> IF m \in peers[n] \cup {n} THEN missed[m]
                                   ELSE missed[m] \cup {i}]
      /\ work' = [work EXCEPT ![n][s] = next]
      /\ UNCHANGED <<db, peers, updates, log, seen, raced>>
  BY DEF Emit
<1>2. TypeOK /\ TreesWellFormed /\ Carried /\ Accounted
  BY DEF IInv
<1>3. i \in 1..MaxOps /\ Carries(n, s, i)
  BY <1>1, <1>2, GoroutineCases DEF TypeOK, Carries
<1>4. /\ i \in DOMAIN log
      /\ \A m \in Node, t \in Slot : Carries(m, t, i) => m = n /\ t = s
  BY <1>2, <1>3 DEF Carried
<1>5. next \in Goroutine /\ next.pc # "emit"
  <2>1. log[i] \in Update
    BY <1>2, <1>4 DEF TypeOK
  <2>2. log[i].path \in Path
    BY <2>1 DEF Update
  <2>3. Deleting(log[i].path) \in Goroutine /\ Deleting(log[i].path).pc # "emit"
    BY <2>2 DEF Goroutine, Deleting
  <2>4. Idle \in Goroutine /\ Idle.pc # "emit"
    BY DEF Goroutine, Idle
  <2> QED
    BY <2>3, <2>4
<1>6. TypeOK'
  <2>1. net' \subseteq Node \X (1..MaxOps)
    BY <1>1, <1>2, <1>3 DEF TypeOK
  <2>2. missed' \in [Node -> SUBSET (1..MaxOps)]
    BY <1>1, <1>2, <1>3 DEF TypeOK
  <2>3. work' \in [Node -> [Slot -> Goroutine]]
    BY <1>1, <1>2, <1>5 DEF TypeOK
  <2> QED
    BY <2>1, <2>2, <2>3, <1>1, <1>2 DEF TypeOK
<1>7. TreesWellFormed'
  BY <1>1, <1>2 DEF TreesWellFormed
<1>8. \A m \in Node, t \in Slot, j \in 1..MaxOps :
        Carries(m, t, j)' <=> Carries(m, t, j) /\ ~ (m = n /\ t = s)
  BY <1>1, <1>2, <1>5 DEF TypeOK, Carries
<1>9. Carried'
  BY <1>1, <1>2, <1>8 DEF Carried
<1>10. Accounted'
  <2> SUFFICES ASSUME NEW m \in Node PROVE AccountedAt(m)'
    BY DEF Accounted
  <2>1. AccountedAt(m) /\ n \notin peers[n] /\ peers[n] \subseteq Node
    BY <1>2 DEF Accounted, TypeOK
  <2>2. Queued(m)' = Queued(m) /\ updates'[m] = updates[m]
        /\ seen'[m] = seen[m] /\ log' = log
    BY <1>1 DEF Queued
  <2>3. CASE m = n
    <3>1. Unsent(m)' = Unsent(m)
      BY <2>3, <1>8 DEF Unsent
    <3>2. InFlight(m)' = InFlight(m) /\ missed'[m] = missed[m]
      BY <2>1, <2>3, <1>1 DEF InFlight
    <3> QED
      BY <2>1, <2>2, <3>1, <3>2 DEF AccountedAt
  <2>4. CASE m # n
    <3>1. Unsent(m)' = Unsent(m) \ {i} /\ i \in Unsent(m)
      <4> HIDE DEF i, next
      <4>1. i \in Unsent(m)
        BY <2>4, <1>3 DEF Unsent
      <4>2. i \notin Unsent(m)'
        BY <1>3, <1>4, <1>8 DEF Unsent
      <4>3. ASSUME NEW j \in 1..MaxOps, j # i
            PROVE  j \in Unsent(m)' <=> j \in Unsent(m)
        <5>1. Carries(n, s, i) => ~ Carries(n, s, j)
          BY <4>3 DEF Carries
        <5>2. \A k \in Node, t \in Slot : Carries(k, t, j)' <=> Carries(k, t, j)
          BY <5>1, <1>3, <1>8
        <5> QED
          BY <5>2 DEF Unsent
      <4>4. Unsent(m) \subseteq 1..MaxOps /\ Unsent(m)' \subseteq 1..MaxOps
        BY DEF Unsent
      <4> QED
        BY <4>1, <4>2, <4>3, <4>4
    <3>2. CASE m \in peers[n]
      <4>1. InFlight(m)' = InFlight(m) \cup {i} /\ missed'[m] = missed[m]
        BY <3>2, <1>1, <1>3 DEF InFlight
      <4> QED
        BY <2>1, <2>2, <3>1, <4>1 DEF AccountedAt
    <3>3. CASE m \notin peers[n]
      <4>1. InFlight(m)' = InFlight(m) /\ missed'[m] = missed[m] \cup {i}
        BY <2>4, <3>3, <1>1, <1>3 DEF InFlight
      <4> QED
        BY <2>1, <2>2, <3>1, <4>1 DEF AccountedAt
    <3> QED
      BY <3>2, <3>3
  <2> QED
    BY <2>3, <2>4
<1> QED
  BY <1>6, <1>7, <1>9, <1>10 DEF IInv

(* A node's own list of peers never names the node.                        *)
LEMMA DiscoverIInv ==
  ASSUME IInv, NEW n \in Node, Discover(n)
  PROVE  IInv'
<1>1. TypeOK /\ TreesWellFormed /\ Carried /\ Accounted
  BY DEF IInv
<1>2. PICK S \in SUBSET (Node \ {n}) : peers' = [peers EXCEPT ![n] = S]
  BY DEF Discover
<1>3. UNCHANGED <<db, work, net, updates, log, seen, missed, raced>>
  BY DEF Discover
<1>4. TypeOK'
  BY <1>1, <1>2, <1>3 DEF TypeOK
<1>5. TreesWellFormed' /\ Carried'
  BY <1>1, <1>3 DEF TreesWellFormed, Carried, Carries
<1>6. Accounted'
  BY <1>1, <1>3
  DEF Accounted, AccountedAt, Carries, InFlight, Queued, Unsent
<1> QED
  BY <1>4, <1>5, <1>6 DEF IInv

(* A failed send moves an update from the network to what is missed.       *)
LEMMA SendFailsIInv ==
  ASSUME IInv, NEW n \in Node, NEW i \in 1..MaxOps, SendFails(n, i)
  PROVE  IInv'
<1>1. TypeOK /\ TreesWellFormed /\ Carried /\ Accounted
  BY DEF IInv
<1>2. /\ <<n, i>> \in net
      /\ net' = net \ {<<n, i>>}
      /\ missed' = [missed EXCEPT ![n] = @ \cup {i}]
      /\ UNCHANGED <<db, work, peers, updates, log, seen, raced>>
  BY DEF SendFails
<1>3. TypeOK'
  BY <1>1, <1>2 DEF TypeOK
<1>4. TreesWellFormed' /\ Carried'
  BY <1>1, <1>2 DEF TreesWellFormed, Carried, Carries
<1>5. Accounted'
  <2> SUFFICES ASSUME NEW m \in Node PROVE AccountedAt(m)'
    BY DEF Accounted
  <2>1. AccountedAt(m)
    BY <1>1 DEF Accounted
  <2>2. /\ Queued(m)' = Queued(m) /\ updates'[m] = updates[m]
        /\ Unsent(m)' = Unsent(m)
        /\ seen'[m] = seen[m] /\ log' = log
    BY <1>2 DEF Queued, Unsent, Carries
  <2>3. CASE m = n
    <3>1. /\ i \in InFlight(m)
          /\ InFlight(m)' = InFlight(m) \ {i}
          /\ missed'[m] = missed[m] \cup {i}
      BY <1>1, <1>2, <2>3 DEF InFlight, TypeOK
    <3> QED
      BY <2>1, <2>2, <3>1 DEF AccountedAt
  <2>4. CASE m # n
    <3>1. InFlight(m)' = InFlight(m) /\ missed'[m] = missed[m]
      BY <1>1, <1>2, <2>4 DEF InFlight, TypeOK
    <3> QED
      BY <2>1, <2>2, <3>1 DEF AccountedAt
  <2> QED
    BY <2>3, <2>4
<1> QED
  BY <1>3, <1>4, <1>5 DEF IInv

(* The end of a queue that gets one more element.                          *)
LEMMA QueuedAppend ==
  ASSUME NEW q \in Seq(1..MaxOps), NEW i \in 1..MaxOps
  PROVE  LET r == Append(q, i)
         IN /\ {r[k] : k \in DOMAIN r} = {q[k] : k \in DOMAIN q} \cup {i}
            /\ /\ i \notin {q[k] : k \in DOMAIN q}
               /\ \A j, k \in DOMAIN q : q[j] = q[k] => j = k
               => \A j, k \in DOMAIN r : r[j] = r[k] => j = k
<1> DEFINE r == Append(q, i)
<1>1. DOMAIN q = 1..Len(q) /\ DOMAIN r = 1..(Len(q) + 1) /\ Len(q) \in Nat
  OBVIOUS
<1>2. r[Len(q) + 1] = i /\ \A k \in 1..Len(q) : r[k] = q[k]
  OBVIOUS
<1> HIDE DEF r
<1>3. {r[k] : k \in DOMAIN r} = {q[k] : k \in DOMAIN q} \cup {i}
  BY <1>1, <1>2
<1>4. ASSUME i \notin {q[k] : k \in DOMAIN q},
             \A j, k \in DOMAIN q : q[j] = q[k] => j = k
      PROVE  \A j, k \in DOMAIN r : r[j] = r[k] => j = k
  BY <1>1, <1>2, <1>4
<1> QED
  BY <1>3, <1>4 DEF r

(* What is left of a sequence is one over the same elements.               *)
LEMMA TailType ==
  ASSUME NEW q \in Seq(1..MaxOps), q # <<>>
  PROVE  /\ Head(q) \in 1..MaxOps
         /\ Tail(q) \in Seq(1..MaxOps)
         /\ Len(Tail(q)) <= Len(q)
<1>1. /\ Head(q) \in 1..MaxOps
      /\ Tail(q) \in Seq(1..MaxOps)
      /\ Len(Tail(q)) = Len(q) - 1
  BY HeadTailProperties
<1>2. Len(q) \in Nat
  OBVIOUS
<1> QED
  BY <1>1, <1>2

(* The rest of a queue without repetitions lacks exactly its head.         *)
LEMMA QueuedTail ==
  ASSUME NEW q \in Seq(1..MaxOps), q # <<>>,
         \A j, k \in DOMAIN q : q[j] = q[k] => j = k
  PROVE  /\ Head(q) \in {q[k] : k \in DOMAIN q}
         /\ {Tail(q)[k] : k \in DOMAIN Tail(q)}
              = {q[k] : k \in DOMAIN q} \ {Head(q)}
         /\ \A j, k \in DOMAIN Tail(q) : Tail(q)[j] = Tail(q)[k] => j = k
<1> DEFINE r == Tail(q)
           i == Head(q)
<1>1. /\ Len(q) \in Nat \ {0} /\ DOMAIN q = 1..Len(q)
      /\ DOMAIN r = 1..(Len(q) - 1)
  OBVIOUS
<1>2. i = q[1] /\ \A k \in 1..(Len(q) - 1) : r[k] = q[k + 1]
  OBVIOUS
<1> HIDE DEF r, i
<1>3. i \in {q[k] : k \in DOMAIN q}
  BY <1>1, <1>2
<1>4. \A x : x \in {r[k] : k \in DOMAIN r} => x \in {q[k] : k \in DOMAIN q} \ {i}
  BY <1>1, <1>2
<1>5. ASSUME NEW x \in {q[k] : k \in DOMAIN q} \ {i}
      PROVE  x \in {r[k] : k \in DOMAIN r}
  <2>1. PICK k \in DOMAIN q : x = q[k] /\ k # 1
    BY <1>2, <1>5
  <2>2. k - 1 \in DOMAIN r /\ r[k - 1] = x
    BY <2>1, <1>1, <1>2
  <2> QED
    BY <2>2
<1>6. \A j, k \in DOMAIN r : r[j] = r[k] => j = k
  BY <1>1, <1>2
<1>7. {r[k] : k \in DOMAIN r} = {q[k] : k \in DOMAIN q} \ {i}
  BY <1>4, <1>5
<1> QED
  BY <1>3, <1>6, <1>7 DEF r, i

(* An update is handed to the channel only when there is room.             *)
LEMMA ReceiveIInv ==
  ASSUME IInv, NEW n \in Node, NEW i \in 1..MaxOps, Receive(n, i)
  PROVE  IInv'
<1>1. TypeOK /\ TreesWellFormed /\ Carried /\ Accounted
  BY DEF IInv
<1>2. /\ <<n, i>> \in net
      /\ Len(updates[n]) < QueueCap
      /\ net' = net \ {<<n, i>>}
      /\ updates' = [updates EXCEPT ![n] = Append(@, i)]
      /\ UNCHANGED <<db, work, peers, log, seen, missed, raced>>
  BY DEF Receive
<1>3. updates[n] \in Seq(1..MaxOps) /\ QueueCap \in Nat
  BY <1>1, KVAssumption DEF TypeOK
<1>4. TypeOK'
  <2>1. /\ Append(updates[n], i) \in Seq(1..MaxOps)
        /\ Len(Append(updates[n], i)) <= QueueCap
    BY <1>2, <1>3
  <2>2. /\ updates' \in [Node -> Seq(1..MaxOps)]
        /\ \A m \in Node : Len(updates'[m]) <= QueueCap
    BY <1>1, <1>2, <2>1 DEF TypeOK
  <2>3. net' \subseteq Node \X (1..MaxOps)
    BY <1>1, <1>2 DEF TypeOK
  <2> QED
    BY <2>2, <2>3, <1>1, <1>2 DEF TypeOK
<1>5. TreesWellFormed' /\ Carried'
  BY <1>1, <1>2 DEF TreesWellFormed, Carried, Carries
<1>6. Accounted'
  <2> SUFFICES ASSUME NEW m \in Node PROVE AccountedAt(m)'
    BY DEF Accounted
  <2>1. AccountedAt(m)
    BY <1>1 DEF Accounted
  <2>2. /\ Unsent(m)' = Unsent(m) /\ missed'[m] = missed[m]
        /\ seen'[m] = seen[m] /\ log' = log
    BY <1>2 DEF Unsent, Carries
  <2>3. CASE m = n
    <3>1. i \in InFlight(m) /\ InFlight(m)' = InFlight(m) \ {i}
      BY <1>1, <1>2, <2>3 DEF InFlight, TypeOK
    <3>2. updates'[m] = Append(updates[m], i)
      BY <1>1, <1>2, <2>3 DEF TypeOK
    <3>3. Queued(m)' = Queued(m) \cup {i}
      <4> DEFINE q == updates[n]
                 r == Append(q, i)
      <4>1. {r[k] : k \in DOMAIN r} = {q[k] : k \in DOMAIN q} \cup {i}
        BY <1>3, QueuedAppend
      <4> HIDE DEF r
      <4>2. Queued(m) = {q[k] : k \in DOMAIN q}
        BY <2>3 DEF Queued
      <4>3. Queued(m)' = {r[k] : k \in DOMAIN r}
        BY <2>3, <3>2 DEF Queued, r
      <4> QED
        BY <4>1, <4>2, <4>3
    <3>4. \A j, k \in DOMAIN updates'[m] :
            updates'[m][j] = updates'[m][k] => j = k
      <4>1. i \notin {updates[m][k] : k \in DOMAIN updates[m]}
        BY <2>1, <3>1 DEF AccountedAt, Queued
      <4> QED
        BY <1>3, <2>1, <2>3, <3>2, <4>1, QueuedAppend DEF AccountedAt
    <3> QED
      BY <2>1, <2>2, <3>1, <3>3, <3>4 DEF AccountedAt
  <2>4. CASE m # n
    <3>1. /\ InFlight(m)' = InFlight(m)
          /\ updates'[m] = updates[m]
          /\ Queued(m)' = Queued(m)
      BY <1>1, <1>2, <2>4 DEF InFlight, Queued, TypeOK
    <3> QED
      BY <2>1, <2>2, <3>1 DEF AccountedAt
  <2> QED
    BY <2>3, <2>4
<1> QED
  BY <1>4, <1>5, <1>6 DEF IInv

(* A node handles an update it had not handled before, and emits nothing.  *)
LEMMA HandleUpdateIInv ==
  ASSUME IInv, NEW n \in Node, HandleUpdate(n)
  PROVE  IInv'
<1> DEFINE i == Head(updates[n])
<1>1. TypeOK /\ TreesWellFormed /\ Carried /\ Accounted
  BY DEF IInv
<1>2. /\ updates[n] # <<>>
      /\ db' = [db EXCEPT ![n] = Apply(@, log[i])]
      /\ seen' = [seen EXCEPT ![n] = @ \cup {i}]
      /\ updates' = [updates EXCEPT ![n] = Tail(@)]
      /\ UNCHANGED <<work, peers, net, log, missed, raced>>
  BY DEF HandleUpdate
<1>3. updates[n] \in Seq(1..MaxOps) /\ QueueCap \in Nat
  BY <1>1, KVAssumption DEF TypeOK
<1>4. AccountedAt(n)
  BY <1>1 DEF Accounted
<1>5. i \in Queued(n) /\ i \in 1..MaxOps /\ i \in DOMAIN log
  <2>1. i \in Queued(n)
    BY <1>2, <1>3, <1>4, QueuedTail DEF AccountedAt, Queued
  <2>2. i \in 1..MaxOps
    BY <1>2, <1>3, TailType
  <2> HIDE DEF i
  <2> QED
    BY <2>1, <2>2, <1>4 DEF AccountedAt
<1> HIDE DEF i
<1>6. Apply(db[n], log[i]) \in Tree /\ WellFormed(Apply(db[n], log[i]))
  <2>1. log[i] \in Update
    BY <1>1, <1>5 DEF TypeOK
  <2> QED
    BY <2>1, <1>1, ApplyType, ApplyWellFormed DEF TypeOK, TreesWellFormed
<1>7. TypeOK'
  <2>1. /\ Tail(updates[n]) \in Seq(1..MaxOps)
        /\ Len(Tail(updates[n])) <= Len(updates[n])
    BY <1>2, <1>3, TailType
  <2>2. /\ updates' \in [Node -> Seq(1..MaxOps)]
        /\ \A m \in Node : Len(updates'[m]) <= QueueCap
    BY <1>1, <1>2, <1>3, <2>1 DEF TypeOK
  <2>3. db' \in [Node -> Tree] /\ seen' \in [Node -> SUBSET (1..MaxOps)]
    BY <1>1, <1>2, <1>5, <1>6 DEF TypeOK
  <2> QED
    BY <2>2, <2>3, <1>1, <1>2 DEF TypeOK
<1>8. TreesWellFormed'
  BY <1>1, <1>2, <1>6 DEF TreesWellFormed, TypeOK
<1>9. Carried'
  BY <1>1, <1>2 DEF Carried, Carries
<1>10. Accounted'
  <2> SUFFICES ASSUME NEW m \in Node PROVE AccountedAt(m)'
    BY DEF Accounted
  <2>1. AccountedAt(m)
    BY <1>1 DEF Accounted
  <2>2. /\ Unsent(m)' = Unsent(m) /\ missed'[m] = missed[m]
        /\ InFlight(m)' = InFlight(m) /\ log' = log
    BY <1>2 DEF Unsent, Carries, InFlight
  <2>3. CASE m = n
    <3>1. updates'[m] = Tail(updates[m]) /\ seen'[m] = seen[m] \cup {i}
      BY <1>1, <1>2, <2>3 DEF TypeOK
    <3>2. /\ Queued(m)' = Queued(m) \ {i}
          /\ \A j, k \in DOMAIN updates'[m] :
               updates'[m][j] = updates'[m][k] => j = k
      <4> DEFINE q == updates[n]
      <4>1. /\ q \in Seq(1..MaxOps) /\ q # <<>>
            /\ \A j, k \in DOMAIN q : q[j] = q[k] => j = k
        BY <1>2, <1>3, <1>4 DEF AccountedAt
      <4>2. /\ updates[m] = q /\ updates'[m] = Tail(q)
            /\ Queued(m) = {q[k] : k \in DOMAIN q}
            /\ Queued(m)' = {Tail(q)[k] : k \in DOMAIN Tail(q)}
            /\ i = Head(q)
        BY <2>3, <3>1 DEF Queued, i
      <4> HIDE DEF q
      <4>3. /\ {Tail(q)[k] : k \in DOMAIN Tail(q)}
                 = {q[k] : k \in DOMAIN q} \ {Head(q)}
            /\ \A j, k \in DOMAIN Tail(q) : Tail(q)[j] = Tail(q)[k] => j = k
        BY <4>1, QueuedTail
      <4>4. Queued(m)' = Queued(m) \ {i}
        BY <4>2, <4>3, Zenon
      <4>5. \A j, k \in DOMAIN updates'[m] :
              updates'[m][j] = updates'[m][k] => j = k
        BY <4>2, <4>3, Zenon
      <4> QED
        BY <4>4, <4>5
    <3> QED
      BY <1>5, <2>1, <2>2, <2>3, <3>1, <3>2 DEF AccountedAt
  <2>4. CASE m # n
    <3>1. /\ seen'[m] = seen[m]
          /\ updates'[m] = updates[m]
          /\ Queued(m)' = Queued(m)
      BY <1>1, <1>2, <2>4 DEF Queued, TypeOK
    <3> QED
      BY <2>1, <2>2, <3>1 DEF AccountedAt
  <2> QED
    BY <2>3, <2>4
<1> QED
  BY <1>7, <1>8, <1>9, <1>10 DEF IInv

-----------------------------------------------------------------------------
(* Lock and Unlock remember a path and an object.                          *)
LEMMA RewritingType ==
  ASSUME NEW p \in Path, NEW o \in Object, NEW c \in BOOLEAN
  PROVE  Rewriting(p, o, c) \in Goroutine /\ Rewriting(p, o, c).pc # "emit"
<1>1. Rewriting(p, o, c) \in Goroutine
  BY DEF Goroutine
<1>2. Rewriting(p, o, c).pc = "rewrite"
  BY DEF Rewriting
<1> QED
  BY <1>1, <1>2

(* A put that fails changes nothing but the goroutine that tried it.       *)
LEMMA FailedPut ==
  ASSUME IInv, NEW n \in Node, NEW s, NEW p, NEW o,
         PutObject(n, s, p, o), ~ CanPut(db[n], p)
  PROVE  /\ work' = [work EXCEPT ![n][s] = Idle]
         /\ UNCHANGED <<db, peers, net, updates, log, seen, missed, raced>>
<1>1. /\ db' = [db EXCEPT ![n] = Put(db[n], p, o)]
      /\ work' = [work EXCEPT ![n][s] = Idle]
      /\ UNCHANGED <<peers, net, updates, log, seen, missed, raced>>
  BY DEF PutObject
<1>2. Put(db[n], p, o) = db[n]
  BY DEF Put
<1>3. db' = db
  BY <1>1, <1>2 DEF IInv, TypeOK
<1> QED
  BY <1>1, <1>3

(* So a goroutine that carries no update keeps the invariant when it puts. *)
LEMMA PutObjectIInv ==
  ASSUME IInv, NEW n \in Node, NEW s \in Slot, work[n][s].pc # "emit",
         NEW p \in Path, NEW o, CanPut(db[n], p) /\ Len(log) + 1 <= MaxOps => o \in Object,
         PutObject(n, s, p, o)
  PROVE  IInv'
<1>1. CASE CanPut(db[n], p)
  <2>1. Commit(n, s, "put:key", p, o, FALSE)
    BY <1>1 DEF PutObject
  <2>2. o \in Object
    BY <1>1, <2>1 DEF Commit
  <2> QED
    BY <2>1, <2>2, CommitIInv DEF UpdateType
<1>2. CASE ~ CanPut(db[n], p)
  <2>1. Idle \in Goroutine /\ Idle.pc # "emit"
    BY DEF Goroutine, Idle
  <2> QED
    BY <1>2, <2>1, FailedPut, ThinkIInv
<1> QED
  BY <1>1, <1>2

(* A new request commits at once, or only makes up its mind.               *)
LEMMA RequestIInv ==
  ASSUME IInv, NEW n \in Node, NEW s \in Slot, Request(n, s)
  PROVE  IInv'
<1>1. TypeOK /\ Requested \subseteq Path
  BY KVAssumption DEF IInv
<1>2. work[n][s] = Idle /\ work[n][s].pc # "emit"
  <2>1. work[n][s] = Idle
    BY DEF Request, HandlePut, HandleDelete, CallDeleteBucket, CallLock,
           CallUnlock
  <2>2. Idle.pc = "idle"
    BY DEF Idle
  <2> QED
    BY <2>1, <2>2
<1>3. CASE HandlePut(n, s)
  <2>1. PICK p \in Requested, v \in Data :
          PutObject(n, s, p, [data |-> v, locks |-> {}])
    BY <1>3 DEF HandlePut
  <2>2. [data |-> v, locks |-> {}] \in Object
    BY DEF Object
  <2> QED
    BY <1>1, <1>2, <2>1, <2>2, PutObjectIInv
<1>4. CASE HandleDelete(n, s)
  <2>1. PICK p \in Requested :
          \/ Commit(n, s, "delete:bucket", p, Absent, TRUE)
          \/ Commit(n, s, "delete:key", p, Absent, FALSE)
    BY <1>4 DEF HandleDelete, DeleteKey
  <2> QED
    BY <1>1, <1>2, <2>1, CommitIInv DEF UpdateType
<1>5. CASE CallDeleteBucket(n, s)
  <2>1. PICK p \in Requested :
          Commit(n, s, "delete:bucket", p, Absent, FALSE)
    BY <1>5 DEF CallDeleteBucket
  <2> QED
    BY <1>1, <1>2, <2>1, CommitIInv DEF UpdateType
<1>6. ASSUME NEW p \in Path, Get(db[n], p) # Absent
      PROVE  Get(db[n], p) \in Object
  BY <1>1, <1>6 DEF Get, BucketsExist, TypeOK, Tree
<1>7. CASE CallLock(n, s)
  <2>1. PICK p \in Requested :
          /\ Get(db[n], p) # Absent
          /\ work' = [work EXCEPT ![n][s] = Rewriting(p, Get(db[n], p), TRUE)]
    BY <1>7 DEF CallLock
  <2>2. /\ Rewriting(p, Get(db[n], p), TRUE) \in Goroutine
        /\ Rewriting(p, Get(db[n], p), TRUE).pc # "emit"
    BY <1>1, <1>6, <2>1, RewritingType
  <2> QED
    BY <1>2, <1>7, <2>1, <2>2, ThinkIInv DEF CallLock
<1>8. CASE CallUnlock(n, s)
  <2>1. PICK p \in Requested :
          /\ Get(db[n], p) # Absent
          /\ \E id \in Get(db[n], p).locks :
               work' = [work EXCEPT ![n][s] =
                  Rewriting(p, [Get(db[n], p) EXCEPT !.locks = @ \ {id}], FALSE)]
    BY <1>8 DEF CallUnlock
  <2>2. PICK id \in Get(db[n], p).locks :
          work' = [work EXCEPT ![n][s] =
             Rewriting(p, [Get(db[n], p) EXCEPT !.locks = @ \ {id}], FALSE)]
    BY <2>1
  <2> DEFINE o == [Get(db[n], p) EXCEPT !.locks = @ \ {id}]
  <2>3. o \in Object
    BY <1>1, <1>6, <2>1 DEF Object
  <2> HIDE DEF o
  <2>4. Rewriting(p, o, FALSE) \in Goroutine /\ Rewriting(p, o, FALSE).pc # "emit"
    BY <1>1, <2>3, RewritingType
  <2>5. work' = [work EXCEPT ![n][s] = Rewriting(p, o, FALSE)]
    BY <2>2 DEF o
  <2> QED
    BY <1>2, <1>8, <2>4, <2>5, ThinkIInv DEF CallUnlock
<1> QED
  BY <1>3, <1>4, <1>5, <1>7, <1>8 DEF Request

(* So does a request that goes on; or it emits what it has committed.      *)
LEMMA ContinueIInv ==
  ASSUME IInv, NEW n \in Node, NEW s \in Slot, Continue(n, s)
  PROVE  IInv'
<1> DEFINE w == work[n][s]
<1>1. TypeOK /\ w \in Goroutine
  BY DEF IInv, TypeOK
<1>2. CASE HandleDeleteRest(n, s)
  <2>1. w.pc = "delete" /\ w.path \in Path
    BY <1>1, <1>2, GoroutineCases DEF HandleDeleteRest
  <2>2. Commit(n, s, "delete:key", w.path, Absent, FALSE)
    BY <1>2 DEF HandleDeleteRest, DeleteKey
  <2> QED
    BY <2>1, <2>2, CommitIInv DEF UpdateType
<1>3. CASE WriteBack(n, s)
  <2> DEFINE o == IF w.claim THEN [w.value EXCEPT !.locks = @ \cup {Len(log) + 1}]
                  ELSE w.value
  <2>1. w.pc = "rewrite" /\ w.path \in Path /\ w.value \in Object
    BY <1>1, <1>3, GoroutineCases DEF WriteBack
  <2>2. PutObject(n, s, w.path, o)
    BY <1>3 DEF WriteBack
  <2>3. Len(log) + 1 <= MaxOps => Len(log) + 1 \in LockId
    BY <1>1, KVAssumption DEF TypeOK
  <2>4. Len(log) + 1 <= MaxOps => o \in Object
    BY <2>1, <2>3 DEF Object
  <2> HIDE DEF o
  <2> QED
    BY <2>1, <2>2, <2>4, PutObjectIInv
<1>4. CASE Emit(n, s)
  BY <1>4, EmitIInv
<1> QED
  BY <1>2, <1>3, <1>4 DEF Continue

(* The invariant is inductive.                                             *)
LEMMA NextIInv == IInv /\ [Next]_vars => IInv'
<1> SUFFICES ASSUME IInv, [Next]_vars PROVE IInv'
  OBVIOUS
<1>1. CASE UNCHANGED vars
  <2> USE <1>1 DEF vars, IInv
  <2>1. TypeOK'
    BY DEF TypeOK
  <2>2. TreesWellFormed'
    BY DEF TreesWellFormed
  <2>3. Carried'
    BY DEF Carried, Carries
  <2>4. Accounted'
    BY DEF Accounted, AccountedAt, Carries, InFlight, Queued, Unsent
  <2> QED
    BY <2>1, <2>2, <2>3, <2>4
<1>2. ASSUME NEW n \in Node, NEW s \in Slot, Request(n, s) \/ Continue(n, s)
      PROVE  IInv'
  BY <1>2, RequestIInv, ContinueIInv
<1>3. ASSUME NEW n \in Node, Discover(n) \/ HandleUpdate(n)
      PROVE  IInv'
  BY <1>3, DiscoverIInv, HandleUpdateIInv
<1>4. ASSUME NEW n \in Node, NEW i \in 1..MaxOps, Receive(n, i) \/ SendFails(n, i)
      PROVE  IInv'
  BY <1>4, ReceiveIInv, SendFailsIInv
<1> QED
  BY <1>1, <1>2, <1>3, <1>4 DEF Next

-----------------------------------------------------------------------------
(* A step of a request commits a transaction that succeeds, emits, or      *)
(* changes nothing that anyone else sees.                                  *)
Committing(n, s) ==
  \E type \in UpdateType, p \in Path, o \in Object \cup {Absent},
     more \in BOOLEAN :
    /\ type = "put:key" => CanPut(db[n], p) /\ o \in Object
    /\ Commit(n, s, type, p, o, more)

(* A goroutine of a client commits, broadcasts, or changes nothing that a  *)
(* replica shows.                                                          *)
LEMMA GoroutineSteps ==
  ASSUME IInv, NEW n \in Node, NEW s \in Slot, Request(n, s) \/ Continue(n, s)
  PROVE  \/ Committing(n, s)
         \/ Emit(n, s)
         \/ UNCHANGED <<db, log, seen, missed, raced>>
<1>1. Requested \subseteq Path /\ UpdateType = {"put:key", "delete:key", "delete:bucket"}
  BY KVAssumption DEF UpdateType
<1>2. work[n][s] \in Goroutine
  BY DEF IInv, TypeOK
<1>3. CASE HandlePut(n, s)
  <2>1. PICK p \in Requested, v \in Data :
          PutObject(n, s, p, [data |-> v, locks |-> {}])
    BY <1>3 DEF HandlePut
  <2>2. [data |-> v, locks |-> {}] \in Object
    BY DEF Object
  <2>3. CASE CanPut(db[n], p)
    <3>1. Commit(n, s, "put:key", p, [data |-> v, locks |-> {}], FALSE)
      BY <2>1, <2>3 DEF PutObject
    <3> QED
      BY <1>1, <2>2, <2>3, <3>1 DEF Committing
  <2> QED
    BY <2>1, <2>3, FailedPut
<1>4. CASE HandleDelete(n, s)
  BY <1>1, <1>4 DEF HandleDelete, DeleteKey, Committing
<1>5. CASE CallDeleteBucket(n, s)
  BY <1>1, <1>5 DEF CallDeleteBucket, Committing
<1>6. CASE CallLock(n, s) \/ CallUnlock(n, s)
  BY <1>6 DEF CallLock, CallUnlock
<1>7. CASE HandleDeleteRest(n, s)
  <2>1. work[n][s].path \in Path
    BY <1>2, <1>7, GoroutineCases DEF HandleDeleteRest
  <2> QED
    BY <1>1, <1>7, <2>1 DEF HandleDeleteRest, DeleteKey, Committing
<1>8. CASE WriteBack(n, s)
  <2> DEFINE w == work[n][s]
             o == IF w.claim
                  THEN [w.value EXCEPT !.locks = @ \cup {Len(log) + 1}]
                  ELSE w.value
  <2>1. w.path \in Path /\ w.value \in Object
    BY <1>2, <1>8, GoroutineCases DEF WriteBack
  <2>2. PutObject(n, s, w.path, o)
    BY <1>8 DEF WriteBack
  <2>3. CASE CanPut(db[n], w.path)
    <3>1. Commit(n, s, "put:key", w.path, o, FALSE) /\ Len(log) + 1 <= MaxOps
      BY <2>2, <2>3 DEF PutObject, Commit
    <3>2. Len(log) + 1 \in LockId
      BY <3>1, KVAssumption DEF IInv, TypeOK
    <3>3. o \in Object
      BY <2>1, <3>2 DEF Object
    <3> HIDE DEF o, w
    <3> QED
      BY <1>1, <2>1, <2>3, <3>1, <3>3 DEF Committing
  <2> HIDE DEF o, w
  <2> QED
    BY <2>2, <2>3, FailedPut
<1> QED
  BY <1>3, <1>4, <1>5, <1>6, <1>7, <1>8 DEF Request, Continue

-----------------------------------------------------------------------------
(* q is a bucket of the tree t with nothing in it.                         *)
EmptyBucket(t, q) ==
  t[q] = Bucket /\ \A p \in Place : Above(q, p) => t[p] = Absent

(* A transaction that leaves an empty bucket found it empty or has deleted *)
(* something in it.                                                        *)
LEMMA EmptyAfter ==
  ASSUME NEW t \in Tree, NEW u \in Update, NEW q \in Place,
         u.type = "put:key" => u.value \in Object,
         EmptyBucket(Apply(t, u), q)
  PROVE  EmptyBucket(t, q) \/ (u.type # "put:key" /\ Above(q, u.path))
<1>1. u.type \in UpdateType /\ u.path \in Path
  BY DEF Update
<1>2. CASE u.type = "put:key"
  <2>1. Apply(t, u) = Put(t, u.path, u.value)
    BY <1>2 DEF Apply
  <2>2. CASE CanPut(t, u.path)
    <3>1. u.path \in Place
      BY <2>2 DEF CanPut
    <3>2. \A p \in Place : Apply(t, u)[p] = IF p = u.path THEN u.value
                                            ELSE IF Above(p, u.path) THEN Bucket
                                            ELSE t[p]
      BY <2>1, <2>2, <3>1, AboveIrreflexive DEF Put
    <3>3. u.value # Absent /\ u.value # Bucket
      BY <1>2, BoltAssumption
    <3>4. ~ Above(q, u.path) /\ q # u.path
      BY <3>1, <3>2, <3>3 DEF EmptyBucket
    <3>5. t[q] = Bucket
      BY <3>2, <3>4 DEF EmptyBucket
    <3>6. ASSUME NEW p \in Place, Above(q, p) PROVE t[p] = Absent
      <4>1. Apply(t, u)[p] = Absent
        BY <3>6 DEF EmptyBucket
      <4> QED
        BY <3>2, <3>3, <4>1, BucketIsNoValue
    <3> QED
      BY <3>5, <3>6 DEF EmptyBucket
  <2> QED
    BY <2>1, <2>2 DEF Put
<1>3. CASE u.type = "delete:key"
  <2>1. Apply(t, u) = Delete(t, u.path)
    BY <1>3 DEF Apply
  <2>2. ASSUME ~ Above(q, u.path) PROVE EmptyBucket(t, q)
    <3>1. \A p \in Place : p # u.path => Apply(t, u)[p] = t[p]
      BY <2>1 DEF Delete, Tree
    <3>2. t[q] = Bucket
      BY <2>1, BucketIsNoValue DEF Delete, EmptyBucket, Tree
    <3> QED
      BY <2>2, <3>1, <3>2 DEF EmptyBucket
  <2> QED
    BY <1>3, <2>2
<1>4. CASE u.type = "delete:bucket"
  <2>1. Apply(t, u) = DeleteBucket(t, u.path)
    BY <1>4 DEF Apply
  <2>2. ASSUME ~ Above(q, u.path) PROVE EmptyBucket(t, q)
    <3>1. CASE BucketsExist(t, u.path) /\ t[u.path] = Bucket
      <4>1. \A p \in Place : Apply(t, u)[p] = IF Covers(u.path, p) THEN Absent
                                              ELSE t[p]
        BY <2>1, <3>1 DEF DeleteBucket, Covers
      <4>2. ~ Covers(u.path, q) /\ t[q] = Bucket
        BY <4>1, BucketIsNoValue DEF EmptyBucket
      <4>3. ASSUME NEW p \in Place, Above(q, p) PROVE t[p] = Absent
        <5>1. ~ Covers(u.path, p)
          <6>1. SUFFICES ASSUME Covers(u.path, p) PROVE FALSE
            OBVIOUS
          <6>2. Covers(u.path, q) \/ Covers(q, u.path)
            BY <1>1, <4>3, <6>1, PathLen, CoversLinear DEF Covers
          <6> QED
            BY <2>2, <4>2, <6>2 DEF Covers
        <5> QED
          BY <4>1, <4>3, <5>1 DEF EmptyBucket
      <4> QED
        BY <4>2, <4>3 DEF EmptyBucket
    <3> QED
      BY <2>1, <3>1 DEF DeleteBucket
  <2> QED
    BY <1>4, <2>2
<1> QED
  BY <1>1, <1>2, <1>3, <1>4 DEF UpdateType

(* What a put carries is an object: the other half of the invariant, which *)
(* the empty buckets of a node rest on.                                    *)
PutsCarryObjects ==
  \A i \in DOMAIN log : log[i].type = "put:key" => log[i].value \in Object

BInv == PutsCarryObjects /\ NoStrayBuckets

(* A node that applies update i to its database keeps clear of stray       *)
(* buckets.                                                                *)
LEMMA ApplyKeepsClear ==
  ASSUME IInv, BInv, NEW n \in Node, NEW i, NEW u \in Update,
         u.type = "put:key" => u.value \in Object,
         db' = [db EXCEPT ![n] = Apply(@, u)],
         seen' = [seen EXCEPT ![n] = @ \cup {i}],
         i \in DOMAIN log', log'[i] = u,
         \A j \in DOMAIN log : log'[j] = log[j]
  PROVE  NoStrayBuckets'
<1>1. TypeOK /\ Accounted
  BY DEF IInv
<1>2. ASSUME NEW m \in Node, NEW q \in Place, EmptyBucket(db'[m], q)
      PROVE  \E j \in seen'[m] : log'[j].type # "put:key" /\ Above(q, log'[j].path)
  <2>1. CASE EmptyBucket(db[m], q)
    <3>1. PICK j \in seen[m] : log[j].type # "put:key" /\ Above(q, log[j].path)
      BY <2>1 DEF BInv, NoStrayBuckets, EmptyBucket
    <3>2. j \in DOMAIN log
      <4>1. seen[m] \subseteq DOMAIN log
        <5>1. AccountedAt(m)
          BY <1>1, <1>2 DEF Accounted
        <5> QED
          BY <5>1 DEF AccountedAt
      <4> QED
        BY <3>1, <4>1
    <3>3. j \in seen'[m]
      BY <1>1 DEF TypeOK
    <3> QED
      BY <3>1, <3>2, <3>3
  <2>2. CASE ~ EmptyBucket(db[m], q)
    <3>1. m = n /\ db'[m] = Apply(db[n], u) /\ db[n] \in Tree /\ i \in seen'[m]
      BY <1>1, <1>2, <2>2 DEF TypeOK
    <3>2. u.type # "put:key" /\ Above(q, u.path)
      BY <1>2, <2>2, <3>1, EmptyAfter
    <3> QED
      BY <3>1, <3>2
  <2> QED
    BY <2>1, <2>2
<1> QED
  BY <1>2 DEF NoStrayBuckets, EmptyBucket

(* Every step keeps clear of stray buckets.                                *)
LEMMA NextBInv == IInv /\ BInv /\ [Next]_vars => BInv'
<1> SUFFICES ASSUME IInv, BInv, [Next]_vars PROVE BInv'
  OBVIOUS
<1>1. TypeOK /\ Accounted
  BY DEF IInv
<1>2. CASE UNCHANGED <<db, log, seen>>
  BY <1>2 DEF BInv, PutsCarryObjects, NoStrayBuckets
<1>3. ASSUME NEW n \in Node, NEW s \in Slot, Request(n, s) \/ Continue(n, s)
      PROVE  BInv'
  <2>1. CASE Committing(n, s)
    <3>1. PICK type \in UpdateType, p \in Path, o \in Object \cup {Absent},
               more \in BOOLEAN :
            /\ type = "put:key" => o \in Object
            /\ Commit(n, s, type, p, o, more)
      BY <2>1 DEF Committing
    <3> DEFINE u == [type |-> type, path |-> p, value |-> o]
               i == Len(log) + 1
    <3>2. u \in Update /\ (u.type = "put:key" => u.value \in Object)
      BY <3>1 DEF Update
    <3>3. /\ db' = [db EXCEPT ![n] = Apply(@, u)]
          /\ seen' = [seen EXCEPT ![n] = @ \cup {i}]
          /\ log' = Append(log, u)
      BY <3>1 DEF Commit
    <3> HIDE DEF u
    <3>4. /\ DOMAIN log' = DOMAIN log \cup {i}
          /\ log'[i] = u
          /\ \A j \in DOMAIN log : log'[j] = log[j]
      BY <1>1, <3>2, <3>3 DEF TypeOK
    <3> HIDE DEF i
    <3>5. NoStrayBuckets'
      BY <3>2, <3>3, <3>4, ApplyKeepsClear
    <3>6. PutsCarryObjects'
      BY <3>2, <3>4 DEF BInv, PutsCarryObjects
    <3> QED
      BY <3>5, <3>6 DEF BInv
  <2>2. CASE Emit(n, s)
    BY <2>2, <1>2 DEF Emit
  <2>3. CASE UNCHANGED <<db, log, seen, missed, raced>>
    BY <2>3, <1>2
  <2> QED
    BY <1>3, <2>1, <2>2, <2>3, GoroutineSteps
<1>4. ASSUME NEW n \in Node, HandleUpdate(n) PROVE BInv'
  <2> DEFINE i == Head(updates[n])
  <2>1. /\ updates[n] # <<>>
        /\ db' = [db EXCEPT ![n] = Apply(@, log[i])]
        /\ seen' = [seen EXCEPT ![n] = @ \cup {i}]
        /\ log' = log
    BY <1>4 DEF HandleUpdate
  <2>2. i \in Queued(n)
    BY <1>1, <2>1, QueuedTail DEF TypeOK, Accounted, AccountedAt, Queued
  <2> HIDE DEF i
  <2>3. i \in DOMAIN log
    BY <1>1, <2>2 DEF Accounted, AccountedAt
  <2>4. log[i] \in Update /\ (log[i].type = "put:key" => log[i].value \in Object)
    BY <1>1, <2>3 DEF TypeOK, BInv, PutsCarryObjects
  <2>5. NoStrayBuckets'
    BY <2>1, <2>3, <2>4, ApplyKeepsClear
  <2>6. PutsCarryObjects'
    BY <2>1 DEF BInv, PutsCarryObjects
  <2> QED
    BY <2>5, <2>6 DEF BInv
<1>5. ASSUME NEW n \in Node, NEW i \in 1..MaxOps,
             Receive(n, i) \/ SendFails(n, i)
      PROVE  BInv'
  BY <1>5, <1>2 DEF Receive, SendFails
<1>6. ASSUME NEW n \in Node, Discover(n) PROVE BInv'
  BY <1>6, <1>2 DEF Discover
<1> QED
  BY <1>2, <1>3, <1>4, <1>5, <1>6 DEF Next, vars

-----------------------------------------------------------------------------
(* The strengthened invariant holds in every reachable state.              *)
THEOREM Invariance == Spec => []IInv
<1>1. Init => IInv
  BY InitIInv
<1>2. IInv /\ [Next]_vars => IInv'
  BY NextIInv
<1> QED
  BY <1>1, <1>2, PTL DEF Spec

(* The channel app.updates never holds more than its capacity, a node      *)
(* never sends to itself, and a lock never gets a name already in use.     *)
THEOREM TypeCorrect == Spec => []TypeOK
<1>1. IInv => TypeOK
  BY DEF IInv
<1> QED
  BY <1>1, Invariance, PTL

(* A node's tree is a well-formed one, as bbolt makes it: what the walks   *)
(* of the readers rest on.                                                 *)
LEMMA AlwaysWellFormed == Spec => []TreesWellFormed
<1>1. IInv => TreesWellFormed
  BY DEF IInv
<1> QED
  BY <1>1, Invariance, PTL

(* However puts, deletes and bucket deletions of clients and peers         *)
(* interleave and fail, no bucket is left empty but by a delete of what    *)
(* was in it: the buckets of a put do not outlive its failure (kv.go,      *)
(* getBuckets and PutObject).                                              *)
THEOREM NoBucketIsLeftBehind == Spec => []NoStrayBuckets
<1>1. Init => BInv
  BY BucketIsNoValue DEF Init, BInv, PutsCarryObjects, NoStrayBuckets, EmptyTree
<1>2. IInv /\ BInv /\ [Next]_vars => BInv'
  BY NextBInv
<1>3. BInv => NoStrayBuckets
  BY DEF BInv
<1> QED
  BY <1>1, <1>2, <1>3, Invariance, PTL DEF Spec

(* A committed update is at all times in exactly one place on its way to   *)
(* each node: none is lost without a failed send or an incomplete list of  *)
(* peers, and none is handled twice (cluster.go, Emit; kv.go, start).      *)
THEOREM AlwaysAccounted == Spec => []Accounted
<1>1. IInv => Accounted
  BY DEF IInv
<1> QED
  BY <1>1, Invariance, PTL

=============================================================================
