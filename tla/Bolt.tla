-------------------------------- MODULE Bolt --------------------------------
(***************************************************************************)
(* The bucket "kv" of a node's bbolt database, and what the transactions   *)
(* of kv.go do to it.  bbolt keeps nested buckets: a name inside a bucket  *)
(* is either a key with a value or a bucket of its own.  A tree is a total *)
(* function from places (the paths a name can have inside "kv") to what is *)
(* stored there.                                                           *)
(***************************************************************************)
EXTENDS Naturals, Sequences

CONSTANTS
  Name,      (* the names a path is made of                                *)
  Empty,     (* the empty name: what "a/" has after its slash              *)
  MaxDepth,  (* bound on the number of names in a path                     *)
  Data,      (* the values clients store                                   *)
  LockId,    (* the identifiers of locks                                   *)
  Absent,    (* nothing is stored at a place                               *)
  Bucket     (* a bucket is stored at a place                              *)

(* KVObject: its data and the identifiers of the locks claimed on it.      *)
Object == [data : Data, locks : SUBSET LockId]

ASSUME BoltAssumption ==
  /\ MaxDepth \in Nat \ {0}
  /\ Empty \notin Name
  /\ Absent # Bucket
  /\ {Absent, Bucket} \cap Object = {}

(* What strings.Split(path, "/") returns for the path of a request; the    *)
(* last element is the key and the ones before it name the buckets.        *)
Path == UNION {[1..n -> Name \cup {Empty}] : n \in 1..MaxDepth}

Place == UNION {[1..n -> Name] : n \in 1..MaxDepth}

Tree == [Place -> Object \cup {Absent, Bucket}]

EmptyTree == [p \in Place |-> Absent]

(* q names a bucket on the way to p.                                       *)
Above(q, p) == Len(q) < Len(p) /\ \A i \in 1..Len(q) : q[i] = p[i]

Related(p, q) == p = q \/ Above(p, q) \/ Above(q, p)

IsDirectory(p) == Len(p) > 1 /\ p[Len(p)] = Empty

-----------------------------------------------------------------------------
(* getBuckets with create = false, and the bbolt lookup of the key.        *)
BucketsExist(t, p) ==
  p \in Place /\ \A q \in Place : Above(q, p) => t[q] = Bucket

Get(t, p) ==
  IF BucketsExist(t, p) /\ t[p] # Bucket THEN t[p] ELSE Absent

(* getBuckets with create = true fails on a name that holds a key, Put on  *)
(* a name that holds a bucket, both on an empty name; the transaction is   *)
(* then rolled back.                                                       *)
CanPut(t, p) ==
  /\ p \in Place
  /\ t[p] # Bucket
  /\ \A q \in Place : Above(q, p) => t[q] \in {Absent, Bucket}

(* A put whose buckets are made in a transaction of their own, and stay    *)
(* when what comes after them fails.                                       *)
PutLeavingBuckets(t, p, o) ==
  LET made(q) == /\ Above(q, p)
                 /\ \A r \in Place : (r = q \/ Above(r, q)) => t[r] \in {Absent, Bucket}
  IN [q \in Place |-> CASE q = p /\ CanPut(t, p) -> o
                        [] made(q)              -> Bucket
                        [] OTHER                -> t[q]]

Put(t, p, o) ==
  IF CanPut(t, p)
  THEN [q \in Place |-> CASE q = p       -> o
                          [] Above(q, p) -> Bucket
                          [] OTHER       -> t[q]]
  ELSE t

Delete(t, p) ==
  IF BucketsExist(t, p) /\ t[p] # Bucket THEN [t EXCEPT ![p] = Absent] ELSE t

(* A bucket deletion that leaves what the bucket holds behind.             *)
DeleteBucketShallow(t, p) ==
  IF BucketsExist(t, p) /\ t[p] = Bucket THEN [t EXCEPT ![p] = Absent] ELSE t

DeleteBucket(t, p) ==
  IF BucketsExist(t, p) /\ t[p] = Bucket
  THEN [q \in Place |-> IF q = p \/ Above(p, q) THEN Absent ELSE t[q]]
  ELSE t

-----------------------------------------------------------------------------
(* KVUpdate; a delete carries the zero KVObject, which no one reads.       *)
UpdateType == {"put:key", "delete:key", "delete:bucket"}

Update == [type : UpdateType, path : Path, value : Object \cup {Absent}]

(* The transaction an update stands for, at its origin and at a peer.      *)
Apply(t, u) ==
  CASE u.type = "put:key"       -> Put(t, u.path, u.value)
    [] u.type = "delete:key"    -> Delete(t, u.path)
    [] u.type = "delete:bucket" -> DeleteBucket(t, u.path)

(* Whatever is stored lies in buckets that exist: an entry below a missing *)
(* bucket, or below a key, could never be read or deleted again.           *)
WellFormed(t) ==
  \A p, q \in Place : Above(q, p) /\ t[p] # Absent => t[q] = Bucket

=============================================================================
