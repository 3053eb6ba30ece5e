------------------------------- MODULE Listing -------------------------------
(***************************************************************************)
(* How clients read the KV store: GetObject, GetKeys and GetTree of kv.go, *)
(* each in one read transaction, and kvGetHandler of api.go.  A listing is *)
(* a set of names, those of buckets marked with a slash; the JSON tree is  *)
(* the set of what it shows, <<place, what is stored there>>.              *)
(***************************************************************************)
EXTENDS CaveKV

CONSTANT NoData  (* the data of an object put with an empty body           *)

Parent(p) == SubSeq(p, 1, Len(p) - 1)

(* The buckets that can be listed: "kv" itself and those inside it.        *)
Directory == {<<>>} \cup Place

IsBucket(t, d) == d = <<>> \/ (BucketsExist(t, d) /\ t[d] = Bucket)

(* What the cursor over the bucket d comes upon.                           *)
Inside(t, d) == {p \in Place : Parent(p) = d /\ t[p] # Absent}

(* GetKeys, for the path of a bucket with a slash at its end or without;   *)
(* without one, and without the bucket, it uses a bucket that is nil.      *)
GetKeys(t, p) ==
  LET d == IF p[Len(p)] = Empty THEN Parent(p) ELSE p
  IN IF IsBucket(t, d)
     THEN [result |-> "ok",
           keys |-> {[name |-> q[Len(q)], slash |-> t[q] = Bucket] :
                       q \in Inside(t, d)}]
     ELSE [result |-> IF IsBucket(t, Parent(p)) THEN "panic" ELSE "error",
           keys |-> {}]

(* A tree of the keys and buckets of "kv" alone.                           *)
GetTreeOfRoot(t) == {<<p, t[p]>> : p \in Inside(t, <<>>)}

(* GetTree lists "kv", and enumerateBucket each bucket inside a bucket.    *)
GetTree(t) ==
  LET enumerateBucket[d \in Directory] ==
        {<<p, t[p]>> : p \in Inside(t, d)}
          \cup UNION {enumerateBucket[p] : p \in {q \in Inside(t, d) : t[q] = Bucket}}
  IN enumerateBucket[<<>>]

(* GET of a key, whatever its object holds.                                *)
kvGetHandlerOfAny(t, p) ==
  LET k == IF p[Len(p)] = Empty THEN GetKeys(t, p) ELSE [result |-> "ok", keys |-> {}]
  IN [status |-> CASE k.result # "ok" -> 500
                   [] p[Len(p)] = Empty /\ k.keys = {} -> 404
                   [] p[Len(p)] # Empty /\ Get(t, p) = Absent -> 500
                   [] OTHER -> 200,
      keys |-> k.keys]

(* GET /api/v1/kv/...: a directory that is empty is not found, a key or a  *)
(* bucket that is missing is an error, an object without data is not found.*)
kvGetHandler(t, p) ==
  IF p[Len(p)] = Empty
  THEN LET k == GetKeys(t, p) IN
         [status |-> CASE k.result # "ok" -> 500
                       [] k.result = "ok" /\ k.keys = {} -> 404
                       [] OTHER -> 200,
          keys |-> k.keys]
  ELSE LET o == Get(t, p) IN
         [status |-> CASE o = Absent -> 500
                       [] o # Absent /\ o.data = NoData -> 404
                       [] OTHER -> 200,
          keys |-> {}]

-----------------------------------------------------------------------------
(* What a client finds that asks for a directory and then for each of the  *)
(* directories in the answer.                                              *)
Crawl(t) ==
  LET crawl[d \in Directory] ==
        LET listed == kvGetHandler(t, Append(d, Empty)).keys
            named(k) == Append(d, k.name)
        IN {named(k) : k \in {j \in listed : ~ j.slash}}
             \cup UNION {crawl[named(k)] : k \in {j \in listed : j.slash}}
  IN crawl[<<>>]

(* Reading by key, listing directory by directory and reading the tree are *)
(* three ways to the same content: at every node and at any time a client  *)
(* that lists finds exactly the keys that hold an object, the tree shows   *)
(* these keys with the objects GetObject returns, and nothing is stored    *)
(* that none of them reaches, below a bucket that a put, a bucket deletion *)
(* or an update of a peer took away or never made.  GET alone tells an     *)
(* object without data from the others: it answers that the key does not   *)
(* exist (kv.go, GetKeys, GetTree and GetObject; api.go, kvGetHandler).    *)
ReadersAgree ==
  \A n \in Node :
    LET t == db[n]
        stored == {p \in Place : t[p] \notin {Absent, Bucket}}
    IN /\ \A p \in Place :
            kvGetHandler(t, p).status =
              IF p \notin stored THEN 500 ELSE IF t[p].data = NoData THEN 404 ELSE 200
       /\ Crawl(t) = stored
       /\ {e \in GetTree(t) : e[2] # Bucket} = {<<p, Get(t, p)>> : p \in stored}

=============================================================================
