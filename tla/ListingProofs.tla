---------------------------- MODULE ListingProofs ----------------------------
(***************************************************************************)
(* That the three ways to read the KV store agree, in trees of any depth.  *)
(* GetTree and a client that crawls walk the buckets by recursion.  That a *)
(* function is what such a walk computes is shown in two steps: it solves  *)
(* the equation of the walk, so that there is a solution, and no two       *)
(* functions solve it, because they would differ at a deepest directory.   *)
(***************************************************************************)
EXTENDS Listing, CaveKVProofs, WellFoundedInduction

(* Every set of natural numbers that is not empty has a least element.     *)
LEMMA LeastOf ==
  ASSUME NEW S \in SUBSET Nat, S # {}
  PROVE  \E m \in S : \A k \in S : m <= k
<1> DEFINE R == {ss \in Nat \X Nat : ss[1] < ss[2]}
<1>1. IsWellFoundedOn(R, Nat)
  BY NatLessThanWellFounded DEF OpToRel
<1>2. \A x, y \in Nat : <<y, x>> \in R <=> y < x
  OBVIOUS
<1> HIDE DEF R
<1>3. PICK m \in S : \A k \in S : ~ (<<k, m>> \in R)
  BY <1>1, WFMin
<1>4. ASSUME NEW k \in S PROVE m <= k
  <2>1. ~ (k < m)
    BY <1>2, <1>3
  <2> QED
    BY <2>1
<1> QED
  BY <1>4

-----------------------------------------------------------------------------
(* Directories, and what is directly inside one.                           *)

LEMMA DirectoryLen ==
  ASSUME NEW d \in Directory
  PROVE  d \in Seq(Name) /\ Len(d) \in 0..MaxDepth
<1>1. CASE d = <<>>
  BY <1>1, BoltAssumption
<1>2. CASE d \in Place
  BY <1>2, PlaceLen, PathLen
<1> QED
  BY <1>1, <1>2 DEF Directory

(* A sequence of names that is not too long is a place.                    *)
LEMMA ShortIsPlace ==
  ASSUME NEW p \in Seq(Name), Len(p) \in 1..MaxDepth
  PROVE  p \in Place
  BY DEF Place

(* What is directly inside d is d and one more name.                       *)
LEMMA ChildIsNext ==
  ASSUME NEW d \in Directory, NEW p \in Place, Parent(p) = d
  PROVE  /\ Len(p) = Len(d) + 1 /\ p = Append(d, p[Len(p)])
         /\ Above(d, p)
<1>1. p \in Seq(Name) /\ Len(p) \in 1..MaxDepth /\ MaxDepth \in Nat
  BY PlaceLen, PathLen, BoltAssumption
<1>2. /\ Len(d) = Len(p) - 1
      /\ \A i \in 1..(Len(p) - 1) : d[i] = p[i]
  <2>1. PICK k \in Nat : k = Len(p) - 1
    BY <1>1
  <2>2. \A i \in 1..k : p[i] \in Name
    BY <1>1, <2>1
  <2>3. /\ Len(SubSeq(p, 1, k)) = k
        /\ \A i \in 1..k : SubSeq(p, 1, k)[i] = p[i]
    BY <2>2, SubSeqProperties
  <2> QED
    BY <2>1, <2>3 DEF Parent
<1>3. Above(d, p)
  BY <1>1, <1>2 DEF Above
<1>4. p = Append(d, p[Len(p)])
  <2> DEFINE e == p[Len(p)]
  <2>1. d \in Seq(Name) /\ e \in Name
    BY <1>1, DirectoryLen
  <2>2. /\ Append(d, e) \in Seq(Name) /\ Len(Append(d, e)) = Len(d) + 1
        /\ \A i \in 1..Len(d) : Append(d, e)[i] = d[i]
        /\ Append(d, e)[Len(d) + 1] = e
    BY <2>1, AppendProperties
  <2>3. \A i \in 1..Len(p) : p[i] = Append(d, e)[i]
    BY <1>1, <1>2, <2>2
  <2>4. Len(p) = Len(Append(d, e))
    BY <1>1, <1>2, <2>2
  <2> HIDE DEF e
  <2> QED
    BY <1>1, <2>2, <2>3, <2>4, SeqEqual
<1> QED
  BY <1>1, <1>2, <1>3, <1>4

(* The place on the way from d to p that is directly inside d.             *)
LEMMA StepDown ==
  ASSUME NEW d \in Directory, NEW p \in Place, Above(d, p), Parent(p) # d
  PROVE  \E q \in Place : Parent(q) = d /\ Above(q, p)
<1> DEFINE q == SubSeq(p, 1, Len(d) + 1)
<1>1. /\ p \in Seq(Name) /\ Len(p) \in 1..MaxDepth /\ MaxDepth \in Nat
      /\ d \in Seq(Name) /\ Len(d) \in Nat
  BY PlaceLen, PathLen, DirectoryLen, BoltAssumption
<1>2. Len(d) < Len(p) /\ \A i \in 1..Len(d) : d[i] = p[i]
  BY DEF Above
<1>3. /\ q \in Seq(Name) /\ Len(q) = Len(d) + 1
      /\ \A i \in 1..(Len(d) + 1) : q[i] = p[i]
  <2>1. \A i \in 1..(Len(d) + 1) : p[i] \in Name
    BY <1>1, <1>2
  <2> QED
    BY <1>1, <2>1, SubSeqProperties
<1> HIDE DEF q
<1>4. ASSUME NEW x \in Seq(Name), Len(x) = Len(d) + 1,
             \A i \in 1..(Len(d) + 1) : x[i] = p[i]
      PROVE  Parent(x) = d
  <2>1. \A i \in 1..Len(d) : x[i] \in Name
    BY <1>1, <1>4
  <2>2. /\ SubSeq(x, 1, Len(d)) \in Seq(Name)
        /\ Len(SubSeq(x, 1, Len(d))) = Len(d)
        /\ \A i \in 1..Len(d) : SubSeq(x, 1, Len(d))[i] = x[i]
    BY <1>1, <2>1, SubSeqProperties
  <2>3. \A i \in 1..Len(d) : SubSeq(x, 1, Len(d))[i] = d[i]
    BY <1>1, <1>2, <1>4, <2>2
  <2>4. SubSeq(x, 1, Len(d)) = d
    BY <1>1, <2>2, <2>3, SeqEqual
  <2>5. Len(x) - 1 = Len(d)
    BY <1>1, <1>4
  <2> QED
    BY <2>4, <2>5 DEF Parent
<1>5. Parent(q) = d
  BY <1>3, <1>4
<1>6. Len(p) # Len(d) + 1
  BY <1>1, <1>2, <1>4
<1>7. q \in Place
  BY <1>1, <1>2, <1>3, ShortIsPlace
<1>8. Above(q, p)
  BY <1>1, <1>2, <1>3, <1>6 DEF Above
<1> QED
  BY <1>5, <1>7, <1>8

-----------------------------------------------------------------------------
(* The walk: each directory shows something of its own, and what the       *)
(* buckets inside it show.                                                 *)
Buckets(t, d) == {q \in Inside(t, d) : t[q] = Bucket}

(* What is stored below d, however deep.                                   *)
Below(t, d) == {p \in Place : Above(d, p) /\ t[p] # Absent}

(* In a well-formed tree what is below d is inside d or below a bucket     *)
(* inside d.                                                               *)
LEMMA BelowSplits ==
  ASSUME NEW t \in Tree, WellFormed(t), NEW d \in Directory
  PROVE  Below(t, d) = Inside(t, d) \cup UNION {Below(t, q) : q \in Buckets(t, d)}
<1>1. ASSUME NEW p \in Inside(t, d)
      PROVE  p \in Below(t, d)
  BY <1>1, ChildIsNext DEF Inside, Below
<1>2. ASSUME NEW q \in Buckets(t, d), NEW p \in Below(t, q)
      PROVE  p \in Below(t, d)
  <2>1. /\ q \in Place /\ Above(d, q)
        /\ p \in Place /\ Above(q, p) /\ t[p] # Absent
    BY <1>1, <1>2 DEF Buckets, Inside, Below
  <2>2. Len(d) \in Nat /\ Len(q) \in Nat /\ Len(p) \in Nat
    BY <2>1, PlaceLen, DirectoryLen, BoltAssumption
  <2>3. Above(d, p)
    BY <2>1, <2>2 DEF Above
  <2> QED
    BY <2>1, <2>3 DEF Below
<1>3. ASSUME NEW p \in Below(t, d), p \notin Inside(t, d)
      PROVE  \E q \in Buckets(t, d) : p \in Below(t, q)
  <2>1. p \in Place /\ Above(d, p) /\ t[p] # Absent /\ Parent(p) # d
    BY <1>3 DEF Below, Inside
  <2>2. PICK q \in Place : Parent(q) = d /\ Above(q, p)
    BY <2>1, StepDown
  <2>3. t[q] = Bucket /\ Bucket # Absent
    BY <2>1, <2>2, BoltAssumption DEF WellFormed
  <2> QED
    BY <2>1, <2>2, <2>3 DEF Buckets, Inside, Below
<1> QED
  BY <1>1, <1>2, <1>3

(* Functions that agree on a set have the same images there.               *)
LEMMA SameImages ==
  ASSUME NEW S, NEW f, NEW g, \A q \in S : f[q] = g[q]
  PROVE  {f[q] : q \in S} = {g[q] : q \in S}
  OBVIOUS

(* Two functions that solve the equation of a walk are equal: where they   *)
(* differ, they differ at a bucket inside, and there is a deepest place.   *)
LEMMA WalkUnique ==
  ASSUME NEW t \in Tree, NEW own, NEW f, NEW g,
         f = [d \in Directory |-> own[d] \cup UNION {f[q] : q \in Buckets(t, d)}],
         g = [d \in Directory |-> own[d] \cup UNION {g[q] : q \in Buckets(t, d)}]
  PROVE  f = g
<1> DEFINE Differ == {d \in Directory : f[d] # g[d]}
           height(d) == MaxDepth - Len(d)
<1>1. ASSUME Differ # {} PROVE FALSE
  <2> DEFINE Heights == {k \in Nat : \E d \in Differ : k = height(d)}
  <2>1. \A d \in Differ : height(d) \in Nat
    BY DirectoryLen, BoltAssumption
  <2>2. \A d \in Differ : d \in Directory /\ f[d] # g[d]
    OBVIOUS
  <2> HIDE DEF Differ, height
  <2>3. Heights \in SUBSET Nat /\ Heights # {}
    BY <1>1, <2>1
  <2>4. \E m \in Heights : \A k \in Heights : m <= k
    <3> HIDE DEF Heights
    <3> QED
      BY <2>3, LeastOf
  <2>5. PICK d \in Differ : \A e \in Differ : height(d) <= height(e)
    BY <2>1, <2>4
  <2>6. ASSUME NEW q \in Buckets(t, d) PROVE f[q] = g[q]
    <3>1. q \in Place /\ q \in Directory /\ Len(q) = Len(d) + 1
      BY <2>2, <2>6, ChildIsNext DEF Buckets, Inside, Directory
    <3>2. Len(q) \in Nat /\ Len(d) \in Nat /\ MaxDepth \in Nat
      BY <2>2, <3>1, DirectoryLen, BoltAssumption
    <3>3. ~ (height(d) <= height(q))
      BY <3>1, <3>2 DEF height
    <3> QED
      BY <2>5, <3>1, <3>3 DEF Differ
  <2>7. {f[q] : q \in Buckets(t, d)} = {g[q] : q \in Buckets(t, d)}
    BY <2>6, SameImages
  <2>8. f[d] = own[d] \cup UNION {f[q] : q \in Buckets(t, d)}
    BY <2>2
  <2>9. g[d] = own[d] \cup UNION {g[q] : q \in Buckets(t, d)}
    BY <2>2
  <2> QED
    BY <2>2, <2>7, <2>8, <2>9
<1> QED
  BY <1>1

(* A walk f that takes v[p] from each p inside a directory that is in K.   *)
Walks(t, v, K, f) ==
  f = [d \in Directory |-> {v[p] : p \in Inside(t, d) \cap K}
                             \cup UNION {f[q] : q \in Buckets(t, d)}]

(* What such a walk shows...                                               *)
Shown(t, v, K) == [d \in Directory |-> {v[p] : p \in Below(t, d) \cap K}]

(* ... solves its equation.                                                *)
LEMMA ShownSolves ==
  ASSUME NEW t \in Tree, WellFormed(t), NEW v, NEW K
  PROVE  Walks(t, v, K, Shown(t, v, K))
<1> SUFFICES ASSUME NEW d \in Directory
             PROVE  {v[p] : p \in Below(t, d) \cap K} =
                      {v[p] : p \in Inside(t, d) \cap K}
                        \cup UNION {Shown(t, v, K)[q] : q \in Buckets(t, d)}
  BY DEF Shown, Walks
<1>1. {Shown(t, v, K)[q] : q \in Buckets(t, d)}
        = {{v[p] : p \in Below(t, q) \cap K} : q \in Buckets(t, d)}
  BY DEF Shown, Buckets, Inside, Directory
<1>2. Below(t, d) = Inside(t, d) \cup UNION {Below(t, q) : q \in Buckets(t, d)}
  BY BelowSplits
<1>3. UNION {{v[p] : p \in Below(t, q) \cap K} : q \in Buckets(t, d)}
        = {v[p] : p \in (UNION {Below(t, q) : q \in Buckets(t, d)}) \cap K}
  OBVIOUS
<1>4. {v[p] : p \in Below(t, d) \cap K} =
        {v[p] : p \in Inside(t, d) \cap K}
          \cup {v[p] : p \in (UNION {Below(t, q) : q \in Buckets(t, d)}) \cap K}
  BY <1>2
<1> QED
  BY <1>1, <1>3, <1>4

(* So from "kv" a walk shows what is stored, in K, anywhere in the tree.   *)
LEMMA WalkShowsAll ==
  ASSUME NEW t \in Tree, WellFormed(t), NEW v, NEW K, NEW f, Walks(t, v, K, f)
  PROVE  f[<<>>] = {v[p] : p \in {q \in Place : t[q] # Absent} \cap K}
<1> DEFINE own == [d \in Directory |-> {v[p] : p \in Inside(t, d) \cap K}]
           g == Shown(t, v, K)
<1>1. g = [d \in Directory |-> own[d] \cup UNION {g[q] : q \in Buckets(t, d)}]
  BY ShownSolves DEF Walks
<1>2. f = [d \in Directory |-> own[d] \cup UNION {f[q] : q \in Buckets(t, d)}]
  BY DEF Walks
<1> HIDE DEF own, g
<1>3. f = g
  BY <1>1, <1>2, WalkUnique
<1>4. <<>> \in Directory
  BY DEF Directory
<1>5. Below(t, <<>>) = {q \in Place : t[q] # Absent}
  <2>1. \A q \in Place : Above(<<>>, q)
    BY PathLen, BoltAssumption DEF Above
  <2> QED
    BY <2>1 DEF Below
<1> QED
  BY <1>3, <1>4, <1>5 DEF g, Shown

-----------------------------------------------------------------------------
(* The three readers.                                                      *)

(* A directory that holds anything exists, so that a client is shown what  *)
(* is inside, and a missing one holds nothing.                             *)
LEMMA HandlerLists ==
  ASSUME NEW t \in Tree, WellFormed(t), NEW d \in Directory
  PROVE  kvGetHandler(t, Append(d, Empty)).keys =
           {[name |-> q[Len(q)], slash |-> t[q] = Bucket] : q \in Inside(t, d)}
<1> DEFINE p == Append(d, Empty)
<1>1. p[Len(p)] = Empty /\ Parent(p) = d
  <2>1. d \in Seq(Name \cup {Empty}) /\ Len(d) \in Nat
    BY DirectoryLen
  <2>2. /\ p \in Seq(Name \cup {Empty}) /\ Len(p) = Len(d) + 1
        /\ \A i \in 1..Len(d) : p[i] = d[i]
        /\ p[Len(d) + 1] = Empty
    BY <2>1, AppendProperties
  <2> HIDE DEF p
  <2>3. \A i \in 1..Len(d) : p[i] \in Name \cup {Empty}
    BY <2>1, <2>2
  <2>4. /\ SubSeq(p, 1, Len(d)) \in Seq(Name \cup {Empty})
        /\ Len(SubSeq(p, 1, Len(d))) = Len(d)
        /\ \A i \in 1..Len(d) : SubSeq(p, 1, Len(d))[i] = d[i]
    BY <2>1, <2>2, <2>3, SubSeqProperties
  <2>5. SubSeq(p, 1, Len(d)) = d
    BY <2>1, <2>4, SeqEqual
  <2>6. Len(p) - 1 = Len(d)
    BY <2>1, <2>2
  <2> QED
    BY <2>2, <2>5, <2>6 DEF Parent
<1> HIDE DEF p
<1>2. kvGetHandler(t, p).keys = GetKeys(t, p).keys
  BY <1>1 DEF kvGetHandler
<1>3. CASE IsBucket(t, d)
  BY <1>1, <1>2, <1>3 DEF GetKeys, p
<1>4. CASE ~ IsBucket(t, d)
  <2>1. GetKeys(t, p).keys = {}
    BY <1>1, <1>4 DEF GetKeys
  <2>2. ASSUME NEW q \in Inside(t, d) PROVE FALSE
    <3>1. q \in Place /\ Parent(q) = d /\ t[q] # Absent
      BY <2>2 DEF Inside
    <3>2. Above(d, q) /\ d \in Place
      BY <1>4, <3>1, ChildIsNext DEF IsBucket, Directory
    <3>3. t[d] = Bucket
      BY <3>1, <3>2 DEF WellFormed
    <3>4. BucketsExist(t, d)
      BY <3>2, <3>3, BoltAssumption DEF WellFormed, BucketsExist
    <3> QED
      BY <1>4, <3>3, <3>4 DEF IsBucket
  <2> QED
    BY <1>2, <2>1, <2>2 DEF p
<1> QED
  BY <1>3, <1>4

(* A read by key finds an object where one is stored, and GET answers with *)
(* what is in it if there is anything.                                     *)
LEMMA HandlerReads ==
  ASSUME NEW t \in Tree, WellFormed(t), NEW p \in Place
  PROVE  /\ kvGetHandler(t, p).status =
              IF t[p] \in {Absent, Bucket} THEN 500
              ELSE IF t[p].data = NoData THEN 404 ELSE 200
         /\ t[p] \notin {Absent, Bucket} => Get(t, p) = t[p]
<1>1. p[Len(p)] # Empty
  BY PlaceLen, PathLen, BoltAssumption
<1>2. t[p] # Absent => BucketsExist(t, p)
  BY DEF WellFormed, BucketsExist
<1>3. kvGetHandler(t, p).status = IF Get(t, p) = Absent THEN 500
                                  ELSE IF Get(t, p).data = NoData THEN 404 ELSE 200
  BY <1>1 DEF kvGetHandler
<1> QED
  BY <1>2, <1>3 DEF Get

(* The tree shows every bucket and every value.                            *)
LEMMA TreeShowsAll ==
  ASSUME NEW t \in Tree, WellFormed(t)
  PROVE  GetTree(t) = {<<p, t[p]>> : p \in {q \in Place : t[q] # Absent}}
<1> DEFINE v == [p \in Place |-> <<p, t[p]>>]
           Enumerates(f) ==
             f = [d \in Directory |->
                    {<<p, t[p]>> : p \in Inside(t, d)}
                      \cup UNION {f[p] : p \in {q \in Inside(t, d) : t[q] = Bucket}}]
           enumerate == CHOOSE f : Enumerates(f)
<1>1. GetTree(t) = enumerate[<<>>]
  BY DEF GetTree
<1>2. ASSUME NEW d \in Directory
      PROVE  {<<p, t[p]>> : p \in Inside(t, d)} = {v[p] : p \in Inside(t, d) \cap Place}
  BY DEF Inside
<1>3. ASSUME NEW f
      PROVE  Enumerates(f) <=> Walks(t, v, Place, f)
  <2>1. [d \in Directory |-> {<<p, t[p]>> : p \in Inside(t, d)}
                               \cup UNION {f[p] : p \in {q \in Inside(t, d) : t[q] = Bucket}}]
         = [d \in Directory |-> {v[p] : p \in Inside(t, d) \cap Place}
                                  \cup UNION {f[q] : q \in Buckets(t, d)}]
    <3> HIDE DEF v
    <3> QED
      BY <1>2 DEF Buckets
  <2> QED
    BY <2>1 DEF Walks
<1> HIDE DEF v, Enumerates
<1>4. Enumerates(Shown(t, v, Place))
  BY <1>3, ShownSolves
<1>5. Enumerates(enumerate)
  BY <1>4
<1> HIDE DEF enumerate
<1>6. enumerate[<<>>] = {v[p] : p \in {q \in Place : t[q] # Absent} \cap Place}
  <2>1. Walks(t, v, Place, enumerate)
    BY <1>3, <1>5
  <2> QED
    BY <2>1, WalkShowsAll
<1>7. {v[p] : p \in {q \in Place : t[q] # Absent} \cap Place}
        = {<<p, t[p]>> : p \in {q \in Place : t[q] # Absent}}
  BY DEF v
<1> QED
  BY <1>1, <1>6, <1>7

(* A client that lists directory by directory finds every value.           *)
LEMMA CrawlFindsAll ==
  ASSUME NEW t \in Tree, WellFormed(t)
  PROVE  Crawl(t) = {p \in Place : t[p] \notin {Absent, Bucket}}
<1> DEFINE v == [p \in Place |-> p]
           K == {p \in Place : t[p] # Bucket}
           listed(d) == kvGetHandler(t, Append(d, Empty)).keys
           named(d, k) == Append(d, k.name)
           Crawls(f) ==
             f = [d \in Directory |->
                    {named(d, k) : k \in {j \in listed(d) : ~ j.slash}}
                      \cup UNION {f[named(d, k)] : k \in {j \in listed(d) : j.slash}}]
           crawl == CHOOSE f : Crawls(f)
           row(q) == [name |-> q[Len(q)], slash |-> t[q] = Bucket]
<1>1. Crawl(t) = crawl[<<>>]
  BY DEF Crawl
<1>2. ASSUME NEW d \in Directory
      PROVE  /\ listed(d) = {row(q) : q \in Inside(t, d)}
             /\ \A q \in Inside(t, d) :
                  /\ q \in Place /\ v[q] = q
                  /\ named(d, row(q)) = q
                  /\ row(q).slash <=> q \in Buckets(t, d)
                  /\ row(q).slash <=> q \notin K
  <2>1. listed(d) = {row(q) : q \in Inside(t, d)}
    BY HandlerLists
  <2>2. ASSUME NEW q \in Inside(t, d)
        PROVE  q \in Place /\ v[q] = q /\ named(d, row(q)) = q
    BY <2>2, ChildIsNext DEF Inside
  <2> QED
    BY <2>1, <2>2 DEF Buckets
<1> HIDE DEF v, K, listed, named, row
<1>3. ASSUME NEW d \in Directory, NEW f
      PROVE  {named(d, k) : k \in {j \in listed(d) : ~ j.slash}}
               \cup UNION {f[named(d, k)] : k \in {j \in listed(d) : j.slash}}
             = {v[p] : p \in Inside(t, d) \cap K}
                 \cup UNION {f[q] : q \in Buckets(t, d)}
  <2>1. {named(d, k) : k \in {j \in listed(d) : ~ j.slash}}
          = {v[p] : p \in Inside(t, d) \cap K}
    BY <1>2
  <2>2. {f[named(d, k)] : k \in {j \in listed(d) : j.slash}}
          = {f[q] : q \in Buckets(t, d)}
    BY <1>2 DEF Buckets
  <2> QED
    BY <2>1, <2>2
<1>4. ASSUME NEW f
      PROVE  Crawls(f) <=> Walks(t, v, K, f)
  <2> DEFINE found(d) ==
               {named(d, k) : k \in {j \in listed(d) : ~ j.slash}}
                 \cup UNION {f[named(d, k)] : k \in {j \in listed(d) : j.slash}}
             shown(d) == {v[p] : p \in Inside(t, d) \cap K}
                           \cup UNION {f[q] : q \in Buckets(t, d)}
  <2>1. \A d \in Directory : found(d) = shown(d)
    BY <1>3
  <2>2. Crawls(f) <=> f = [d \in Directory |-> found(d)]
    OBVIOUS
  <2>3. Walks(t, v, K, f) <=> f = [d \in Directory |-> shown(d)]
    BY DEF Walks
  <2> HIDE DEF found, shown
  <2> QED
    BY <2>1, <2>2, <2>3
<1> HIDE DEF Crawls
<1>5. Crawls(Shown(t, v, K))
  BY <1>4, ShownSolves
<1>6. Crawls(crawl)
  BY <1>5
<1> HIDE DEF crawl
<1>7. crawl[<<>>] = {v[p] : p \in {q \in Place : t[q] # Absent} \cap K}
  <2>1. Walks(t, v, K, crawl)
    BY <1>4, <1>6
  <2> QED
    BY <2>1, WalkShowsAll
<1>8. {v[p] : p \in {q \in Place : t[q] # Absent} \cap K}
        = {p \in Place : t[p] \notin {Absent, Bucket}}
  BY DEF v, K
<1> QED
  BY <1>1, <1>7, <1>8

(* Reading by key, listing directory by directory and reading the tree are *)
(* three ways to the same content at every node and at any time, in trees  *)
(* of any depth over any names, but that GET takes an object without data  *)
(* for a missing one (kv.go, GetKeys, GetTree and GetObject).              *)
THEOREM ReadersAlwaysAgree == Spec => []ReadersAgree
<1>1. TypeOK /\ TreesWellFormed => ReadersAgree
  <2> SUFFICES ASSUME TypeOK, TreesWellFormed, NEW n \in Node
               PROVE  LET t == db[n]
                          stored == {p \in Place : t[p] \notin {Absent, Bucket}}
                      IN /\ \A p \in Place :
                              kvGetHandler(t, p).status =
                                IF p \notin stored THEN 500
                                ELSE IF t[p].data = NoData THEN 404 ELSE 200
                         /\ Crawl(t) = stored
                         /\ {e \in GetTree(t) : e[2] # Bucket}
                              = {<<p, Get(t, p)>> : p \in stored}
    BY DEF ReadersAgree
  <2> DEFINE t == db[n]
             values == {p \in Place : t[p] \notin {Absent, Bucket}}
  <2>1. t \in Tree /\ WellFormed(t)
    BY DEF TypeOK, TreesWellFormed
  <2> HIDE DEF t
  <2>2. \A p \in Place : kvGetHandler(t, p).status =
                           IF p \notin values THEN 500
                           ELSE IF t[p].data = NoData THEN 404 ELSE 200
    BY <2>1, HandlerReads
  <2>3. Crawl(t) = values
    BY <2>1, CrawlFindsAll
  <2>4. {e \in GetTree(t) : e[2] # Bucket} = {<<p, Get(t, p)>> : p \in values}
    <3>1. {e \in GetTree(t) : e[2] # Bucket} = {<<p, t[p]>> : p \in values}
      BY <2>1, TreeShowsAll
    <3>2. \A p \in values : Get(t, p) = t[p]
      BY <2>1, HandlerReads
    <3> QED
      BY <3>1, <3>2
  <2> QED
    BY <2>2, <2>3, <2>4 DEF t
<1> QED
  BY <1>1, TypeCorrect, AlwaysWellFormed, PTL

=============================================================================
