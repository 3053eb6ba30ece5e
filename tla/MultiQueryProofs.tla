-------------------------- MODULE MultiQueryProofs --------------------------
(***************************************************************************)
(* What a request with several queries promises, for any number of         *)
(* queries, any store and any other clients.                               *)
(*                                                                         *)
(* The handler looks at nothing but the length of the channel.  That this  *)
(* is enough is a matter of counting: each query that was started is with  *)
(* its goroutine or counts as one result, so when there are as many        *)
(* results as queries no goroutine is left.                                *)
(***************************************************************************)
EXTENDS MultiQuery, FiniteSetTheorems, SequenceTheorems, TLAPS

(* The queries whose goroutine has not yet sent its result.                *)
Working == {i \in Queries : work[i].pc # "none"}

(* The results there are, wherever they are, as Batch has them.            *)
Outcome ==
  {work[i].result : i \in {j \in Queries : work[j].pc = "send"}}
    \cup Elements(result) \cup Elements(answer)

Performed(i) == i < next /\ work[i].pc # "run"

PutFails(i) == query[i].verb = "PUT" /\ query[i].key \in Taken

-----------------------------------------------------------------------------
Shape ==
  /\ work \in [1..MaxQuery ->
                 [pc : {"none", "run"}] \cup [pc : {"send"}, result : Results]]
  /\ \A i \in 1..MaxQuery : i >= next => work[i].pc = "none"
  /\ \A i \in 1..MaxQuery : work[i].pc = "send" => work[i].result.of = i

(* What the state of the handler says of the channel and the response.     *)
Phases ==
  /\ closed => next = Len(query) + 1 /\ Working = {}
  /\ status = 0 => answer = <<>>
  /\ status # 0 => closed /\ result = <<>>
  /\ status = 200 => \A j \in DOMAIN answer : ~ answer[j].error

Counted == Cardinality(Working) + Len(result) + Len(answer) = next - 1

Covered ==
  \A i \in Queries : Performed(i) =>
    \E r \in Outcome : r.of = i /\ (PutFails(i) => r.error)

(* Query j has had the last word on its key.                               *)
LastWord(j) ==
  \/ /\ query[j].verb = "PUT" /\ query[j].key \notin Taken
     /\ kv[query[j].key].text = query[j].text
  \/ /\ query[j].verb = "DELETE" /\ kv[query[j].key] = Nothing

PutsStored ==
  others = 0 =>
    \A i \in Queries :
      Performed(i) /\ query[i].verb = "PUT" /\ query[i].key \notin Taken =>
        \E j \in Queries : query[j].key = query[i].key /\ LastWord(j)

IInv == TypeOK /\ Shape /\ Phases /\ Counted /\ Covered /\ PutsStored

-----------------------------------------------------------------------------
(* What a query can be.                                                    *)
LEMMA QueryType ==
  ASSUME NEW q \in Query
  PROVE  /\ q.verb \in {"GET", "PUT", "DELETE", "other"}
         /\ q.verb # "other" => q.key \in Key
         /\ q.verb = "PUT" => q.text \in Text
<1>1. CASE q \in [verb : {"GET"}, key : Key, text : {Empty}, secret : BOOLEAN]
  BY <1>1
<1>2. CASE q \in [verb : {"PUT"}, key : Key, text : Text, secret : BOOLEAN]
  BY <1>2
<1>3. CASE q \in [verb : {"DELETE"}, key : Key, text : {Empty}, secret : {FALSE}]
  BY <1>3
<1>4. CASE q \in [verb : {"other"}, key : {CHOOSE k \in Key : TRUE},
                  text : {Empty}, secret : {FALSE}]
  BY <1>4
<1> QED
  BY <1>1, <1>2, <1>3, <1>4 DEF Query

(* Whatever a client stores is Data.                                       *)
LEMMA StoredType ==
  /\ Nothing \in Stored
  /\ \A x \in Text : /\ Plain(x) \in Stored
                     /\ SealBytes(x) \in Stored
                     /\ SealString(x) \in Stored
  /\ Written \subseteq Stored
<1>1. /\ Nothing \in Stored
      /\ \A x \in Text : /\ Plain(x) \in Stored
                         /\ SealBytes(x) \in Stored
                         /\ SealString(x) \in Stored
  BY MultiQueryAssumption
     DEF Nothing, Stored, Plain, SealBytes, SealString
<1> QED
  BY <1>1 DEF Written

(* What a sequence holds.                                                  *)
LEMMA ElementsOf ==
  ASSUME NEW S, NEW s \in Seq(S)
  PROVE  /\ Elements(s) \subseteq S
         /\ \A e \in S : Elements(Append(s, e)) = Elements(s) \cup {e}
         /\ Elements(<<>>) = {}
<1>1. DOMAIN s = 1..Len(s) /\ Len(s) \in Nat
  BY LenProperties
<1>2. Elements(s) \subseteq S
  BY <1>1, ElementOfSeq DEF Elements
<1>3. Elements(<<>>) = {}
  BY DEF Elements
<1>4. ASSUME NEW e \in S PROVE Elements(Append(s, e)) = Elements(s) \cup {e}
  <2>1. /\ DOMAIN Append(s, e) = 1..(Len(s) + 1)
        /\ \A j \in 1..Len(s) : Append(s, e)[j] = s[j]
        /\ Append(s, e)[Len(s) + 1] = e
    BY AppendProperties, LenProperties
  <2> QED
    BY <1>1, <2>1 DEF Elements
<1> QED
  BY <1>2, <1>3, <1>4

(* The numbers of the queries; the goroutines at work can be counted.      *)
LEMMA Numbers ==
  ASSUME TypeOK
  PROVE  /\ MaxQuery \in Nat /\ Len(query) \in Nat
         /\ Queries = 1..Len(query) /\ Queries \subseteq 1..MaxQuery
         /\ \A i \in Queries : query[i] \in Query
         /\ next \in Nat \ {0}
         /\ Working \subseteq Queries /\ IsFiniteSet(Working)
         /\ Cardinality(Working) \in Nat
<1>1. query \in Seq(Query) /\ Len(query) <= MaxQuery /\ MaxQuery \in Nat
  BY MultiQueryAssumption DEF TypeOK
<1>2. /\ Len(query) \in Nat /\ Queries = 1..Len(query)
      /\ \A i \in Queries : query[i] \in Query
  BY <1>1, LenProperties, ElementOfSeq DEF Queries
<1>3. next \in Nat \ {0}
  BY <1>2 DEF TypeOK
<1>4. Working \subseteq Queries
  BY DEF Working
<1>5. IsFiniteSet(Queries)
  BY <1>2, FS_Interval
<1>6. IsFiniteSet(Working) /\ Cardinality(Working) \in Nat
  BY <1>4, <1>5, FS_Subset, FS_CardinalityType
<1> QED
  BY <1>1, <1>2, <1>3, <1>4, <1>6

(* At the start no query has been started.                                 *)
LEMMA InitIInv == Init => IInv
<1> SUFFICES ASSUME Init PROVE IInv
  OBVIOUS
<1>1. TypeOK
  <2>1. kv \in [Key -> Stored]
    BY StoredType DEF Init, Store
  <2>2. PICK n \in 0..MaxQuery : query \in [1..n -> Asked]
    BY DEF Init
  <2>3. n \in Nat /\ n <= MaxQuery /\ query \in [1..n -> Query]
    BY <2>2, AskedAssumption, MultiQueryAssumption
  <2>4. query \in Seq(Query) /\ Len(query) = n
    BY <2>3, SeqDef, LenProperties
  <2>5. \A i \in 1..MaxQuery : work[i] = [pc |-> "none"]
    BY DEF Init
  <2>6. next \in 1..(Len(query) + 1) /\ Len(query) <= MaxQuery /\ others \in 0..MaxOther
    BY <2>3, <2>4, MultiQueryAssumption DEF Init
  <2>7. result \in Seq(Results) /\ answer \in Seq(Results)
    BY DEF Init
  <2> QED
    BY <2>1, <2>4, <2>5, <2>6, <2>7 DEF Init, TypeOK
<1>2. Shape
  BY DEF Init, Shape
<1>3. Working = {}
  BY <1>1, Numbers DEF Init, Working
<1>4. Phases
  BY DEF Init, Phases
<1>5. Counted
  BY <1>3, FS_EmptySet DEF Init, Counted
<1>6. \A i \in Queries : ~ Performed(i)
  BY <1>1, Numbers DEF Init, Performed
<1> QED
  BY <1>1, <1>2, <1>4, <1>5, <1>6 DEF IInv, Covered, PutsStored

-----------------------------------------------------------------------------
(* What is taken from the inductive invariant in every step.               *)
LEMMA AtWork ==
  ASSUME IInv, NEW i \in Queries, work[i].pc # "none"
  PROVE  i \in 1..MaxQuery /\ i < next /\ i \in Working /\ ~ closed
<1>1. i \in 1..MaxQuery /\ i \in Nat /\ next \in Nat
  BY Numbers DEF IInv
<1>2. ~ (i >= next)
  BY <1>1 DEF IInv, Shape
<1>3. i \in Working
  BY DEF Working
<1> QED
  BY <1>1, <1>2, <1>3 DEF IInv, Phases

(* The results of goroutines, of the channel and of the response.          *)
LEMMA OutcomeType == ASSUME IInv PROVE Outcome \subseteq Results
<1>1. Elements(result) \subseteq Results /\ Elements(answer) \subseteq Results
  BY ElementsOf DEF IInv, TypeOK
<1>2. ASSUME NEW i \in Queries, work[i].pc = "send" PROVE work[i].result \in Results
  BY <1>2, AtWork DEF IInv, Shape
<1> QED
  BY <1>1, <1>2 DEF Outcome

(* The goroutine of query i has worked on the store, and has its result.   *)
LEMMA FinishIInv ==
  ASSUME IInv, NEW i \in Queries, work[i].pc = "run",
         NEW d \in Stored, NEW err \in BOOLEAN, PutFails(i) => err,
         Finish(i, d, err), kv' \in [Key -> Stored], PutsStored',
         UNCHANGED <<query, next, result, closed, answer, status, others, panicked>>
  PROVE  /\ IInv'
         /\ i < next
         /\ Outcome' = Outcome \cup {Result(i, d, err)}
<1> DEFINE r == Result(i, d, err)
<1>1. TypeOK /\ Shape /\ Phases /\ Counted /\ Covered
  BY DEF IInv
<1>2. i \in 1..MaxQuery /\ i < next /\ i \in Working
  BY AtWork
<1>3. r \in Results /\ r.of = i /\ r.error = err
  BY <1>2 DEF Result, Results
<1>4. /\ \A j \in 1..MaxQuery : j # i => work'[j] = work[j]
      /\ work'[i] = [pc |-> "send", result |-> r]
      /\ work' \in [1..MaxQuery -> [pc : {"none", "run"}]
                                     \cup [pc : {"send"}, result : Results]]
  BY <1>1, <1>2, <1>3 DEF Finish, Shape
<1>5. Queries \subseteq 1..MaxQuery /\ Queries' = Queries
  BY <1>1, Numbers DEF Queries
<1>6. Working' = Working
  <2>1. Working' = {j \in Queries : work'[j].pc # "none"}
    BY <1>5 DEF Working
  <2>2. \A j \in Queries : work'[j].pc # "none" <=> work[j].pc # "none"
    BY <1>4, <1>5
  <2> QED
    BY <2>1, <2>2 DEF Working
<1>7. Outcome' = Outcome \cup {r}
  <2>1. {j \in Queries : work'[j].pc = "send"} = {j \in Queries : work[j].pc = "send"} \cup {i}
    <3>1. ASSUME NEW j \in Queries
          PROVE  work'[j].pc = "send" <=> work[j].pc = "send" \/ j = i
      BY <1>4, <1>5
    <3>2. i \in Queries
      BY <1>2 DEF Working
    <3> QED
      BY <3>1, <3>2
  <2>2. \A j \in Queries : work[j].pc = "send" => work'[j].result = work[j].result
    BY <1>4, <1>5
  <2>3. work'[i].result = r
    BY <1>4
  <2> QED
    BY <1>5, <2>1, <2>2, <2>3 DEF Outcome, Elements
<1>8. TypeOK'
  BY <1>1, <1>4 DEF TypeOK
<1>9. Shape'
  <2>1. i \in Nat /\ next \in Nat
    BY <1>1, Numbers
  <2> QED
    BY <1>1, <1>2, <1>3, <1>4, <2>1 DEF Shape
<1>10. Phases' /\ Counted'
  BY <1>1, <1>6 DEF Phases, Counted
<1>11. Covered'
  <2> SUFFICES ASSUME NEW j \in Queries, Performed(j)'
               PROVE  \E q \in Outcome' : q.of = j /\ (PutFails(j) => q.error)
    BY <1>5 DEF Covered, PutFails
  <2>1. CASE j = i
    BY <1>3, <1>7, <2>1
  <2>2. CASE j # i
    <3>1. Performed(j)
      BY <1>4, <1>5, <2>2 DEF Performed
    <3> QED
      BY <1>1, <1>7, <3>1 DEF Covered
  <2> QED
    BY <2>1, <2>2
<1> QED
  BY <1>2, <1>7, <1>8, <1>9, <1>10, <1>11 DEF IInv

(* A result goes from its goroutine into the channel.                      *)
LEMMA SendIInv ==
  ASSUME IInv, NEW i \in 1..MaxQuery, Send(i)
  PROVE  IInv' /\ Outcome' = Outcome
<1> DEFINE r == work[i].result
<1>1. TypeOK /\ Shape /\ Phases /\ Counted /\ Covered /\ PutsStored
  BY DEF IInv
<1>2. /\ i \in Queries /\ work[i].pc = "send" /\ ~ closed
      /\ result' = Append(result, r)
      /\ work' = [work EXCEPT ![i] = [pc |-> "none"]]
      /\ UNCHANGED <<kv, query, next, closed, answer, status, others, panicked>>
  BY DEF Send, SendResult
<1>3. i < next /\ i \in Working
  BY <1>2, AtWork
<1>4. r \in Results /\ r.of = i
  BY <1>1, <1>2 DEF Shape
<1>5. /\ \A j \in 1..MaxQuery : j # i => work'[j] = work[j]
      /\ work'[i] = [pc |-> "none"] /\ work'[i].pc = "none"
      /\ work' \in [1..MaxQuery -> [pc : {"none", "run"}]
                                     \cup [pc : {"send"}, result : Results]]
  BY <1>1, <1>2 DEF Shape
<1>6. Queries \subseteq 1..MaxQuery /\ Queries' = Queries
  BY <1>1, <1>2, Numbers DEF Queries
<1>7. Working' = Working \ {i}
  <2>1. Working' = {j \in Queries : work'[j].pc # "none"}
    BY <1>6 DEF Working
  <2>2. ASSUME NEW j \in Queries
        PROVE  work'[j].pc # "none" <=> work[j].pc # "none" /\ j # i
    BY <1>2, <1>5, <1>6
  <2> QED
    BY <2>1, <2>2 DEF Working
<1>8. /\ result \in Seq(Results) /\ result' \in Seq(Results)
      /\ Len(result') = Len(result) + 1 /\ Len(result) \in Nat
      /\ Elements(result') = Elements(result) \cup {r}
  <2>1. result \in Seq(Results)
    BY <1>1 DEF TypeOK
  <2> QED
    BY <1>2, <1>4, <2>1, ElementsOf, AppendProperties, LenProperties
<1>9. Outcome' = Outcome
  <2>1. \A j \in Queries :
          work[j].pc = "send" <=> work'[j].pc = "send" \/ j = i
    BY <1>2, <1>5, <1>6
  <2>2. ASSUME NEW j \in Queries, work'[j].pc = "send"
        PROVE  work'[j].result = work[j].result
    BY <1>5, <1>6, <2>2
  <2>3. Elements(answer)' = Elements(answer) /\ Elements(result)' = Elements(result')
    BY <1>2 DEF Elements
  <2>4. {work[k].result : k \in {j \in Queries : work[j].pc = "send"}}
          = {work'[k].result : k \in {j \in Queries : work'[j].pc = "send"}} \cup {r}
    BY <1>2, <1>5, <2>1, <2>2
  <2>5. Outcome' = {work'[k].result : k \in {j \in Queries : work'[j].pc = "send"}}
                     \cup Elements(result') \cup Elements(answer)
    BY <1>6, <2>3 DEF Outcome
  <2> QED
    BY <1>8, <2>4, <2>5 DEF Outcome
<1>10. TypeOK'
  BY <1>1, <1>2, <1>5, <1>8 DEF TypeOK
<1>11. Shape'
  BY <1>1, <1>2, <1>5 DEF Shape
<1>12. Phases'
  BY <1>1, <1>2 DEF Phases
<1>13. Counted'
  <2>1. Cardinality(Working') = Cardinality(Working) - 1 /\ Cardinality(Working) \in Nat
    BY <1>1, <1>3, <1>7, Numbers, FS_RemoveElement
  <2>2. Len(answer) \in Nat /\ next \in Nat
    BY <1>1, Numbers, LenProperties DEF TypeOK
  <2> QED
    BY <1>1, <1>2, <1>8, <2>1, <2>2 DEF Counted
<1>14. Covered'
  <2> SUFFICES ASSUME NEW j \in Queries, Performed(j)'
               PROVE  \E q \in Outcome' : q.of = j /\ (PutFails(j) => q.error)
    BY <1>2, <1>6 DEF Covered, PutFails
  <2>1. Performed(j)
    BY <1>2, <1>3, <1>5, <1>6 DEF Performed
  <2> QED
    BY <1>1, <1>9, <2>1 DEF Covered
<1>15. PutsStored'
  <2>1. \A j \in Queries : Performed(j)' => Performed(j)
    BY <1>2, <1>3, <1>5, <1>6 DEF Performed
  <2> QED
    BY <1>1, <1>2, <1>6, <2>1 DEF PutsStored, LastWord
<1> QED
  BY <1>9, <1>10, <1>11, <1>12, <1>13, <1>14, <1>15 DEF IInv

(* A goroutine reads, or ends the process.                                 *)
LEMMA DoGETIInv ==
  ASSUME IInv, NEW i \in 1..MaxQuery, DoGET(i)
  PROVE  LET k == query[i].key
             r == Result(i, IF Found(k) THEN kv[k] ELSE Nothing, ~ Found(k))
         IN  IInv' /\ i \in Queries /\ i < next /\ Outcome' = Outcome \cup {r}
<1> DEFINE k == query[i].key
           d == IF Found(k) THEN kv[k] ELSE Nothing
           err == ~ Found(k)
<1>1. /\ i \in Queries /\ work[i].pc = "run" /\ query[i].verb = "GET"
      /\ Finish(i, d, err)
      /\ UNCHANGED <<kv, query, next, result, closed, answer, status, others, panicked>>
  BY DEF DoGET, Runs
<1>2. k \in Key /\ d \in Stored /\ err \in BOOLEAN
  <2>1. k \in Key
    BY <1>1, Numbers, QueryType DEF IInv
  <2> QED
    BY <2>1, StoredType DEF IInv, TypeOK
<1>3. ~ PutFails(i)
  BY <1>1 DEF PutFails
<1>4. kv' \in [Key -> Stored]
  BY <1>1 DEF IInv, TypeOK
<1>5. PutsStored'
  <2>1. \A j : Performed(j)' => Performed(j) \/ j = i
    BY <1>1 DEF Performed, Finish, IInv, Shape
  <2>2. Queries' = Queries
    BY <1>1 DEF Queries
  <2> QED
    BY <1>1, <2>1, <2>2 DEF IInv, PutsStored, LastWord
<1> HIDE DEF d, err
<1>6. IInv' /\ i < next /\ Outcome' = Outcome \cup {Result(i, d, err)}
  BY <1>1, <1>2, <1>3, <1>4, <1>5, FinishIInv
<1> QED
  BY <1>1, <1>6 DEF d, err

(* A write that has the last word on its key keeps the promise for all     *)
(* queries about that key, and touches no other.                           *)
LEMMA LastWordStored ==
  ASSUME IInv, NEW i \in Queries, work[i].pc = "run", i < next,
         NEW d, NEW err, Finish(i, d, err), LastWord(i)',
         \A k \in Key : k # query[i].key => kv'[k] = kv[k],
         UNCHANGED <<query, next, others>>
  PROVE  PutsStored'
<1>1. Queries' = Queries
  BY DEF Queries
<1>2. \A j \in Queries : Performed(j)' => Performed(j) \/ j = i
  BY DEF Performed, Finish, IInv, Shape
<1> SUFFICES ASSUME others = 0, NEW j \in Queries, Performed(j)',
                    query[j].verb = "PUT", query[j].key \notin Taken
             PROVE  \E l \in Queries : query[l].key = query[j].key /\ LastWord(l)'
  BY <1>1 DEF PutsStored
<1>3. CASE query[j].key = query[i].key
  BY <1>3
<1>4. CASE query[j].key # query[i].key
  <2>1. PICK l \in Queries : query[l].key = query[j].key /\ LastWord(l)
    BY <1>2, <1>4 DEF IInv, PutsStored
  <2>2. query[l] \in Query /\ query[l].verb # "other"
    BY <2>1, Numbers DEF IInv, LastWord
  <2>3. query[l].key \in Key
    BY <2>2, QueryType
  <2>4. LastWord(l)'
    BY <1>4, <2>1, <2>3 DEF LastWord
  <2> QED
    BY <2>1, <2>4
<1> QED
  BY <1>3, <1>4

(* A put adds one result.                                                  *)
LEMMA DoPOSTIInv ==
  ASSUME IInv, NEW i \in 1..MaxQuery, DoPOST(i)
  PROVE  /\ IInv' /\ i \in Queries /\ i < next
         /\ Outcome' = Outcome \cup
              {Result(i, Plain(query[i].text), query[i].key \in Taken)}
<1> DEFINE q == query[i]
           d == Plain(q.text)
           err == q.key \in Taken
           stored == IF q.secret THEN SealString(q.text) ELSE Plain(q.text)
<1>1. /\ i \in Queries /\ work[i].pc = "run" /\ q.verb = "PUT"
      /\ kv' = IF q.key \in Taken THEN kv ELSE [kv EXCEPT ![q.key] = stored]
      /\ Finish(i, d, err)
      /\ UNCHANGED <<query, next, result, closed, answer, status, others, panicked>>
  BY DEF DoPOST, PutResult, Runs
<1>2. i < next
  BY <1>1, AtWork
<1>3. q.key \in Key /\ q.text \in Text
  BY <1>1, Numbers, QueryType DEF IInv
<1>4. d \in Stored /\ stored \in Stored /\ stored.text = q.text /\ err \in BOOLEAN
  <2>1. /\ Plain(q.text) \in Stored /\ SealString(q.text) \in Stored
        /\ Plain(q.text).text = q.text /\ SealString(q.text).text = q.text
    BY <1>3, StoredType DEF SealString, Plain
  <2> QED
    BY <2>1
<1>5. kv \in [Key -> Stored] /\ kv' \in [Key -> Stored]
  BY <1>1, <1>3, <1>4 DEF IInv, TypeOK
<1>6. PutFails(i) => err
  BY DEF PutFails
<1> HIDE DEF d, err, stored
<1>7. PutsStored'
  <2>1. CASE q.key \notin Taken
    <3>1. LastWord(i)'
      BY <1>1, <1>3, <1>4, <1>5, <2>1 DEF LastWord
    <3>2. \A k \in Key : k # q.key => kv'[k] = kv[k]
      BY <1>1, <1>5, <2>1
    <3> QED
      BY <1>1, <1>2, <3>1, <3>2, LastWordStored
  <2>2. CASE q.key \in Taken
    <3>1. \A j \in Queries : Performed(j)' => Performed(j) \/ j = i
      BY <1>1 DEF Performed, Finish, IInv, Shape
    <3>2. Queries' = Queries /\ kv' = kv
      BY <1>1, <2>2 DEF Queries
    <3> QED
      BY <1>1, <2>2, <3>1, <3>2 DEF IInv, PutsStored, LastWord
  <2> QED
    BY <2>1, <2>2
<1>8. IInv' /\ Outcome' = Outcome \cup {Result(i, d, err)}
  BY <1>1, <1>4, <1>5, <1>6, <1>7, FinishIInv
<1> QED
  BY <1>1, <1>2, <1>8 DEF d, err

(* So does a delete.                                                       *)
LEMMA DoDELETEIInv ==
  ASSUME IInv, NEW i \in 1..MaxQuery, DoDELETE(i)
  PROVE  /\ IInv' /\ i \in Queries /\ i < next
         /\ Outcome' = Outcome \cup {Result(i, Nothing, FALSE)}
<1> DEFINE k == query[i].key
<1>1. /\ i \in Queries /\ work[i].pc = "run" /\ query[i].verb = "DELETE"
      /\ kv' = [kv EXCEPT ![k] = Nothing]
      /\ Finish(i, Nothing, FALSE)
      /\ UNCHANGED <<query, next, result, closed, answer, status, others, panicked>>
  BY DEF DoDELETE, Runs
<1>2. i < next
  BY <1>1, AtWork
<1>3. k \in Key
  BY <1>1, Numbers, QueryType DEF IInv
<1>4. /\ Nothing \in Stored
      /\ kv' \in [Key -> Stored] /\ kv'[k] = Nothing
      /\ \A l \in Key : l # k => kv'[l] = kv[l]
  BY <1>1, <1>3, StoredType DEF IInv, TypeOK
<1>5. LastWord(i)'
  BY <1>1, <1>4 DEF LastWord
<1>6. PutsStored'
  BY <1>1, <1>2, <1>4, <1>5, LastWordStored
<1>7. ~ PutFails(i)
  BY <1>1 DEF PutFails
<1> QED
  BY <1>1, <1>2, <1>4, <1>6, <1>7, FinishIInv

(* The handler starts the next query, or answers it itself.                *)
LEMMA DispatchIInv ==
  ASSUME IInv, Dispatch
  PROVE  /\ IInv'
         /\ query[next].verb # "other" => Outcome' = Outcome
         /\ query[next].verb = "other" =>
              Outcome' = Outcome \cup {Result(next, Nothing, TRUE)}
<1>1. TypeOK /\ Shape /\ Phases /\ Counted /\ Covered /\ PutsStored
  BY DEF IInv
<1>2. /\ next \in Queries /\ next' = next + 1
      /\ UNCHANGED <<kv, query, closed, answer, status, others, panicked>>
  BY DEF Dispatch
<1>3. /\ Queries \subseteq 1..MaxQuery /\ Queries' = Queries
      /\ Queries = 1..Len(query) /\ Len(query) \in Nat
      /\ next \in Nat /\ next <= Len(query) /\ MaxQuery \in Nat
  BY <1>1, <1>2, Numbers DEF Queries
<1>4. work[next].pc = "none" /\ next \notin Working
  BY <1>1, <1>2, <1>3 DEF Shape, Working
<1>5. ~ closed /\ status = 0
  BY <1>1, <1>3 DEF Phases
<1>6. next' \in 1..(Len(query) + 1)
  BY <1>2, <1>3
<1>7. /\ result \in Seq(Results) /\ Len(result) \in Nat /\ Len(answer) \in Nat
      /\ Cardinality(Working) \in Nat /\ IsFiniteSet(Working)
  BY <1>1, Numbers, LenProperties DEF TypeOK
<1>8. CASE query[next].verb = "other"
  <2> DEFINE r == Result(next, Nothing, TRUE)
  <2>1. result' = Append(result, r) /\ UNCHANGED work
    BY <1>8 DEF Dispatch
  <2>2. r \in Results /\ r.of = next /\ r.error
    BY <1>2, <1>3, StoredType DEF Result, Results
  <2>3. /\ result' \in Seq(Results) /\ Len(result') = Len(result) + 1
        /\ Elements(result') = Elements(result) \cup {r}
    <3>1. result \in Seq(Results) /\ r \in Results
      BY <1>7, <2>2
    <3> HIDE DEF r
    <3>2. /\ Append(result, r) \in Seq(Results)
          /\ Len(Append(result, r)) = Len(result) + 1
      BY <3>1, AppendProperties
    <3>3. Elements(Append(result, r)) = Elements(result) \cup {r}
      BY <3>1, ElementsOf
    <3> QED
      BY <2>1, <3>2, <3>3
  <2>4. Working' = Working
    BY <1>3, <2>1 DEF Working
  <2>5. Outcome' = Outcome \cup {r}
    <3>1. Elements(answer)' = Elements(answer) /\ Elements(result)' = Elements(result')
      BY <1>2 DEF Elements
    <3>2. Outcome' = {work[k].result : k \in {j \in Queries : work[j].pc = "send"}}
                       \cup Elements(result') \cup Elements(answer)
      BY <1>3, <2>1, <3>1 DEF Outcome
    <3> QED
      BY <2>3, <3>2 DEF Outcome
  <2>6. TypeOK'
    BY <1>1, <1>2, <1>6, <2>1, <2>3 DEF TypeOK
  <2>7. Shape'
    BY <1>1, <1>2, <1>3, <2>1 DEF Shape
  <2>8. Phases'
    BY <1>1, <1>2, <1>5, <2>4 DEF Phases
  <2>9. Counted'
    <3>1. Cardinality(Working) + Len(result) + Len(answer) = next - 1
      BY <1>1 DEF Counted
    <3>2. /\ Len(result') = Len(result) + 1 /\ Len(answer') = Len(answer)
          /\ Cardinality(Working') = Cardinality(Working)
      BY <1>2, <2>3, <2>4
    <3>3. Cardinality(Working') + Len(result') + Len(answer') = next' - 1
      BY <1>2, <1>3, <1>7, <3>1, <3>2
    <3> QED
      BY <3>3 DEF Counted
  <2>10. Covered'
    <3> SUFFICES ASSUME NEW j \in Queries, Performed(j)'
                 PROVE  \E x \in Outcome' : x.of = j /\ (PutFails(j) => x.error)
      BY <1>2, <1>3 DEF Covered, PutFails
    <3>1. Performed(j) \/ j = next
      BY <1>2, <1>3, <2>1 DEF Performed
    <3> QED
      BY <1>1, <2>2, <2>5, <3>1 DEF Covered
  <2>11. PutsStored'
    <3>1. \A j \in Queries : Performed(j)' => Performed(j) \/ j = next
      BY <1>2, <1>3, <2>1 DEF Performed
    <3> QED
      BY <1>1, <1>2, <1>3, <1>8, <3>1 DEF PutsStored, LastWord
  <2> QED
    BY <1>8, <2>5, <2>6, <2>7, <2>8, <2>9, <2>10, <2>11 DEF IInv
<1>9. CASE query[next].verb # "other"
  <2>1. work' = [work EXCEPT ![next] = [pc |-> "run"]] /\ UNCHANGED result
    BY <1>9 DEF Dispatch
  <2>2. /\ \A j \in 1..MaxQuery : j # next => work'[j] = work[j]
        /\ work'[next] = [pc |-> "run"] /\ work'[next].pc = "run"
        /\ work' \in [1..MaxQuery -> [pc : {"none", "run"}]
                                       \cup [pc : {"send"}, result : Results]]
    BY <1>1, <1>2, <1>3, <2>1 DEF Shape
  <2>3. Working' = Working \cup {next}
    <3>1. Working' = {j \in Queries : work'[j].pc # "none"}
      BY <1>3 DEF Working
    <3>2. ASSUME NEW j \in Queries
          PROVE  work'[j].pc # "none" <=> work[j].pc # "none" \/ j = next
      BY <1>3, <2>2
    <3> QED
      BY <1>2, <3>1, <3>2 DEF Working
  <2>4. Cardinality(Working') = Cardinality(Working) + 1
    BY <1>4, <1>7, <2>3, FS_AddElement
  <2>5. Outcome' = Outcome
    <3>1. ASSUME NEW j \in Queries
          PROVE  /\ work'[j].pc = "send" <=> work[j].pc = "send"
                 /\ work[j].pc = "send" => work'[j].result = work[j].result
      BY <1>3, <1>4, <2>2
    <3>2. {work[k].result : k \in {j \in Queries : work[j].pc = "send"}}
            = {work'[k].result : k \in {j \in Queries : work'[j].pc = "send"}}
      BY <3>1
    <3>3. /\ Elements(answer)' = Elements(answer)
          /\ Elements(result)' = Elements(result)
      BY <1>2, <2>1 DEF Elements
    <3> QED
      BY <1>3, <3>2, <3>3 DEF Outcome
  <2>6. TypeOK'
    BY <1>1, <1>2, <1>6, <2>1, <2>2 DEF TypeOK
  <2>7. Shape'
    <3>1. \A j \in 1..MaxQuery : j >= next' => j >= next /\ j # next
      BY <1>2, <1>3
    <3>2. \A j \in 1..MaxQuery : work'[j].pc = "send" => work'[j] = work[j]
      BY <2>2
    <3> QED
      BY <1>1, <2>2, <3>1, <3>2 DEF Shape
  <2>8. Phases'
    BY <1>1, <1>2, <1>5, <2>1 DEF Phases
  <2>9. Counted'
    <3>1. Cardinality(Working) + Len(result) + Len(answer) = next - 1
      BY <1>1 DEF Counted
    <3>2. /\ Len(result') = Len(result) /\ Len(answer') = Len(answer)
          /\ Cardinality(Working') = Cardinality(Working) + 1
      BY <1>2, <2>1, <2>4
    <3>3. Cardinality(Working') + Len(result') + Len(answer') = next' - 1
      BY <1>2, <1>3, <1>7, <3>1, <3>2
    <3> QED
      BY <3>3 DEF Counted
  <2>10. \A j \in Queries : Performed(j)' => Performed(j)
    BY <1>2, <1>3, <2>2 DEF Performed
  <2>11. Covered'
    BY <1>1, <1>2, <1>3, <2>5, <2>10 DEF Covered, PutFails
  <2>12. PutsStored'
    BY <1>1, <1>2, <1>3, <2>10 DEF PutsStored, LastWord
  <2> QED
    BY <1>9, <2>5, <2>6, <2>7, <2>8, <2>9, <2>11, <2>12 DEF IInv
<1> QED
  BY <1>8, <1>9

(* As many results as queries mean that no goroutine is at work.           *)
LEMMA CloseIInv ==
  ASSUME IInv, Close
  PROVE  IInv' /\ Outcome' = Outcome
<1>1. TypeOK /\ Shape /\ Phases /\ Counted /\ Covered /\ PutsStored
  BY DEF IInv
<1>2. /\ next \notin Queries /\ ~ closed /\ Len(result) >= Len(query) /\ closed'
      /\ UNCHANGED <<kv, query, next, work, result, answer, status, others, panicked>>
  BY DEF Close, CloseAt
<1>3. next = Len(query) + 1 /\ Len(query) \in Nat
  BY <1>1, <1>2, Numbers DEF TypeOK
<1>4. Working = {}
  <2>1. Len(result) \in Nat /\ Len(answer) \in Nat
    BY <1>1, LenProperties DEF TypeOK
  <2>2. Cardinality(Working) = 0
    BY <1>1, <1>2, <1>3, <2>1, Numbers DEF Counted
  <2> QED
    BY <1>1, <2>2, Numbers, FS_EmptySet
<1>5. /\ Working' = Working /\ Outcome' = Outcome /\ Queries' = Queries
  BY <1>2 DEF Working, Outcome, Queries, Elements
<1>6. TypeOK' /\ Shape' /\ Counted'
  BY <1>1, <1>2, <1>5 DEF TypeOK, Shape, Counted
<1>7. Phases'
  BY <1>1, <1>2, <1>3, <1>4, <1>5 DEF Phases
<1>8. Covered' /\ PutsStored'
  BY <1>1, <1>2, <1>5 DEF Covered, Performed, PutFails, PutsStored, LastWord
<1> QED
  BY <1>5, <1>6, <1>7, <1>8 DEF IInv

(* What the channel held is in the response.                               *)
LEMMA RespondIInv ==
  ASSUME IInv, Respond
  PROVE  /\ IInv' /\ Outcome' = Outcome
         /\ next = Len(query) + 1 /\ Working = {}
         /\ Outcome = Elements(result) /\ Elements(answer)' = Outcome
<1>1. TypeOK /\ Shape /\ Phases /\ Counted /\ Covered /\ PutsStored
  BY DEF IInv
<1>2. /\ closed /\ status = 0 /\ answer' = result /\ result' = <<>>
      /\ status' = IF \E j \in DOMAIN result : result[j].error THEN 400 ELSE 200
      /\ UNCHANGED <<kv, query, next, work, closed, others, panicked>>
  BY DEF Respond, RespondWith
<1>3. answer = <<>> /\ next = Len(query) + 1 /\ Working = {}
  BY <1>1, <1>2 DEF Phases
<1>4. /\ Working' = Working /\ Queries' = Queries
  BY <1>2 DEF Working, Queries
<1>5. Elements(<<>>) = {} /\ Elements(answer)' = Elements(result) /\ Elements(result)' = {}
  BY <1>2 DEF Elements
<1>6. {work[i].result : i \in {j \in Queries : work[j].pc = "send"}} = {}
  BY <1>3 DEF Working
<1>7. Outcome = Elements(result)
  BY <1>3, <1>5, <1>6 DEF Outcome
<1>8. Outcome' = Elements(result)
  BY <1>2, <1>4, <1>5, <1>6 DEF Outcome
<1>9. TypeOK'
  BY <1>1, <1>2 DEF TypeOK
<1>10. Shape'
  BY <1>1, <1>2 DEF Shape
<1>11. Phases'
  BY <1>1, <1>2, <1>3, <1>4 DEF Phases
<1>12. Counted'
  <2>1. Len(result) \in Nat /\ Cardinality(Working) \in Nat /\ next \in Nat
    BY <1>1, Numbers, LenProperties DEF TypeOK
  <2>2. Len(answer) = 0 /\ Len(result') = 0 /\ Len(answer') = Len(result)
    BY <1>2, <1>3
  <2>3. Cardinality(Working) + Len(result) = next - 1
    BY <1>1, <2>1, <2>2 DEF Counted
  <2>4. Cardinality(Working') = Cardinality(Working) /\ next' = next
    BY <1>2, <1>4
  <2> QED
    BY <2>1, <2>2, <2>3, <2>4 DEF Counted
<1>13. Covered' /\ PutsStored'
  BY <1>1, <1>2, <1>4, <1>7, <1>8 DEF Covered, Performed, PutFails, PutsStored, LastWord
<1> QED
  BY <1>3, <1>5, <1>7, <1>8, <1>9, <1>10, <1>11, <1>12, <1>13 DEF IInv

(* Another client, or a panic.                                             *)
LEMMA OtherIInv ==
  ASSUME IInv,
         OtherClient \/ \E i \in 1..MaxQuery : DoGETPanics(i)
  PROVE  IInv' /\ Outcome' = Outcome
<1>1. TypeOK /\ Shape /\ Phases /\ Counted /\ Covered /\ PutsStored
  BY DEF IInv
<1>2. UNCHANGED <<query, next, work, result, closed, answer, status>>
  BY DEF OtherClient, DoGETPanics
<1>3. /\ Working' = Working /\ Outcome' = Outcome /\ Queries' = Queries
  BY <1>2 DEF Working, Outcome, Queries, Elements
<1>4. Shape' /\ Phases' /\ Counted' /\ Covered'
  BY <1>1, <1>2, <1>3 DEF Shape, Phases, Counted, Covered, Performed, PutFails
<1>5. CASE OtherClient
  <2>1. others \in Nat /\ others' = others + 1 /\ others' \in 0..MaxOther
    BY <1>1, <1>5, MultiQueryAssumption DEF OtherClient, TypeOK
  <2>2. kv' \in [Key -> Stored]
    BY <1>1, <1>5, StoredType DEF OtherClient, TypeOK
  <2>3. TypeOK'
    BY <1>1, <1>2, <1>5, <2>1, <2>2 DEF OtherClient, TypeOK
  <2>4. PutsStored'
    BY <2>1 DEF PutsStored
  <2> QED
    BY <1>3, <1>4, <2>3, <2>4 DEF IInv
<1>6. CASE \E i \in 1..MaxQuery : DoGETPanics(i)
  <2>1. UNCHANGED <<kv, others>> /\ panicked' = TRUE
    BY <1>6 DEF DoGETPanics
  <2>2. TypeOK' /\ PutsStored'
    BY <1>1, <1>2, <1>3, <2>1 DEF TypeOK, PutsStored, Performed, LastWord
  <2> QED
    BY <1>3, <1>4, <2>2 DEF IInv
<1> QED
  BY <1>5, <1>6

(* Every step keeps the invariant,                                         *)
LEMMA NextIInv == IInv /\ [Next]_vars => IInv'
<1> SUFFICES ASSUME IInv, [Next]_vars PROVE IInv'
  OBVIOUS
<1>1. CASE UNCHANGED vars
  BY <1>1 DEF vars, IInv, TypeOK, Shape, Phases, Counted, Covered, PutsStored,
              Working, Outcome, Queries, Elements, Performed, PutFails, LastWord
<1>2. CASE Handler
  BY <1>2, DispatchIInv, CloseIInv, RespondIInv DEF Handler
<1>3. CASE OtherClient
  BY <1>3, OtherIInv
<1>4. ASSUME NEW i \in 1..MaxQuery, Goroutine(i) PROVE IInv'
  BY <1>4, DoGETIInv, DoPOSTIInv, DoDELETEIInv, SendIInv, OtherIInv DEF Goroutine
<1> QED
  BY <1>1, <1>2, <1>3, <1>4 DEF Next

(* so it holds always.                                                     *)
LEMMA Inductive == Spec => []IInv
BY InitIInv, NextIInv, PTL DEF Spec

-----------------------------------------------------------------------------
(* Queries, goroutines, results and answer keep the types api.go gives     *)
(* them, the next query is one of the request or past its end, and the     *)
(* status is 200 or 400 once there is one (multiQueryHandler).             *)
THEOREM TypeCorrect == Spec => []TypeOK
<1>1. IInv => TypeOK
  BY DEF IInv
<1> QED
  BY <1>1, Inductive, PTL

(* The channel is closed by its length, and still no goroutine is left     *)
(* that could send on it (api.go, multiQueryHandler).                      *)
THEOREM ClosedStaysQuiet == Spec => []ClosedIsQuiet
<1>1. IInv => ClosedIsQuiet
  <2> SUFFICES ASSUME IInv, closed, NEW i \in 1..MaxQuery
               PROVE  work[i].pc = "none"
    BY DEF ClosedIsQuiet
  <2>1. next = Len(query) + 1 /\ Working = {}
    BY DEF IInv, Phases
  <2>2. CASE i \in Queries
    BY <2>1, <2>2 DEF Working
  <2>3. CASE i \notin Queries
    <3>1. i >= next
      BY <2>1, <2>3, Numbers DEF IInv
    <3> QED
      BY <3>1 DEF IInv, Shape
  <2> QED
    BY <2>2, <2>3
<1> QED
  BY <1>1, Inductive, PTL

(* What is known of a request that has been answered.                      *)
LEMMA Answered ==
  ASSUME IInv, status # 0
  PROVE  /\ next = Len(query) + 1 /\ Working = {} /\ result = <<>>
         /\ Outcome = Elements(answer)
         /\ \A i \in Queries : Performed(i)
<1>1. next = Len(query) + 1 /\ Working = {} /\ result = <<>>
  BY DEF IInv, Phases
<1>2. {work[i].result : i \in {j \in Queries : work[j].pc = "send"}} = {}
  BY <1>1 DEF Working
<1>3. Outcome = Elements(answer)
  BY <1>1, <1>2 DEF Outcome, Elements
<1>4. ASSUME NEW i \in Queries PROVE Performed(i)
  <2>1. i < next
    BY <1>1, Numbers DEF IInv
  <2>2. work[i].pc = "none"
    BY <1>1 DEF Working
  <2> QED
    BY <2>1, <2>2 DEF Performed
<1> QED
  BY <1>1, <1>3, <1>4

(* The response names each query, and none of them twice.                  *)
THEOREM EachAnsweredOnce == Spec => []OneResultEach
<1>1. IInv => OneResultEach
  <2> SUFFICES ASSUME IInv, status # 0
               PROVE  /\ Len(answer) = Len(query)
                      /\ \A i \in Queries : \E j \in DOMAIN answer : answer[j].of = i
    BY DEF OneResultEach
  <2>1. Len(answer) = Len(query)
    <3>1. Cardinality(Working) = 0 /\ Len(result) = 0
      BY Answered, FS_EmptySet
    <3>2. Len(answer) \in Nat /\ Len(query) \in Nat
      BY Numbers, LenProperties DEF IInv, TypeOK
    <3> QED
      BY <3>1, <3>2, Answered DEF IInv, Counted
  <2>2. ASSUME NEW i \in Queries
        PROVE  \E j \in DOMAIN answer : answer[j].of = i
    BY Answered DEF IInv, Covered, Elements
  <2> QED
    BY <2>1, <2>2
<1> QED
  BY <1>1, Inductive, PTL

(* Status 200 means that what was put is stored, unless another query of   *)
(* the request about the same key came later.                              *)
THEOREM StatusTells == Spec => []OKMeansStored
<1>1. IInv => OKMeansStored
  <2> SUFFICES ASSUME IInv, status = 200, others = 0,
                      NEW i \in Queries, query[i].verb = "PUT"
               PROVE  \E j \in Queries : query[j].key = query[i].key /\ LastWord(j)
    BY DEF OKMeansStored, LastWord
  <2>1. Performed(i) /\ Outcome = Elements(answer)
    BY Answered
  <2>2. \A j \in DOMAIN answer : ~ answer[j].error
    BY DEF IInv, Phases
  <2>3. query[i].key \notin Taken
    BY <2>1, <2>2 DEF IInv, Covered, PutFails, Elements
  <2> QED
    BY <2>1, <2>3 DEF IInv, PutsStored
<1> QED
  BY <1>1, Inductive, PTL

-----------------------------------------------------------------------------
(* Each step of the handler or of a goroutine is one of Batch, or leaves   *)
(* what Batch talks about alone: a query is performed in the step in which *)
(* its goroutine works on the store, or in which the handler refuses it.   *)

Pending == {i \in Queries : i >= next \/ work[i].pc = "run"}

(* A goroutine that is done with the store takes its query off the list.   *)
LEMMA FinishPending ==
  ASSUME IInv, NEW i \in Queries, work[i].pc = "run", i < next,
         NEW d, NEW err, Finish(i, d, err), UNCHANGED <<query, next>>
  PROVE  i \in Pending /\ Pending' = Pending \ {i}
<1>1. Queries' = Queries /\ Queries \subseteq 1..MaxQuery /\ i \in Nat /\ next \in Nat
  BY Numbers DEF Queries, IInv
<1>2. \A j \in Queries : work'[j].pc = "run" <=> work[j].pc = "run" /\ j # i
  BY <1>1 DEF Finish, IInv, Shape
<1>3. ~ (i >= next)
  BY <1>1
<1>4. Pending' = {j \in Queries : j >= next \/ work'[j].pc = "run"}
  BY <1>1 DEF Pending
<1> QED
  BY <1>2, <1>3, <1>4 DEF Pending

(* Batch and MultiQuery have the same data.                                *)
LEMMA SameData ==
  /\ Requests!Nothing = Nothing
  /\ Requests!Written = Written /\ Requests!Store = Store
  /\ \A i, d, err : Requests!Result(i, d, err) = Result(i, d, err)
  /\ \A x : Requests!Plain(x) = Plain(x) /\ Requests!SealString(x) = SealString(x)
  /\ \A st, k : Requests!Holds(st, k) <=> Holds(st, k)
  /\ \A d : Requests!DecryptPanics(d) <=> DecryptPanics(d)
<1>1. Requests!Nothing = Nothing
  BY DEF Requests!Nothing, Nothing
<1>2. Requests!Written = Written
  BY DEF Requests!Written, Written, Requests!Plain, Plain,
         Requests!SealBytes, SealBytes
<1> QED
  BY <1>1, <1>2
     DEF Requests!Store, Store, Requests!Result, Result, Requests!Plain, Plain,
         Requests!SealString, SealString, Requests!Holds, Holds,
         Requests!DecryptPanics, DecryptPanics

(* An unread request is a batch of pending queries.                        *)
LEMMA InitBatch == Init => Requests!Init
<1> SUFFICES ASSUME Init PROVE Requests!Init
  OBVIOUS
<1>1. TypeOK
  BY InitIInv DEF IInv
<1>2. Pending = Queries
  BY <1>1, Numbers DEF Init, Pending
<1>3. Elements(result) = {} /\ Elements(answer) = {}
  BY DEF Init, Elements
<1>4. {j \in Queries : work[j].pc = "send"} = {}
  BY <1>1, Numbers DEF Init
<1>5. Outcome = {}
  BY <1>3, <1>4 DEF Outcome
<1> QED
  BY SameData, <1>2, <1>3, <1>5 DEF Init, Requests!Init, Pending, Outcome, Queries

(* A read, at the moment of the goroutine's transaction.                   *)
LEMMA GetStep ==
  ASSUME IInv, NEW i \in 1..MaxQuery, DoGET(i)
  PROVE  Requests!Get(i)
<1> DEFINE k == query[i].key
           d == IF Found(k) THEN kv[k] ELSE Nothing
<1>1. /\ i \in Queries /\ work[i].pc = "run" /\ query[i].verb = "GET" /\ ~ panicked
      /\ ~ (Found(k) /\ query[i].secret /\ DecryptPanics(kv[k]))
      /\ Finish(i, d, ~ Found(k))
      /\ UNCHANGED <<kv, query, next, result, closed, answer, status, others, panicked>>
  BY DEF DoGET, Runs, Alive
<1>2. i < next /\ Outcome' = Outcome \cup {Result(i, d, ~ Found(k))}
  BY DoGETIInv
<1>3. i \in Pending /\ Pending' = Pending \ {i}
  BY <1>1, <1>2, FinishPending
<1>4. Elements(answer)' = Elements(answer)
  BY <1>1 DEF Elements
<1>5. Requests!Perform(i, "GET", d, ~ Found(k))
  BY SameData, <1>1, <1>2, <1>3, <1>4 DEF Requests!Perform, Pending, Outcome
<1>6. ~ Requests!Halts(query[i])
  BY SameData, <1>1 DEF Requests!Halts, Found
<1> QED
  <2>1. Requests!Holds(kv, k) <=> Found(k)
    BY SameData DEF Found
  <2> DEFINE seen == IF Requests!Holds(kv, k) THEN kv[k] ELSE Requests!Nothing
             missing == ~ Requests!Holds(kv, k)
  <2>2. seen = d /\ missing = ~ Found(k)
    BY SameData, <2>1
  <2> HIDE DEF seen, missing
  <2>3. Requests!Perform(i, "GET", seen, missing)
    BY <1>5, <2>2 DEF Requests!Perform, Requests!Result
  <2>4. Requests!Get(i)
    BY <1>1, <1>6, <2>3 DEF Requests!Get, seen, missing
  <2> QED
    BY <2>4

(* A panic of decryptJSON is a read that halts the program.                *)
LEMMA GetHaltsStep ==
  ASSUME IInv, NEW i \in 1..MaxQuery, DoGETPanics(i)
  PROVE  Requests!GetHalts(i)
<1>1. /\ i \in Queries /\ work[i].pc = "run" /\ query[i].verb = "GET" /\ ~ panicked
      /\ Found(query[i].key) /\ query[i].secret /\ DecryptPanics(kv[query[i].key])
      /\ panicked' = TRUE
      /\ UNCHANGED <<kv, query, next, work, result, closed, answer, status, others>>
  BY DEF DoGETPanics, Runs, Alive
<1>2. i \in Pending /\ Pending' = Pending /\ Outcome' = Outcome
  BY <1>1 DEF Pending, Outcome, Queries, Elements
<1>3. Elements(answer)' = Elements(answer)
  BY <1>1 DEF Elements
<1> QED
  BY SameData, <1>1, <1>2, <1>3
     DEF Requests!GetHalts, Requests!Halts, Found, Pending, Outcome

(* A put takes its query from the pending ones, changes the store and      *)
(* leaves its result, in one step.                                         *)
LEMMA PutStep ==
  ASSUME IInv, NEW i \in 1..MaxQuery, DoPOST(i)
  PROVE  Requests!Put(i)
<1> DEFINE q == query[i]
           d == Plain(q.text)
           err == q.key \in Taken
<1>1. /\ i \in Queries /\ work[i].pc = "run" /\ q.verb = "PUT" /\ ~ panicked
      /\ kv' = IF q.key \in Taken THEN kv
               ELSE [kv EXCEPT ![q.key] = IF q.secret THEN SealString(q.text)
                                          ELSE Plain(q.text)]
      /\ Finish(i, d, err)
      /\ UNCHANGED <<query, next, result, closed, answer, status, others, panicked>>
  BY DEF DoPOST, PutResult, Runs, Alive
<1>2. i < next /\ Outcome' = Outcome \cup {Result(i, d, err)}
  BY DoPOSTIInv
<1>3. i \in Pending /\ Pending' = Pending \ {i}
  BY <1>1, <1>2, FinishPending
<1>4. Elements(answer)' = Elements(answer)
  BY <1>1 DEF Elements
<1>5. Requests!Perform(i, "PUT", d, err)
  BY SameData, <1>1, <1>2, <1>3, <1>4 DEF Requests!Perform, Pending, Outcome
<1>6. kv \in [Key -> Stored] /\ q.key \in Key
  BY <1>1, Numbers, QueryType DEF IInv, TypeOK
<1>7. kv' = [kv EXCEPT ![q.key] =
                CASE q.key \in Taken -> @
                  [] q.key \notin Taken /\ q.secret -> SealString(q.text)
                  [] q.key \notin Taken /\ ~ q.secret -> Plain(q.text)]
  BY <1>1, <1>6
<1> QED
  BY SameData, <1>5, <1>7 DEF Requests!Put

(* So does a delete.                                                       *)
LEMMA DeleteStep ==
  ASSUME IInv, NEW i \in 1..MaxQuery, DoDELETE(i)
  PROVE  Requests!Delete(i)
<1>1. /\ i \in Queries /\ work[i].pc = "run" /\ query[i].verb = "DELETE" /\ ~ panicked
      /\ kv' = [kv EXCEPT ![query[i].key] = Nothing]
      /\ Finish(i, Nothing, FALSE)
      /\ UNCHANGED <<query, next, result, closed, answer, status, others, panicked>>
  BY DEF DoDELETE, Runs, Alive
<1>2. i < next /\ Outcome' = Outcome \cup {Result(i, Nothing, FALSE)}
  BY DoDELETEIInv
<1>3. i \in Pending /\ Pending' = Pending \ {i}
  BY <1>1, <1>2, FinishPending
<1>4. Elements(answer)' = Elements(answer)
  BY <1>1 DEF Elements
<1>5. Requests!Perform(i, "DELETE", Nothing, FALSE)
  BY SameData, <1>1, <1>2, <1>3, <1>4 DEF Requests!Perform, Pending, Outcome
<1> QED
  BY SameData, <1>1, <1>5 DEF Requests!Delete

(* The handler refuses an unknown verb, and what else it starts is still   *)
(* to be performed.                                                        *)
LEMMA DispatchStep ==
  ASSUME IInv, Dispatch, NEW i \in 1..MaxQuery, i = next
  PROVE  Requests!Refuse(i) \/ UNCHANGED Requests!vars
<1>1. /\ ~ panicked /\ next \in Queries /\ next' = next + 1
      /\ UNCHANGED <<kv, query, closed, answer, status, others, panicked>>
  BY DEF Dispatch, Alive
<1>2. /\ Queries' = Queries /\ Queries \subseteq 1..MaxQuery
      /\ next \in Nat /\ \A j \in Queries : j \in Nat
      /\ work \in [1..MaxQuery -> [pc : {"none", "run"}]
                                     \cup [pc : {"send"}, result : Results]]
      /\ work[next].pc = "none"
  BY <1>1, Numbers DEF Queries, IInv, Shape
<1>3. Elements(answer)' = Elements(answer)
  BY <1>1 DEF Elements
<1>4. Pending' = {j \in Queries : j >= next + 1 \/ work'[j].pc = "run"}
  BY <1>1, <1>2 DEF Pending
<1>5. CASE query[next].verb = "other"
  <2>1. Outcome' = Outcome \cup {Result(next, Nothing, TRUE)} /\ UNCHANGED work
    BY <1>5, DispatchIInv DEF Dispatch
  <2>2. next \in Pending
    BY <1>1, <1>2 DEF Pending
  <2>3. \A j \in Queries : j >= next + 1 \/ work'[j].pc = "run" <=>
                           (j >= next \/ work[j].pc = "run") /\ j # next
    BY <1>2, <2>1
  <2>4. Pending' = Pending \ {next}
    BY <1>4, <2>3 DEF Pending
  <2> QED
    BY SameData, <1>1, <1>3, <1>5, <2>1, <2>2, <2>4
       DEF Requests!Refuse, Requests!Perform, Pending, Outcome
<1>6. CASE query[next].verb # "other"
  <2>1. Outcome' = Outcome /\ work' = [work EXCEPT ![next] = [pc |-> "run"]]
    BY <1>6, DispatchIInv DEF Dispatch
  <2>2. ASSUME NEW j \in Queries
        PROVE  j >= next + 1 \/ work'[j].pc = "run" <=>
               (j >= next \/ work[j].pc = "run")
    <3>1. CASE j = next
      <4>1. work'[next] = [pc |-> "run"]
        BY <1>1, <1>2, <2>1
      <4> QED
        BY <1>2, <3>1, <4>1
    <3>2. CASE j # next
      <4>1. work'[j] = work[j]
        BY <1>2, <2>1, <3>2
      <4>2. j >= next + 1 <=> j >= next
        BY <1>2, <3>2
      <4> QED
        BY <4>1, <4>2
    <3> QED
      BY <3>1, <3>2
  <2>3. Pending' = Pending
    BY <1>4, <2>2 DEF Pending
  <2> QED
    BY <1>1, <1>3, <2>1, <2>3 DEF Requests!vars, Pending, Outcome
<1> QED
  BY <1>5, <1>6

(* The response has the results, in the order in which they were drained.  *)
LEMMA RespondStep ==
  ASSUME IInv, Respond
  PROVE  Requests!Respond
<1>1. /\ ~ panicked /\ status = 0 /\ answer' = result
      /\ status' = IF \E j \in DOMAIN result : result[j].error THEN 400 ELSE 200
      /\ UNCHANGED <<kv, query, next, work, closed, others, panicked>>
  BY DEF Respond, RespondWith, Alive
<1>2. /\ next = Len(query) + 1 /\ Working = {} /\ Outcome' = Outcome
      /\ Outcome = Elements(result) /\ Elements(answer)' = Outcome
  BY RespondIInv
<1>3. Pending = {}
  BY <1>2, Numbers DEF Pending, Working, IInv
<1>4. Pending' = Pending
  BY <1>1 DEF Pending, Queries
<1>5. (\E r \in Outcome : r.error) <=> \E j \in DOMAIN result : result[j].error
  BY <1>2 DEF Elements
<1>6. status' = IF \E r \in Outcome : r.error THEN 400 ELSE 200
  BY <1>1, <1>5
<1> QED
  BY <1>1, <1>2, <1>3, <1>4, <1>6 DEF Requests!Respond, Pending, Outcome

(* What no one outside the handler can see.                                *)
LEMMA InternalStep ==
  ASSUME IInv, Close \/ (\E i \in 1..MaxQuery : Send(i)) \/ UNCHANGED vars
  PROVE  UNCHANGED Requests!vars
<1>1. UNCHANGED <<kv, query, next, answer, status, panicked>>
  BY DEF Close, CloseAt, Send, SendResult, vars
<1>2. Outcome' = Outcome
  <2>1. CASE UNCHANGED vars
    BY <2>1 DEF vars, Outcome, Queries, Elements
  <2> QED
    BY <2>1, CloseIInv, SendIInv
<1>3. \A j \in Queries : work'[j].pc = "run" <=> work[j].pc = "run"
  <2>1. CASE UNCHANGED work
    BY <2>1
  <2>2. ASSUME NEW i \in 1..MaxQuery, Send(i)
        PROVE  \A j \in Queries : work'[j].pc = "run" <=> work[j].pc = "run"
    BY <2>2, Numbers DEF Send, SendResult, IInv, Shape
  <2> QED
    BY <2>1, <2>2 DEF Close, CloseAt, vars
<1>4. Pending' = Pending
  BY <1>1, <1>3 DEF Pending, Queries
<1>5. Elements(answer)' = Elements(answer)
  BY <1>1 DEF Elements
<1> QED
  BY <1>1, <1>2, <1>4, <1>5 DEF Requests!vars, Pending, Outcome

(* Other clients write whenever they like.                                 *)
LEMMA OtherClientStep ==
  ASSUME IInv, OtherClient
  PROVE  Requests!OtherClient
<1>1. /\ UNCHANGED <<query, next, work, result, closed, answer, status, panicked>>
      /\ \E k \in Key \ Taken, d \in Written : kv' = [kv EXCEPT ![k] = d]
  BY DEF OtherClient
<1>2. Outcome' = Outcome /\ Pending' = Pending /\ Elements(answer)' = Elements(answer)
  BY <1>1 DEF Outcome, Pending, Queries, Elements
<1> QED
  BY SameData, <1>1, <1>2 DEF Requests!OtherClient, Pending, Outcome

(* Every step is a step of the batch or changes nothing in it.             *)
LEMMA NextBatch == IInv /\ [Next]_vars => [Requests!Next]_Requests!vars
<1> SUFFICES ASSUME IInv, [Next]_vars PROVE [Requests!Next]_Requests!vars
  OBVIOUS
<1>1. CASE UNCHANGED vars \/ Close \/ \E i \in 1..MaxQuery : Send(i)
  BY <1>1, InternalStep
<1>2. CASE Dispatch
  <2>1. PICK i \in 1..MaxQuery : i = next
    BY <1>2, Numbers DEF Dispatch, IInv
  <2>2. Requests!Refuse(i) \/ UNCHANGED Requests!vars
    BY <1>2, <2>1, DispatchStep
  <2> QED
    BY <2>2 DEF Requests!Next
<1>3. CASE Respond
  BY <1>3, RespondStep DEF Requests!Next
<1>4. CASE OtherClient
  BY <1>4, OtherClientStep DEF Requests!Next
<1>5. ASSUME NEW i \in 1..MaxQuery,
             DoGET(i) \/ DoGETPanics(i) \/ DoPOST(i) \/ DoDELETE(i)
      PROVE  Requests!Next
  BY <1>5, GetStep, GetHaltsStep, PutStep, DeleteStep DEF Requests!Next
<1> QED
  BY <1>1, <1>2, <1>3, <1>4, <1>5 DEF Next, Handler, Goroutine

(* The goroutines, the channel and the polling handler perform each query  *)
(* at one moment between request and response, once, and answer what it    *)
(* gave at that moment (api.go, multiQueryHandler).                        *)
THEOREM MultiQueryImplementsBatch == Spec => ImplementsBatch
BY InitBatch, Inductive, NextBatch, PTL DEF Spec, ImplementsBatch, Requests!Spec

=============================================================================
