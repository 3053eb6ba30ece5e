------------------------------ MODULE MultiQuery -----------------------------
(***************************************************************************)
(* POST /api/v1/query of api.go: one request with several queries.  The    *)
(* handler starts a goroutine for each, which works on the KV service and  *)
(* sends its result into a channel; the handler polls the length of the    *)
(* channel, closes it when all results are in, and answers.  Meanwhile     *)
(* other clients write the same keys with requests of their own.           *)
(***************************************************************************)
EXTENDS QueryData

VARIABLES
  kv,       (* kv[k]: the Data stored under k                              *)
  query,    (* the queries of the request                                  *)
  next,     (* the query the handler is to start                           *)
  work,     (* work[i]: where the goroutine of query i is                  *)
  result,   (* the channel of results                                      *)
  closed,   (* the channel is closed                                       *)
  answer,   (* the queries of the response                                 *)
  status,   (* 0 until the response is sent, then its HTTP status          *)
  others,   (* the number of writes of other clients                       *)
  panicked  (* a goroutine panicked, and the process ended                 *)

vars == <<kv, query, next, work, result, closed, answer, status, others, panicked>>

-----------------------------------------------------------------------------
(* The queries of the request, by their number.                            *)
Queries == DOMAIN query

Found(k) == Holds(kv, k)

-----------------------------------------------------------------------------
Init ==
  /\ kv \in Store
  /\ query \in UNION {[1..n -> Asked] : n \in 0..MaxQuery}
  /\ next = 1
  /\ work = [i \in 1..MaxQuery |-> [pc |-> "none"]]
  /\ result = <<>>
  /\ closed = FALSE
  /\ answer = <<>>
  /\ status = 0
  /\ others = 0
  /\ panicked = FALSE

Alive == ~ panicked

(* The loop over mq.Query; an unknown verb is answered by the handler.     *)
Dispatch ==
  /\ Alive /\ next \in Queries
  /\ IF query[next].verb = "other"
     THEN /\ Len(result) < Len(query)
          /\ result' = Append(result, Result(next, Nothing, TRUE))
          /\ UNCHANGED work
     ELSE /\ work' = [work EXCEPT ![next] = [pc |-> "run"]]
          /\ UNCHANGED result
  /\ next' = next + 1
  /\ UNCHANGED <<kv, query, closed, answer, status, others, panicked>>

(* The goroutine of query i has its result ready.                          *)
Finish(i, d, err) ==
  work' = [work EXCEPT ![i] = [pc |-> "send", result |-> Result(i, d, err)]]

Runs(i, verb) ==
  Alive /\ i \in Queries /\ work[i].pc = "run" /\ query[i].verb = verb

(* doGET returns what is stored; what it decrypts it overwrites.           *)
DoGET(i) ==
  /\ Runs(i, "GET")
  /\ LET k == query[i].key IN
       /\ ~ (Found(k) /\ query[i].secret /\ DecryptPanics(kv[k]))
       /\ Finish(i, IF Found(k) THEN kv[k] ELSE Nothing, ~ Found(k))
  /\ UNCHANGED <<kv, query, next, result, closed, answer, status, others, panicked>>

DoGETPanics(i) ==
  /\ Runs(i, "GET")
  /\ LET k == query[i].key IN
       Found(k) /\ query[i].secret /\ DecryptPanics(kv[k])
  /\ panicked' = TRUE
  /\ UNCHANGED <<kv, query, next, work, result, closed, answer, status, others>>

PutResult(i, err) ==
  /\ Runs(i, "PUT")
  /\ LET q == query[i] IN
       /\ kv' = IF q.key \in Taken THEN kv
                ELSE [kv EXCEPT ![q.key] = IF q.secret THEN SealString(q.text)
                                           ELSE Plain(q.text)]
       /\ Finish(i, Plain(q.text), err)
  /\ UNCHANGED <<query, next, result, closed, answer, status, others, panicked>>

(* The error of the put is not written into the result.                    *)
DoPOSTSilently(i) == PutResult(i, FALSE)

(* doPOST fails when the name of the key is that of a bucket.              *)
DoPOST(i) == PutResult(i, query[i].key \in Taken)

(* doDELETE: the error of the transaction is lost in DeleteKey.            *)
DoDELETE(i) ==
  /\ Runs(i, "DELETE")
  /\ kv' = [kv EXCEPT ![query[i].key] = Nothing]
  /\ Finish(i, Nothing, FALSE)
  /\ UNCHANGED <<query, next, result, closed, answer, status, others, panicked>>

SendResult(i, r) ==
  /\ Alive /\ i \in Queries /\ work[i].pc = "send"
  /\ ~ closed
  /\ Len(result) < Len(query)
  /\ result' = Append(result, r)
  /\ work' = [work EXCEPT ![i] = [pc |-> "none"]]
  /\ UNCHANGED <<kv, query, next, closed, answer, status, others, panicked>>

(* The goroutine captured the variable of the loop, and with it whatever   *)
(* query the loop has come to.                                             *)
SendCaptured(i) == SendResult(i, [work[i].result EXCEPT !.of = next - 1])

(* result <- q; the channel has room for as many results as queries.       *)
Send(i) == SendResult(i, work[i].result)

CloseAt(n) ==
  /\ Alive /\ next \notin Queries /\ ~ closed
  /\ Len(result) >= n
  /\ closed' = TRUE
  /\ UNCHANGED <<kv, query, next, work, result, answer, status, others, panicked>>

(* A poll that does not wait for the last result.                          *)
CloseEarly == CloseAt(Len(query) - 1)

(* A poll that waits for one result too many.                              *)
CloseNever == CloseAt(Len(query) + 1)

(* The polling loop; nobody takes results out before it ends.              *)
Close == CloseAt(Len(query))

RespondWith(bad) ==
  /\ Alive /\ closed /\ status = 0
  /\ answer' = result
  /\ result' = <<>>
  /\ status' = IF \E j \in DOMAIN result : result[j].error THEN bad ELSE 200
  /\ UNCHANGED <<kv, query, next, work, closed, others, panicked>>

(* Errors are answered as in the handlers of single keys.                  *)
Respond500 == RespondWith(500)

(* for r := range result, and the response.                                *)
Respond == RespondWith(400)

(* Another client's POST, as a secret or not, or DELETE.                   *)
OtherClient ==
  /\ Alive /\ others < MaxOther
  /\ others' = others + 1
  /\ \E k \in Key \ Taken, d \in Written : kv' = [kv EXCEPT ![k] = d]
  /\ UNCHANGED <<query, next, work, result, closed, answer, status, panicked>>

-----------------------------------------------------------------------------
Goroutine(i) ==
  DoGET(i) \/ DoGETPanics(i) \/ DoPOST(i) \/ DoDELETE(i) \/ Send(i)

Handler == Dispatch \/ Close \/ Respond

Next == Handler \/ OtherClient \/ \E i \in 1..MaxQuery : Goroutine(i)

Spec == Init /\ [][Next]_vars

(* The handler and the goroutines it started are scheduled.                *)
FairSpec ==
  Spec /\ WF_vars(Handler) /\ \A i \in 1..MaxQuery : WF_vars(Goroutine(i))

-----------------------------------------------------------------------------
TypeOK ==
  /\ kv \in [Key -> Stored]
  /\ query \in Seq(Query) /\ Len(query) <= MaxQuery
  /\ next \in 1..(Len(query) + 1)
  /\ \A i \in 1..MaxQuery :
       work[i] \in [pc : {"none", "run"}] \cup [pc : {"send"}, result : Results]
  /\ result \in Seq(Results)
  /\ closed \in BOOLEAN
  /\ answer \in Seq(Results)
  /\ status \in {0, 200, 400}
  /\ others \in 0..MaxOther
  /\ panicked \in BOOLEAN

(* The goroutines never send on a closed channel, which would end the      *)
(* process: closing it by its length is safe in spite of the race with     *)
(* those that send.                                                        *)
ClosedIsQuiet ==
  closed => \A i \in 1..MaxQuery : work[i].pc = "none"

(* The response names each query exactly once, in whatever order.          *)
OneResultEach ==
  status # 0 =>
    /\ Len(answer) = Len(query)
    /\ \A i \in Queries : \E j \in DOMAIN answer : answer[j].of = i

(* What a query has put is never lost without the status telling: after    *)
(* status 200, a key that no one else could have written holds what some   *)
(* PUT or DELETE of the request left there.                                *)
OKMeansStored ==
  status = 200 /\ others = 0 =>
    \A i \in Queries : query[i].verb = "PUT" =>
      \E j \in Queries :
        /\ query[j].key = query[i].key
        /\ \/ query[j].verb = "PUT" /\ query[j].key \notin Taken
              /\ kv[query[j].key].text = query[j].text
           \/ query[j].verb = "DELETE" /\ kv[query[j].key] = Nothing

(* The promise of a request with several queries, whatever the goroutines  *)
(* and other clients do in between: each query is performed at one moment  *)
(* between request and response, once, and what the response says of it is *)
(* what the database held or did at that moment (api.go, multiQueryHandler *)
(* and doGET, doPOST, doDELETE).                                           *)
Elements(seq) == {seq[j] : j \in DOMAIN seq}

Requests == INSTANCE Batch WITH
  pending <- {i \in Queries : i >= next \/ work[i].pc = "run"},
  outcome <- {work[i].result : i \in {j \in Queries : work[j].pc = "send"}}
               \cup Elements(result) \cup Elements(answer),
  response <- Elements(answer),
  halted <- panicked

ImplementsBatch == Requests!Spec

(* The request is answered, unless a panic ended the process: no result    *)
(* waits for room in the channel while the handler waits for results.      *)
Responds == <>(status # 0 \/ panicked)

-----------------------------------------------------------------------------
(* README.md: with secret=true a secret is encrypted and decrypted.  So    *)
(* whatever was stored as a secret can be opened by a later GET.           *)
SecretsOpen ==
  \A k \in Key : kv[k].form # "plain" => Opens(kv[k])

(* And a query that reads a secret gets its text.                          *)
SecretsRead ==
  \A j \in DOMAIN answer :
    LET q == query[answer[j].of] IN
      q.verb = "GET" /\ q.secret /\ ~ answer[j].error =>
        answer[j].data.form = "plain"
=============================================================================
