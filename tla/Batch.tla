-------------------------------- MODULE Batch --------------------------------
(***************************************************************************)
(* What POST /api/v1/query promises: the queries of the request are        *)
(* performed in some order, each at one moment and once, among the         *)
(* requests of other clients; when all have been performed, the response   *)
(* says what each of them gave.                                            *)
(***************************************************************************)
EXTENDS QueryData

VARIABLES
  kv,        (* kv[k]: the Data stored under k                             *)
  query,     (* the queries of the request                                 *)
  pending,   (* those not yet performed                                    *)
  outcome,   (* what the others gave                                       *)
  response,  (* the results in the response                                *)
  status,    (* 0 until the response is sent, then its HTTP status         *)
  halted     (* the process ended                                          *)

vars == <<kv, query, pending, outcome, response, status, halted>>

Init ==
  /\ kv \in Store
  /\ query \in UNION {[1..n -> Asked] : n \in 0..MaxQuery}
  /\ pending = DOMAIN query
  /\ outcome = {}
  /\ response = {}
  /\ status = 0
  /\ halted = FALSE

Perform(i, verb, d, err) ==
  /\ ~ halted /\ i \in pending /\ query[i].verb = verb
  /\ pending' = pending \ {i}
  /\ outcome' = outcome \cup {Result(i, d, err)}
  /\ UNCHANGED <<query, response, status, halted>>

(* To read data that is no secret as a secret ends the process.            *)
Halts(q) == q.secret /\ Holds(kv, q.key) /\ DecryptPanics(kv[q.key])

(* A secret is returned as it is stored.                                   *)
Get(i) ==
  LET k == query[i].key IN
    /\ Perform(i, "GET", IF Holds(kv, k) THEN kv[k] ELSE Nothing, ~ Holds(kv, k))
    /\ ~ Halts(query[i])
    /\ UNCHANGED kv

GetHalts(i) ==
  /\ ~ halted /\ i \in pending
  /\ query[i].verb = "GET" /\ Halts(query[i])
  /\ halted' = TRUE
  /\ UNCHANGED <<kv, query, pending, outcome, response, status>>

Put(i) ==
  LET q == query[i] IN
    /\ Perform(i, "PUT", Plain(q.text), q.key \in Taken)
    /\ kv' = [kv EXCEPT ![q.key] =
                 CASE q.key \in Taken -> @
                   [] q.key \notin Taken /\ q.secret -> SealString(q.text)
                   [] q.key \notin Taken /\ ~ q.secret -> Plain(q.text)]

Delete(i) ==
  /\ Perform(i, "DELETE", Nothing, FALSE)
  /\ kv' = [kv EXCEPT ![query[i].key] = Nothing]

Refuse(i) == Perform(i, "other", Nothing, TRUE) /\ UNCHANGED kv

Respond ==
  /\ ~ halted /\ pending = {} /\ status = 0
  /\ response' = outcome
  /\ status' = IF \E r \in outcome : r.error THEN 400 ELSE 200
  /\ UNCHANGED <<kv, query, pending, outcome, halted>>

OtherClient ==
  /\ \E k \in Key \ Taken, d \in Written : kv' = [kv EXCEPT ![k] = d]
  /\ UNCHANGED <<query, pending, outcome, response, status, halted>>

Next ==
  \/ \E i \in 1..MaxQuery : Get(i) \/ GetHalts(i) \/ Put(i) \/ Delete(i) \/ Refuse(i)
  \/ Respond \/ OtherClient

Spec == Init /\ [][Next]_vars

=============================================================================
