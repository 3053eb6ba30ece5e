------------------------------- MODULE QueryData ------------------------------
(***************************************************************************)
(* What clients store and what they ask for in a request with several      *)
(* queries: the texts of api.go and crypto.go and the QueryObject.         *)
(***************************************************************************)
EXTENDS Naturals, Sequences

CONSTANTS
  Key,
  Taken,     (* the keys whose names are those of buckets                  *)
  Text,      (* what clients store                                         *)
  Empty,     (* the empty text                                             *)
  Asked,     (* the queries a request is made of                           *)
  MaxQuery,  (* bound on the queries of the request                        *)
  MaxOther   (* bound on the writes of other clients                       *)

ASSUME MultiQueryAssumption ==
  /\ Taken \subseteq Key
  /\ Empty \in Text
  /\ MaxQuery \in Nat
  /\ MaxOther \in Nat

-----------------------------------------------------------------------------
(* Data is a text as it came, or sealed by encrytJSON, which was given the *)
(* text as bytes (kvPutHandler) or as a string (doPOST).                   *)
Stored == [text : Text, form : {"plain", "sealed bytes", "sealed string"}]
Nothing == [text |-> Empty, form |-> "plain"]

Plain(x) == [text |-> x, form |-> "plain"]
SealBytes(x) == [text |-> x, form |-> "sealed bytes"]
SealString(x) == [text |-> x, form |-> "sealed string"]

(* decryptJSON expects bytes, written in base 64, and has an error for     *)
(* other strings; data that is not a secret it slices out of range.  Of    *)
(* the texts only the empty one reads as base 64.                          *)
Opens(d) == d.form = "sealed bytes" \/ d = SealString(Empty)
DecryptPanics(d) == d.form = "plain"

(* Every key that is missing or holds the empty text is answered alike.    *)
Holds(store, k) == k \notin Taken /\ store[k] # Nothing

Query ==
  [verb : {"GET"}, key : Key, text : {Empty}, secret : BOOLEAN]
    \cup [verb : {"PUT"}, key : Key, text : Text, secret : BOOLEAN]
    \cup [verb : {"DELETE"}, key : Key, text : {Empty}, secret : {FALSE}]
    \cup [verb : {"other"}, key : {CHOOSE k \in Key : TRUE}, text : {Empty},
          secret : {FALSE}]

ASSUME AskedAssumption == Asked \subseteq Query

(* What is sent back for query i.                                          *)
Result(i, d, err) == [of |-> i, data |-> d, error |-> err]
Results == [of : 1..MaxQuery, data : Stored, error : BOOLEAN]

(* What a client's single POST or DELETE leaves under a key.               *)
Written == {Plain(x) : x \in Text} \cup {SealBytes(x) : x \in Text}

(* What the database can hold when a request comes in.                     *)
Store ==
  {store \in [Key -> Written] : \A k \in Taken : store[k] = Nothing}

=============================================================================
