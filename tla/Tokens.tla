-------------------------------- MODULE Tokens -------------------------------
(***************************************************************************)
(* The token stores of a cluster: token.go, and NewPlugins of plugins.go,  *)
(* the one caller of Issue.                                                *)
(*                                                                         *)
(* main issues one token per plugin: it puts the token into the store and  *)
(* then sends the WHOLE store to the peers.  Beside it the loop of         *)
(* TokenStore.Start takes such messages from a channel, each of which      *)
(* replaces the whole store, and now and then deletes the tokens that are  *)
(* out of their time.                                                      *)
(***************************************************************************)
EXTENDS Integers, Sequences

CONSTANTS
  Node,
  Issuer,      (* the nodes with plugins                                   *)
  Skew,        (* Skew[n]: how far the clock of n is ahead                 *)
  Plugins,     (* the number of plugins on an issuer                       *)
  Life,        (* how long a token lives: 87600 hours                      *)
  SweepEvery,  (* the rounds of the loop between two sweeps: 100           *)
  MaxTime      (* bound on the time                                        *)

ASSUME TokensAssumption ==
  /\ Issuer \subseteq Node
  /\ Skew \in [Node -> Nat]
  /\ Plugins \in Nat
  /\ Life \in Nat \ {0}
  /\ SweepEvery \in Nat \ {0}
  /\ MaxTime \in Nat

VARIABLES
  main,    (* main[n]: where NewPlugins is on n                            *)
  issued,  (* issued[n]: the number of tokens issued on n                  *)
  born,    (* born[t]: the IssueTime of token t                            *)
  store,   (* store[n]: the keys of TokenStore.store                       *)
  del,     (* del[n]: the tokens a sweep has yet to delete                 *)
  idx,     (* idx[n]: the rounds of the loop since the last sweep          *)
  queue,   (* queue[n]: the channel of token messages                      *)
  net,     (* messages sent and not yet received                           *)
  peers,   (* peers[n]: Cluster.peers                                      *)
  now      (* the true time                                                *)

vars == <<main, issued, born, store, del, idx, queue, net, peers, now>>

-----------------------------------------------------------------------------
(* Tokens are UUIDs: no two nodes, and no two calls of a node, share one.  *)
Token == Issuer \X (1..Plugins)

Message == [from : Issuer, to : Node, epoch : 1..Plugins, tokens : SUBSET Token]

Clock(n) == now + Skew[n]
IssueTime(t) == born[t]
ExpireTime(t) == born[t] + Life

(* The time checks of Validate.                                            *)
InTime(n, t) == Clock(n) >= IssueTime(t) /\ Clock(n) < ExpireTime(t)

(* The time checks of the sweep; the same with the expiry left out.        *)
Outdated(n, t) == Clock(n) <= IssueTime(t) \/ Clock(n) > ExpireTime(t)
Unborn(n, t) == Clock(n) <= IssueTime(t)

Issued(n) == {t \in Token : t[1] = n /\ t[2] <= issued[n]}

Running(n) == main[n] \in {"issue", "emit", "done"}

-----------------------------------------------------------------------------
Init ==
  /\ main = [n \in Node |-> "boot"]
  /\ issued = [n \in Node |-> 0]
  /\ born = [t \in Token |-> 0]
  /\ store = [n \in Node |-> {}]
  /\ del = [n \in Node |-> {}]
  /\ idx = [n \in Node |-> 0]
  /\ queue = [n \in Node |-> <<>>]
  /\ net = {}
  /\ peers = [n \in Node |-> {}]
  /\ now = 0

Tick ==
  /\ now < MaxTime
  /\ now' = now + 1
  /\ UNCHANGED <<main, issued, born, store, del, idx, queue, net, peers>>

(* NewTokenStore; the channel of messages is older than the store.         *)
NewTokenStore(n) ==
  /\ main[n] = "boot"
  /\ main' = [main EXCEPT ![n] = IF n \in Issuer THEN "issue" ELSE "done"]
  /\ UNCHANGED <<issued, born, store, del, idx, queue, net, peers, now>>

(* The first half of Issue: the token is in the store, the lock is free.   *)
(* The model's time ends only after the last token was issued.             *)
Issue(n) ==
  /\ main[n] = "issue"
  /\ issued[n] < Plugins
  /\ now < MaxTime
  /\ LET t == <<n, issued[n] + 1>> IN
       /\ born' = [born EXCEPT ![t] = Clock(n)]
       /\ store' = [store EXCEPT ![n] = @ \cup {t}]
  /\ issued' = [issued EXCEPT ![n] = @ + 1]
  /\ main' = [main EXCEPT ![n] = "emit"]
  /\ UNCHANGED <<del, idx, queue, net, peers, now>>

EmitTo(n, tokens) ==
  /\ main[n] = "emit"
  /\ net' = net \cup {[from |-> n, to |-> p, epoch |-> issued[n],
                       tokens |-> tokens] : p \in peers[n]}
  /\ main' = [main EXCEPT ![n] = IF issued[n] < Plugins THEN "issue" ELSE "done"]
  /\ UNCHANGED <<issued, born, store, del, idx, queue, peers, now>>

(* Only the token just issued is sent.                                     *)
EmitNewest(n) == EmitTo(n, {<<n, issued[n]>>})

(* The second half of Issue: what the store holds by now goes to the peers.*)
Emit(n) == EmitTo(n, store[n])

-----------------------------------------------------------------------------
(* The peers the cluster has found, the node itself never among them.      *)
Discover(n) ==
  /\ main[n] # "dead"
  /\ \E p \in Node \ ({n} \cup peers[n]) :
       peers' = [peers EXCEPT ![n] = @ \cup {p}]
  /\ UNCHANGED <<main, issued, born, store, del, idx, queue, net, now>>

(* The message handler puts the message into the channel, whose 4096 slots *)
(* are more than all tokens the nodes ever issue.                          *)
Receive(n) ==
  /\ main[n] # "dead"
  /\ \E m \in net :
       /\ m.to = n
       /\ net' = net \ {m}
       /\ queue' = [queue EXCEPT ![n] = Append(@, m.tokens)]
  /\ UNCHANGED <<main, issued, born, store, del, idx, peers, now>>

(* A send fails, or its five seconds are over.                             *)
Lose ==
  /\ \E m \in net : net' = net \ {m}
  /\ UNCHANGED <<main, issued, born, store, del, idx, queue, peers, now>>

-----------------------------------------------------------------------------
Replace(n) ==
  /\ Running(n)
  /\ queue[n] # <<>>
  /\ store' = [store EXCEPT ![n] = Head(queue[n])]
  /\ queue' = [queue EXCEPT ![n] = Tail(@)]
  /\ idx' = [idx EXCEPT ![n] = (@ + 1) % SweepEvery]
  /\ UNCHANGED <<main, issued, born, del, net, peers, now>>

(* Messages are handled beside the sweep.                                  *)
HandleUpdateAnytime(n) == Replace(n)

(* A round of the loop that finds a message, whatever its number.          *)
HandleUpdate(n) == del[n] = {} /\ Replace(n)

Wait(n) ==
  /\ Running(n) /\ del[n] = {} /\ queue[n] = <<>>
  /\ idx' = [idx EXCEPT ![n] = @ + 1]
  /\ UNCHANGED <<main, issued, born, store, del, queue, net, peers, now>>

(* The hundredth round finds nothing to do either.                         *)
IdleAlways(n) == Wait(n)

(* A round that finds no message and is not the hundredth.                 *)
Idle(n) == idx[n] + 1 < SweepEvery /\ Wait(n)

(* A clock never shows a process the same instant twice: what n issued, it *)
(* issued earlier.                                                         *)
SweepWith(n, late) ==
  /\ Running(n) /\ del[n] = {} /\ queue[n] = <<>>
  /\ idx[n] + 1 = SweepEvery
  /\ \A t \in Issued(n) : IssueTime(t) < Clock(n)
  /\ idx' = [idx EXCEPT ![n] = 0]
  /\ del' = [del EXCEPT ![n] = late]
  /\ UNCHANGED <<main, issued, born, store, queue, net, peers, now>>

(* The sweep never looks at ExpireTime.                                    *)
SweepUnborn(n) == SweepWith(n, {t \in store[n] : Unborn(n, t)})

(* The sweep takes what Validate would still accept.                       *)
SweepInTime(n) == SweepWith(n, {t \in store[n] : InTime(n, t)})

(* The hundredth round lists what is out of its time ...                   *)
Sweep(n) == SweepWith(n, {t \in store[n] : Outdated(n, t)})

(* ... and deletes it, token by token, which no peer is told of.           *)
Delete(n) ==
  /\ Running(n)
  /\ \E t \in del[n] :
       /\ store' = [store EXCEPT ![n] = @ \ {t}]
       /\ del' = [del EXCEPT ![n] = @ \ {t}]
  /\ UNCHANGED <<main, issued, born, idx, queue, net, peers, now>>

(* A goroutine of the loop ranges over the store without the lock.  When   *)
(* main or the sweep writes to the map meanwhile, the runtime may end the  *)
(* process.                                                                *)
ConcurrentMapWrite(n) ==
  /\ \/ main[n] = "issue" /\ issued[n] < Plugins
     \/ Running(n) /\ del[n] # {}
  /\ main' = [main EXCEPT ![n] = "dead"]
  /\ store' = [store EXCEPT ![n] = {}]
  /\ del' = [del EXCEPT ![n] = {}]
  /\ queue' = [queue EXCEPT ![n] = <<>>]
  /\ UNCHANGED <<issued, born, idx, net, peers, now>>

-----------------------------------------------------------------------------
Main(n) == NewTokenStore(n) \/ Issue(n) \/ Emit(n)
Round(n) == HandleUpdate(n) \/ Idle(n) \/ Sweep(n) \/ Delete(n)

Next ==
  \/ Tick
  \/ Lose
  \/ \E n \in Node :
       Main(n) \/ Round(n) \/ Discover(n) \/ Receive(n) \/ ConcurrentMapWrite(n)

Spec == Init /\ [][Next]_vars

(* Time passes, main and the loop run, and a message arrives or is lost.   *)
FairSpec ==
  /\ Spec
  /\ WF_vars(Tick)
  /\ \A n \in Node :
       WF_vars(Main(n)) /\ WF_vars(Round(n)) /\ WF_vars(Receive(n))

-----------------------------------------------------------------------------
TypeOK ==
  /\ main \in [Node -> {"boot", "issue", "emit", "done", "dead"}]
  /\ issued \in [Node -> 0..Plugins]
  /\ born \in [Token -> Nat]
  /\ store \in [Node -> SUBSET Token]
  /\ del \in [Node -> SUBSET Token]
  /\ idx \in [Node -> 0..(SweepEvery - 1)]
  /\ queue \in [Node -> Seq(SUBSET Token)]
  /\ net \subseteq Message
  /\ peers \in [Node -> SUBSET Node]
  /\ now \in 0..MaxTime

(* While one node issues tokens, its own store never lacks one that is in  *)
(* its time: no stale copy of the store comes back to replace it.          *)
OwnTokensKept ==
  \A n \in Issuer : Running(n) =>
    \A t \in Issued(n) : InTime(n, t) => t \in store[n]

(* While one node issues tokens, no store has a gap: whatever order the    *)
(* copies arrive in and however the clocks differ, with a token come the   *)
(* older ones still in their time by the clocks of both nodes.  A node     *)
(* behind the issuer takes tokens for unborn and drops them, but then the  *)
(* younger ones as well.  What a sweep has yet to delete does not count.   *)
NoGaps ==
  \A n, i \in Node : Running(n) =>
    \A t \in store[n] \ del[n], u \in Issued(i) :
      t[1] = i /\ u[2] < t[2] /\ InTime(n, u) /\ InTime(i, u)
        => u \in store[n] \ del[n]

(* What a sweep has listed stays in the store until the sweep deletes it,  *)
(* so Delete never finds its token missing, the case in which it would     *)
(* send the store to the peers and report an error.                        *)
DeleteFindsToken == \A n \in Node : del[n] \subseteq store[n]

(* Expired tokens leave every store for good, although peers may send them *)
(* again until they have dropped them as well.                             *)
ExpiredGone ==
  \A n \in Node :
    <>[](\A t \in store[n] : Clock(n) <= ExpireTime(t))
=============================================================================
