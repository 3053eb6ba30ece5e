---------------------------- MODULE TokensProofs ----------------------------
(***************************************************************************)
(* What holds of the token stores for any number of nodes and plugins and  *)
(* any clocks: a sweep finds what it has listed, and a node that alone     *)
(* issues tokens keeps them.                                               *)
(***************************************************************************)
EXTENDS Tokens, SequenceTheorems, TLAPS

(* Beyond the types: the counter of a node that has yet to start is zero,  *)
(* and there is something to send when a token has been issued.            *)
Counted ==
  \A n \in Node : /\ main[n] = "boot" => issued[n] = 0
                  /\ main[n] = "emit" => issued[n] \in 1..Plugins
                  /\ main[n] \in {"issue", "emit"} => n \in Issuer

IInv == TypeOK /\ Counted /\ DeleteFindsToken

-----------------------------------------------------------------------------
(* A clock shows a natural number.                                         *)
LEMMA ClockType == ASSUME TypeOK, NEW n \in Node PROVE Clock(n) \in Nat
  BY TokensAssumption DEF TypeOK, Clock

(* At the start there are no tokens, and no one has listed any.            *)
LEMMA InitIInv == Init => IInv
<1> SUFFICES ASSUME Init PROVE IInv
  OBVIOUS
<1>1. TypeOK
  BY TokensAssumption DEF Init, TypeOK
<1> QED
  BY <1>1 DEF Init, IInv, Counted, DeleteFindsToken

(* main: only Issue writes to the store, and it takes nothing away.        *)
LEMMA MainIInv == ASSUME IInv, NEW n \in Node, Main(n) PROVE IInv'
<1> USE TokensAssumption DEF IInv
<1>1. CASE NewTokenStore(n)
  <2>1. TypeOK'
    BY <1>1 DEF NewTokenStore, TypeOK
  <2> QED
    BY <1>1, <2>1 DEF NewTokenStore, TypeOK, Counted, DeleteFindsToken
<1>2. CASE Issue(n)
  <2> DEFINE t == <<n, issued[n] + 1>>
  <2>1. t \in Token
    BY <1>2 DEF Issue, TypeOK, Counted, Token
  <2>2. Clock(n) \in Nat
    BY ClockType
  <2>3. TypeOK'
    <3>1. born' \in [Token -> Nat]
      BY <1>2, <2>1, <2>2 DEF Issue, TypeOK
    <3>2. store' \in [Node -> SUBSET Token]
      BY <1>2, <2>1 DEF Issue, TypeOK
    <3>3. /\ issued' \in [Node -> 0..Plugins]
          /\ main' \in [Node -> {"boot", "issue", "emit", "done", "dead"}]
      BY <1>2 DEF Issue, TypeOK
    <3> QED
      BY <1>2, <3>1, <3>2, <3>3 DEF Issue, TypeOK
  <2>4. Counted'
    BY <1>2 DEF Issue, TypeOK, Counted
  <2>5. DeleteFindsToken'
    BY <1>2 DEF Issue, TypeOK, DeleteFindsToken
  <2> QED
    BY <2>3, <2>4, <2>5
<1>3. CASE Emit(n)
  <2>1. ASSUME NEW p \in peers[n]
        PROVE  [from |-> n, to |-> p, epoch |-> issued[n], tokens |-> store[n]]
                 \in Message
    BY <1>3, <2>1 DEF Emit, EmitTo, TypeOK, Counted, Message
  <2>2. net' \subseteq Message
    BY <1>3, <2>1 DEF Emit, EmitTo, TypeOK
  <2>3. TypeOK'
    BY <1>3, <2>2 DEF Emit, EmitTo, TypeOK
  <2>4. Counted'
    BY <1>3 DEF Emit, EmitTo, TypeOK, Counted
  <2>5. DeleteFindsToken'
    BY <1>3 DEF Emit, EmitTo, DeleteFindsToken
  <2> QED
    BY <2>3, <2>4, <2>5
<1> QED
  BY <1>1, <1>2, <1>3 DEF Main

(* The loop: a message replaces the store only when no sweep is under way. *)
LEMMA RoundIInv == ASSUME IInv, NEW n \in Node, Round(n) PROVE IInv'
<1> USE TokensAssumption DEF IInv
<1>1. CASE HandleUpdate(n)
  <2>1. queue[n] \in Seq(SUBSET Token) /\ queue[n] # <<>>
    BY <1>1 DEF HandleUpdate, Replace, TypeOK
  <2>2. Head(queue[n]) \in SUBSET Token /\ Tail(queue[n]) \in Seq(SUBSET Token)
    BY <2>1, HeadTailProperties
  <2>3. (idx[n] + 1) % SweepEvery \in 0..(SweepEvery - 1)
    BY DEF TypeOK
  <2>4. TypeOK'
    BY <1>1, <2>2, <2>3 DEF HandleUpdate, Replace, TypeOK
  <2>5. DeleteFindsToken'
    BY <1>1 DEF HandleUpdate, Replace, TypeOK, DeleteFindsToken
  <2> QED
    BY <1>1, <2>4, <2>5 DEF HandleUpdate, Replace, Counted
<1>2. CASE Idle(n)
  <2>1. TypeOK'
    BY <1>2 DEF Idle, Wait, TypeOK
  <2> QED
    BY <1>2, <2>1 DEF Idle, Wait, Counted, DeleteFindsToken
<1>3. CASE Sweep(n)
  <2>1. TypeOK'
    BY <1>3 DEF Sweep, SweepWith, TypeOK
  <2>2. DeleteFindsToken'
    BY <1>3 DEF Sweep, SweepWith, TypeOK, DeleteFindsToken
  <2> QED
    BY <1>3, <2>1, <2>2 DEF Sweep, SweepWith, Counted
<1>4. CASE Delete(n)
  <2>1. TypeOK'
    BY <1>4 DEF Delete, TypeOK
  <2>2. DeleteFindsToken'
    BY <1>4 DEF Delete, TypeOK, DeleteFindsToken
  <2> QED
    BY <1>4, <2>1, <2>2 DEF Delete, Counted
<1> QED
  BY <1>1, <1>2, <1>3, <1>4 DEF Round

(* Time and lost messages change no store.                                 *)
LEMMA TimeIInv == ASSUME IInv, Tick \/ Lose PROVE IInv'
<1> USE TokensAssumption DEF IInv
<1>1. CASE Tick
  <2>1. TypeOK'
    BY <1>1 DEF Tick, TypeOK
  <2> QED
    BY <1>1, <2>1 DEF Tick, Counted, DeleteFindsToken
<1>2. CASE Lose
  <2>1. TypeOK'
    BY <1>2 DEF Lose, TypeOK
  <2> QED
    BY <1>2, <2>1 DEF Lose, Counted, DeleteFindsToken
<1> QED
  BY <1>1, <1>2

(* Everything else leaves the stores and lists alone, or ends a process.   *)
LEMMA OtherIInv ==
  ASSUME IInv, NEW n \in Node,
         Discover(n) \/ Receive(n) \/ ConcurrentMapWrite(n)
  PROVE  IInv'
<1> USE TokensAssumption DEF IInv
<1>3. CASE Discover(n)
  <2>1. TypeOK'
    BY <1>3 DEF Discover, TypeOK
  <2> QED
    BY <1>3, <2>1 DEF Discover, Counted, DeleteFindsToken
<1>4. CASE Receive(n)
  <2>1. PICK m \in net : /\ m.to = n
                         /\ net' = net \ {m}
                         /\ queue' = [queue EXCEPT ![n] = Append(@, m.tokens)]
    BY <1>4 DEF Receive
  <2>2. m.tokens \in SUBSET Token
    BY <2>1 DEF TypeOK, Message
  <2>3. Append(queue[n], m.tokens) \in Seq(SUBSET Token)
    BY <2>2, AppendProperties DEF TypeOK
  <2>4. TypeOK'
    BY <1>4, <2>1, <2>3 DEF Receive, TypeOK
  <2> QED
    BY <1>4, <2>4 DEF Receive, Counted, DeleteFindsToken
<1>5. CASE ConcurrentMapWrite(n)
  <2>1. TypeOK'
    BY <1>5 DEF ConcurrentMapWrite, TypeOK
  <2>2. DeleteFindsToken'
    BY <1>5 DEF ConcurrentMapWrite, TypeOK, DeleteFindsToken
  <2> QED
    BY <1>5, <2>1, <2>2 DEF ConcurrentMapWrite, TypeOK, Counted
<1> QED
  BY <1>3, <1>4, <1>5

(* The invariant is inductive.                                             *)
LEMMA NextIInv == IInv /\ [Next]_vars => IInv'
<1> SUFFICES ASSUME IInv, [Next]_vars PROVE IInv'
  OBVIOUS
<1>1. CASE Tick \/ Lose
  BY <1>1, TimeIInv
<1>2. ASSUME NEW n \in Node,
             \/ Main(n) \/ Round(n)
             \/ Discover(n) \/ Receive(n) \/ ConcurrentMapWrite(n)
      PROVE  IInv'
  BY <1>2, MainIInv, RoundIInv, OtherIInv
<1>3. CASE UNCHANGED vars
  BY <1>3 DEF vars, IInv, TypeOK, Counted, DeleteFindsToken
<1> QED
  BY <1>1, <1>2, <1>3 DEF Next
-----------------------------------------------------------------------------
(* The strengthened invariant holds in every reachable state.              *)
THEOREM Invariance == Spec => []IInv
<1>1. Init => IInv
  BY InitIInv
<1>2. IInv /\ [Next]_vars => IInv'
  BY NextIInv
<1> QED
  BY <1>1, <1>2, PTL DEF Spec

(* What stores, messages and the lists of sweeps hold are tokens of the    *)
(* nodes with plugins, only those nodes send, and a round of the loop      *)
(* never skips the sweep (token.go, Issue and Start).                      *)
THEOREM TypeCorrect == Spec => []TypeOK
<1>1. IInv => TypeOK
  BY DEF IInv
<1> QED
  BY <1>1, Invariance, PTL

(* A sweep of TokenStore.Start never asks Delete for a token that is gone, *)
(* so Delete never reports that one does not exist.                        *)
THEOREM DeleteAlwaysFinds == Spec => []DeleteFindsToken
<1>1. IInv => DeleteFindsToken
  BY DEF IInv
<1> QED
  BY <1>1, Invariance, PTL

-----------------------------------------------------------------------------
(* Why a sole issuer i keeps its tokens: no message ever comes for it, and *)
(* a sweep lists only tokens that are expired and stay so.                 *)
Kept(i) ==
  /\ i \notin peers[i]
  /\ queue[i] = <<>>
  /\ \A m \in net : m.to # i
  /\ store[i] \subseteq Issued(i)
  /\ \A t \in Issued(i) : IssueTime(t) <= Clock(i)
  /\ \A t \in del[i] : Clock(i) > ExpireTime(t)
  /\ Running(i) =>
       \A t \in Issued(i) : t \in store[i] \/ Clock(i) > ExpireTime(t)

(* At the start nothing has been issued.                                   *)
LEMMA InitKept == ASSUME NEW i \in Node, Init PROVE Kept(i)
<1>1. Issued(i) = {}
  BY DEF Init, Issued, Token
<1> QED
  BY <1>1 DEF Init, Kept, Running

(* Tokens are numbered, and a new one gets the next number.                *)
LEMMA IssuedGrows ==
  ASSUME IInv, NEW i \in Node, Issue(i)
  PROVE  /\ <<i, issued[i] + 1>> \in Token
         /\ Issued(i)' = Issued(i) \cup {<<i, issued[i] + 1>>}
         /\ <<i, issued[i] + 1>> \notin Issued(i)
<1>1. /\ issued[i] \in 0..Plugins
      /\ issued[i] + 1 \in 1..Plugins
      /\ i \in Issuer
      /\ issued'[i] = issued[i] + 1
  BY TokensAssumption DEF Issue, IInv, TypeOK, Counted
<1>2. ASSUME NEW t \in Token
      PROVE  /\ t = <<t[1], t[2]>>
             /\ t[2] \in 1..Plugins
  BY DEF Token
<1> QED
  BY <1>1, <1>2, TokensAssumption DEF Issued, Token

(* main of the issuer: Issue adds to the store, Emit reads it.             *)
LEMMA MainKept ==
  ASSUME IInv, NEW i \in Node, Issuer = {i}, Kept(i), NEW n \in Node, Main(n)
  PROVE  Kept(i)'
<1> USE DEF IInv
<1>1. CASE NewTokenStore(n)
  <2>1. Issued(i)' = Issued(i)
    BY <1>1 DEF NewTokenStore, Issued
  <2>2. CASE n = i
    <3>1. Issued(i) = {}
      BY <1>1, <2>2, TokensAssumption
      DEF NewTokenStore, Counted, Issued, Token
    <3> QED
      BY <1>1, <2>1, <3>1 DEF NewTokenStore, Kept, Clock, IssueTime, ExpireTime
  <2>3. CASE n # i
    BY <1>1, <2>1, <2>3
    DEF NewTokenStore, Kept, Clock, IssueTime, ExpireTime, Running, TypeOK
  <2> QED
    BY <2>2, <2>3
<1>2. CASE Issue(n)
  <2>1. n = i
    BY <1>2 DEF Issue, Counted
  <2> DEFINE new == <<i, issued[i] + 1>>
  <2>2. /\ new \in Token
        /\ Issued(i)' = Issued(i) \cup {new}
        /\ new \notin Issued(i)
    BY <1>2, <2>1, IssuedGrows
  <2>3. /\ store'[i] = store[i] \cup {new}
        /\ born' = [born EXCEPT ![new] = Clock(i)]
        /\ UNCHANGED <<del, queue, net, peers, now>>
        /\ Running(i)
    BY <1>2, <2>1 DEF Issue, TypeOK, Running
  <2>4. ASSUME NEW t \in Issued(i) PROVE born'[t] = born[t]
    BY <2>2, <2>3 DEF Issued, TypeOK
  <2>5. born'[new] = Clock(i) /\ Clock(i) \in Nat
    BY <2>2, <2>3, ClockType DEF TypeOK
  <2>6. del[i] \subseteq Issued(i)
    BY DEF DeleteFindsToken, Kept
  <2>7. \A t \in Issued(i)' : IssueTime(t)' <= Clock(i)'
    BY <2>2, <2>3, <2>4, <2>5 DEF Kept, IssueTime, Clock
  <2>8. \A t \in del'[i] : Clock(i)' > ExpireTime(t)'
    BY <2>3, <2>4, <2>6 DEF Kept, ExpireTime, Clock
  <2>9. \A t \in Issued(i)' : t \in store'[i] \/ Clock(i)' > ExpireTime(t)'
    BY <2>2, <2>3, <2>4 DEF Kept, ExpireTime, Clock
  <2> QED
    BY <2>2, <2>3, <2>7, <2>8, <2>9 DEF Kept
<1>3. CASE Emit(n)
  <2>1. n = i
    BY <1>3 DEF Emit, EmitTo, Counted
  <2>2. \A m \in net' : m.to # i
    BY <1>3, <2>1 DEF Emit, EmitTo, Kept
  <2>3. Running(i) /\ Issued(i)' = Issued(i)
    BY <1>3, <2>1 DEF Emit, EmitTo, Running, Issued
  <2> QED
    BY <1>3, <2>2, <2>3
    DEF Emit, EmitTo, Kept, Clock, IssueTime, ExpireTime
<1> QED
  BY <1>1, <1>2, <1>3 DEF Main

(* The loop of the issuer never finds a message; that of another node does *)
(* not touch the issuer's store.                                           *)
LEMMA RoundKept ==
  ASSUME IInv, NEW i \in Node, Issuer = {i}, Kept(i), NEW n \in Node, Round(n)
  PROVE  Kept(i)'
<1> USE DEF IInv
<1>1. /\ UNCHANGED <<main, issued, born, net, peers, now>>
      /\ Running(n)
  BY DEF Round, HandleUpdate, Replace, Idle, Wait, Sweep, SweepWith, Delete
<1>2. Issued(i)' = Issued(i) /\ (Running(i)' <=> Running(i)) /\ Clock(i)' = Clock(i)
  BY <1>1 DEF Issued, Running, Clock
<1>3. CASE UNCHANGED <<store[i], del[i], queue[i]>>
  BY <1>1, <1>2, <1>3 DEF Kept, IssueTime, ExpireTime
<1>4. CASE HandleUpdate(n)
  <2>1. n # i
    BY <1>4 DEF HandleUpdate, Replace, Kept
  <2> QED
    BY <1>3, <1>4, <2>1 DEF HandleUpdate, Replace, TypeOK
<1>5. CASE Idle(n)
  BY <1>3, <1>5 DEF Idle, Wait
<1>6. CASE Sweep(n)
  <2>1. CASE n # i
    BY <1>3, <1>6, <2>1 DEF Sweep, SweepWith, TypeOK
  <2>2. CASE n = i
    <3>1. /\ del'[i] = {t \in store[i] : Outdated(i, t)}
          /\ \A t \in Issued(i) : IssueTime(t) < Clock(i)
          /\ UNCHANGED <<store, queue>>
      BY <1>6, <2>2 DEF Sweep, SweepWith, TypeOK
    <3>2. ASSUME NEW t \in del'[i] PROVE Clock(i) > ExpireTime(t)
      <4>1. t \in Issued(i) /\ Outdated(i, t)
        BY <3>1, <3>2 DEF Kept
      <4>2. IssueTime(t) < Clock(i)
        BY <3>1, <4>1
      <4>3. IssueTime(t) \in Nat /\ Clock(i) \in Nat
        BY <4>1, ClockType DEF IssueTime, Issued, TypeOK
      <4> QED
        BY <4>1, <4>2, <4>3 DEF Outdated
    <3> QED
      BY <1>1, <1>2, <3>1, <3>2 DEF Kept, IssueTime, ExpireTime
  <2> QED
    BY <2>1, <2>2
<1>7. CASE Delete(n)
  <2>1. CASE n # i
    BY <1>3, <1>7, <2>1 DEF Delete, TypeOK
  <2>2. CASE n = i
    <3>1. PICK t \in del[i] : /\ store'[i] = store[i] \ {t}
                              /\ del'[i] = del[i] \ {t}
                              /\ UNCHANGED queue
      BY <1>7, <2>2 DEF Delete, TypeOK
    <3>2. Clock(i) > ExpireTime(t)
      BY DEF Kept
    <3> QED
      BY <1>1, <1>2, <3>1, <3>2 DEF Kept, IssueTime, ExpireTime
  <2> QED
    BY <2>1, <2>2
<1> QED
  BY <1>4, <1>5, <1>6, <1>7 DEF Round

(* Time only makes tokens expire; nothing else brings i a message.         *)
LEMMA OtherKept ==
  ASSUME IInv, NEW i \in Node, Issuer = {i}, Kept(i),
         \/ Tick \/ Lose
         \/ \E n \in Node : Discover(n) \/ Receive(n) \/ ConcurrentMapWrite(n)
  PROVE  Kept(i)'
<1> USE DEF IInv
<1>1. CASE Tick
  <2>1. /\ Issued(i)' = Issued(i)
        /\ UNCHANGED <<main, born, store, del, queue, net, peers>>
        /\ Clock(i) \in Nat
        /\ Clock(i)' = Clock(i) + 1
    BY <1>1, TokensAssumption, ClockType DEF Tick, Issued, Clock, TypeOK
  <2>2. ASSUME NEW t \in Issued(i) PROVE IssueTime(t) \in Nat /\ ExpireTime(t) \in Nat
    BY TokensAssumption DEF Issued, IssueTime, ExpireTime, TypeOK
  <2>3. del[i] \subseteq Issued(i)
    BY DEF DeleteFindsToken, Kept
  <2>4. ASSUME NEW t \in Issued(i)
        PROVE  /\ IssueTime(t)' <= Clock(i)'
               /\ Clock(i) > ExpireTime(t) => Clock(i)' > ExpireTime(t)'
    BY <2>1, <2>2 DEF Kept, IssueTime, ExpireTime
  <2> QED
    BY <2>1, <2>3, <2>4 DEF Kept, Running
<1>2. CASE Lose
  BY <1>2 DEF Lose, Kept, Issued, Running, Clock, IssueTime, ExpireTime
<1>3. ASSUME NEW n \in Node, Discover(n) PROVE Kept(i)'
  <2>1. i \notin peers'[i]
    BY <1>3 DEF Discover, Kept, TypeOK
  <2> QED
    BY <1>3, <2>1 DEF Discover, Kept, Issued, Running, Clock, IssueTime, ExpireTime
<1>4. ASSUME NEW n \in Node, Receive(n) PROVE Kept(i)'
  <2>1. queue'[i] = queue[i] /\ net' \subseteq net
    BY <1>4 DEF Receive, Kept, TypeOK
  <2> QED
    BY <1>4, <2>1 DEF Receive, Kept, Issued, Running, Clock, IssueTime, ExpireTime
<1>5. ASSUME NEW n \in Node, ConcurrentMapWrite(n) PROVE Kept(i)'
  <2>1. CASE n = i
    <3>1. /\ store'[i] = {} /\ del'[i] = {} /\ queue'[i] = <<>>
          /\ main'[i] = "dead"
      BY <1>5, <2>1 DEF ConcurrentMapWrite, TypeOK
    <3> QED
      BY <1>5, <3>1
      DEF ConcurrentMapWrite, Kept, Issued, Running, Clock, IssueTime, ExpireTime
  <2>2. CASE n # i
    <3>1. UNCHANGED <<store[i], del[i], queue[i], main[i]>>
      BY <1>5, <2>2 DEF ConcurrentMapWrite, TypeOK
    <3> QED
      BY <1>5, <3>1
      DEF ConcurrentMapWrite, Kept, Issued, Running, Clock, IssueTime, ExpireTime
  <2> QED
    BY <2>1, <2>2
<1> QED
  BY <1>1, <1>2, <1>3, <1>4, <1>5

(* Every step keeps what the issuer's store owes.                          *)
LEMMA StepKept ==
  ASSUME IInv, NEW i \in Node, Issuer = {i}, Kept(i), [Next]_vars
  PROVE  Kept(i)'
<1>1. CASE Next
  BY <1>1, MainKept, RoundKept, OtherKept DEF Next
<1>2. CASE UNCHANGED vars
  BY <1>2 DEF vars, Kept, Issued, Running, Clock, IssueTime, ExpireTime
<1> QED
  BY <1>1, <1>2

(* A node that alone issues tokens keeps each of them until it expires,    *)
(* whatever copies of its store the other nodes hold (token.go, Issue,     *)
(* HandleUpdate and Start).                                                *)
THEOREM SoleIssuerKeepsTokens ==
  ASSUME NEW i \in Node, Issuer = {i}
  PROVE  Spec => []OwnTokensKept
<1>1. Init => Kept(i)
  BY InitKept
<1>2. IInv /\ Kept(i) /\ [Next]_vars => Kept(i)'
  BY StepKept
<1>3. IInv /\ Kept(i) => OwnTokensKept
  <2> SUFFICES ASSUME IInv, Kept(i), Running(i),
                      NEW t \in Issued(i), InTime(i, t)
               PROVE  t \in store[i]
    BY DEF OwnTokensKept
  <2>1. IssueTime(t) \in Nat /\ ExpireTime(t) \in Nat /\ Clock(i) \in Nat
    BY ClockType, TokensAssumption DEF IInv, TypeOK, Issued, IssueTime, ExpireTime
  <2> QED
    BY <2>1 DEF Kept, InTime
<1> QED
  BY <1>1, <1>2, <1>3, Invariance, PTL DEF Spec

-----------------------------------------------------------------------------
(* Why the stores have no gaps while i alone issues tokens, whatever the   *)
(* clocks show.  T is whole for n when, with a token, it has the older     *)
(* ones that are expired neither for i nor for n.  What i sends is whole   *)
(* for i, and so for everyone; what a sweep of n takes away is expired for *)
(* n, or unborn like all the younger tokens.                               *)
Gone(i, n, u) == Clock(i) > ExpireTime(u) \/ Clock(n) > ExpireTime(u)

Whole(i, n, T) ==
  /\ T \subseteq Issued(i)
  /\ \A t \in T, u \in Issued(i) : u[2] < t[2] => u \in T \/ Gone(i, n, u)

Staying(n) == store[n] \ del[n]

Gapless(i) ==
  /\ \A m \in net : Whole(i, i, m.tokens)
  /\ \A n \in Node : \A k \in DOMAIN queue[n] : Whole(i, i, queue[n][k])
  /\ \A n \in Node : Whole(i, n, Staying(n))
  /\ \A t, u \in Issued(i) : u[2] < t[2] => IssueTime(u) <= IssueTime(t)

(* The times of a token that was issued are numbers.                       *)
LEMMA IssuedTimes ==
  ASSUME TypeOK, NEW i \in Node, NEW t \in Issued(i)
  PROVE  /\ t \in Token /\ IssueTime(t) \in Nat /\ ExpireTime(t) \in Nat
         /\ t[1] = i /\ t[2] \in Nat /\ t[2] <= issued[i]
<1>1. t \in Token /\ t[1] = i /\ t[2] <= issued[i]
  BY DEF Issued
<1>2. t[2] \in Nat /\ born[t] \in Nat /\ Life \in Nat
  BY <1>1, TokensAssumption DEF Token, TypeOK
<1> QED
  BY <1>1, <1>2 DEF IssueTime, ExpireTime

(* Empty stores have no gaps.                                              *)
LEMMA InitGapless == ASSUME NEW i \in Node, Init PROVE Gapless(i)
<1>1. Issued(i) = {}
  BY DEF Init, Issued, Token
<1> QED
  BY <1>1 DEF Init, Gapless, Whole, Staying

(* What was whole stays whole: time passes for all alike, and a new token  *)
(* is younger than those there are.                                        *)
LEMMA StaysWhole ==
  ASSUME IInv, NEW i \in Node, Kept(i), NEW n \in Node, NEW T, Whole(i, n, T),
         NEW m \in Node, Issuer = {i},
         Tick \/ Issue(m) \/ UNCHANGED <<issued, born, now>>
  PROVE  Whole(i, n, T)'
<1>1. TypeOK /\ Clock(n) \in Nat /\ Clock(i) \in Nat
  BY ClockType DEF IInv
<1>2. CASE UNCHANGED <<issued, born, now>>
  BY <1>2 DEF Whole, Gone, Issued, Clock, ExpireTime
<1>3. CASE Tick
  <2>1. UNCHANGED <<issued, born>> /\ now' = now + 1
    BY <1>3 DEF Tick
  <2>2. Issued(i)' = Issued(i)
    BY <2>1 DEF Issued
  <2>3. Clock(n)' = Clock(n) + 1 /\ Clock(i)' = Clock(i) + 1
    <3>1. now \in Nat /\ Skew[n] \in Nat /\ Skew[i] \in Nat
      BY <1>1, TokensAssumption DEF TypeOK
    <3> QED
      BY <2>1, <3>1 DEF Clock
  <2>4. \A u \in Issued(i) : ExpireTime(u) \in Nat /\ ExpireTime(u)' = ExpireTime(u)
    BY <1>1, <2>1, IssuedTimes DEF ExpireTime
  <2>5. \A u \in Issued(i) : Gone(i, n, u) => Gone(i, n, u)'
    BY <1>1, <2>3, <2>4 DEF Gone
  <2> QED
    BY <2>2, <2>5 DEF Whole
<1>4. CASE Issue(m)
  <2> DEFINE new == <<i, issued[i] + 1>>
  <2>1. m = i
    BY <1>4 DEF Issue, IInv, Counted
  <2>2. /\ new \in Token /\ Issued(i)' = Issued(i) \cup {new}
        /\ new \notin Issued(i)
    BY <1>4, <2>1, IssuedGrows
  <2>3. \A t \in Issued(i) : born'[t] = born[t]
    BY <1>1, <1>4, <2>1, <2>2 DEF Issue, Issued, TypeOK
  <2>4. \A u \in Issued(i) : Gone(i, n, u) => Gone(i, n, u)'
    BY <1>4, <2>3 DEF Issue, Clock, ExpireTime, Gone
  <2>5. \A t \in T : ~ (new[2] < t[2])
    <3>1. \A t \in T : t[2] \in Nat /\ t[2] <= issued[i]
      BY <1>1, IssuedTimes DEF Whole
    <3>2. new[2] = issued[i] + 1 /\ issued[i] \in Nat
      BY <1>1, TokensAssumption DEF TypeOK
    <3> HIDE DEF new
    <3> QED
      BY <3>1, <3>2
  <2> HIDE DEF new
  <2> QED
    BY <2>2, <2>4, <2>5 DEF Whole
<1> QED
  BY <1>2, <1>3, <1>4

(* What is whole for the issuer is whole for everyone.                     *)
LEMMA WholeEverywhere ==
  ASSUME NEW i \in Node, NEW n \in Node, NEW T, Whole(i, i, T)
  PROVE  Whole(i, n, T)
  BY DEF Whole, Gone

(* What the issuer has, and what stays of it, is whole for it.             *)
LEMMA IssuerWhole ==
  ASSUME NEW i \in Node, Kept(i), Running(i)
  PROVE  Whole(i, i, store[i]) /\ Whole(i, i, Staying(i))
  BY DEF Kept, Whole, Gone, Staying

(* The times at which tokens are issued grow with their numbers.           *)
LEMMA IssueTimesGrow ==
  ASSUME IInv, NEW i \in Node, Kept(i), Issue(i),
         \A t, u \in Issued(i) : u[2] < t[2] => IssueTime(u) <= IssueTime(t)
  PROVE  (\A t, u \in Issued(i) : u[2] < t[2] => IssueTime(u) <= IssueTime(t))'
<1> DEFINE new == <<i, issued[i] + 1>>
<1>1. TypeOK
  BY DEF IInv
<1>2. new \in Token /\ Issued(i)' = Issued(i) \cup {new} /\ new \notin Issued(i)
  BY IssuedGrows
<1>3. \A t \in Issued(i) : born'[t] = born[t]
  BY <1>1, <1>2 DEF Issue, Issued, TypeOK
<1>4. born'[new] = Clock(i)
  BY <1>1, <1>2 DEF Issue, TypeOK
<1>5. \A t \in Issued(i) : ~ (new[2] < t[2])
  <2>1. \A t \in Issued(i) : t[2] \in Nat /\ t[2] <= issued[i]
    BY <1>1, IssuedTimes
  <2>2. new[2] = issued[i] + 1 /\ issued[i] \in Nat
    BY <1>1, TokensAssumption DEF TypeOK
  <2> HIDE DEF new
  <2> QED
    BY <2>1, <2>2
<1>6. \A t \in Issued(i) : born[t] <= Clock(i)
  BY DEF Kept, IssueTime
<1>7. ~ (new[2] < new[2])
  BY <1>1, TokensAssumption DEF TypeOK
<1> HIDE DEF new
<1> QED
  BY <1>2, <1>3, <1>4, <1>5, <1>6, <1>7 DEF IssueTime

(* Every step keeps stores and messages whole, as far as the issuer's      *)
(* clock goes.                                                             *)
LEMMA NextGapless ==
  ASSUME IInv, NEW i \in Node, Issuer = {i}, Kept(i), Gapless(i), [Next]_vars
  PROVE  Gapless(i)'
<1>1. TypeOK /\ DeleteFindsToken /\ Counted
  BY DEF IInv
<1>2. ASSUME NEW n \in Node, NEW T, Whole(i, n, T),
             Tick \/ (\E m \in Node : Issue(m)) \/ UNCHANGED <<issued, born, now>>
      PROVE  Whole(i, n, T)'
  BY <1>2, StaysWhole
<1>3. ASSUME UNCHANGED <<issued, born>>
      PROVE  (\A t, u \in Issued(i) : u[2] < t[2] => IssueTime(u) <= IssueTime(t))'
  BY <1>3 DEF Gapless, Issued, IssueTime
<1>4. CASE Tick \/ Lose \/ UNCHANGED vars
  <2>1. /\ net' \subseteq net /\ UNCHANGED <<queue, store, del, issued, born>>
        /\ Tick \/ UNCHANGED <<issued, born, now>>
    BY <1>4 DEF Tick, Lose, vars
  <2>2. \A n \in Node : Staying(n)' = Staying(n)
    BY <2>1 DEF Staying
  <2> QED
    BY <1>2, <1>3, <2>1, <2>2 DEF Gapless, Whole
<1>5. ASSUME NEW n \in Node, NewTokenStore(n) \/ Discover(n)
      PROVE  Gapless(i)'
  <2>1. UNCHANGED <<net, queue, store, del, issued, born, now>>
    BY <1>5 DEF NewTokenStore, Discover
  <2>2. \A m \in Node : Staying(m)' = Staying(m)
    BY <2>1 DEF Staying
  <2> QED
    BY <1>2, <1>3, <2>1, <2>2 DEF Gapless, Whole
<1>6. ASSUME NEW n \in Node, Issue(n)
      PROVE  Gapless(i)'
  <2> DEFINE new == <<i, issued[i] + 1>>
  <2>1. n = i
    BY <1>1, <1>6 DEF Issue, Counted
  <2>2. /\ UNCHANGED <<net, queue, del>> /\ Running(i) /\ Running(i)'
        /\ \A m \in Node : m # i => store'[m] = store[m]
    BY <1>1, <1>6, <2>1 DEF Issue, Running, TypeOK
  <2>3. Kept(i)'
    BY <1>6, MainKept DEF Main
  <2>4. Whole(i, i, Staying(i))'
    BY <2>2, <2>3 DEF Kept, Whole, Gone, Staying, Running
  <2>5. ASSUME NEW m \in Node PROVE Whole(i, m, Staying(m))'
    <3>1. CASE m = i
      BY <3>1, <2>4
    <3>2. CASE m # i
      <4>1. Staying(m)' = Staying(m) /\ Whole(i, m, Staying(m))
        BY <2>2, <3>2 DEF Gapless, Staying
      <4> QED
        BY <1>2, <1>6, <4>1 DEF Whole
    <3> QED
      BY <3>1, <3>2
  <2>6. (\A t, u \in Issued(i) : u[2] < t[2] => IssueTime(u) <= IssueTime(t))'
    BY <1>6, <2>1, IssueTimesGrow DEF Gapless
  <2> QED
    BY <1>2, <1>6, <2>2, <2>5, <2>6 DEF Gapless
<1>7. ASSUME NEW n \in Node, Emit(n)
      PROVE  Gapless(i)'
  <2>1. n = i /\ Running(i)
    BY <1>1, <1>7 DEF Emit, EmitTo, Counted, Running
  <2>2. Whole(i, i, store[i])
    BY <2>1, IssuerWhole
  <2>3. /\ UNCHANGED <<queue, store, del, issued, born, now>>
        /\ \A m \in net' : m \in net \/ m.tokens = store[i]
    BY <1>7, <2>1 DEF Emit, EmitTo
  <2>4. \A m \in Node : Staying(m)' = Staying(m)
    BY <2>3 DEF Staying
  <2> QED
    BY <1>2, <1>3, <2>2, <2>3, <2>4 DEF Gapless, Whole
<1>8. ASSUME NEW n \in Node, Receive(n)
      PROVE  Gapless(i)'
  <2>1. UNCHANGED <<store, del, issued, born, now>>
    BY <1>8 DEF Receive
  <2>2. PICK m \in net : /\ net' = net \ {m}
                         /\ queue' = [queue EXCEPT ![n] = Append(@, m.tokens)]
    BY <1>8 DEF Receive
  <2>3. Whole(i, i, m.tokens)
    BY DEF Gapless
  <2>4. ASSUME NEW k \in Node, NEW j \in DOMAIN queue'[k]
        PROVE  Whole(i, i, queue'[k][j])
    <3>1. CASE k # n
      BY <1>1, <2>2, <2>4, <3>1 DEF Gapless, TypeOK
    <3>2. CASE k = n
      <4>1. queue[n] \in Seq(SUBSET Token) /\ queue'[k] = Append(queue[n], m.tokens)
        BY <1>1, <2>2, <3>2 DEF TypeOK
      <4>2. m.tokens \in SUBSET Token
        BY <1>1 DEF TypeOK, Message
      <4>3. queue'[k][j] = m.tokens
            \/ (j \in DOMAIN queue[n] /\ queue'[k][j] = queue[n][j])
        <5>1. /\ Len(queue'[k]) = Len(queue[n]) + 1
              /\ \A x \in 1..Len(queue[n]) : queue'[k][x] = queue[n][x]
              /\ queue'[k][Len(queue[n]) + 1] = m.tokens
          BY <4>1, <4>2, AppendProperties
        <5>2. /\ DOMAIN queue[n] = 1..Len(queue[n]) /\ Len(queue[n]) \in Nat
              /\ DOMAIN queue'[k] = 1..Len(queue'[k])
          BY <4>1, <4>2, AppendProperties, LenProperties
        <5> QED
          BY <5>1, <5>2, <2>4
      <4> QED
        BY <2>3, <4>3 DEF Gapless
    <3> QED
      BY <3>1, <3>2
  <2>5. /\ \A x \in net' : Whole(i, i, x.tokens)'
        /\ \A k \in Node : \A j \in DOMAIN queue'[k] :
             (i \in Node /\ Whole(i, i, queue'[k][j]))
    BY <1>2, <2>1, <2>2, <2>4 DEF Gapless
  <2>6. \A k \in Node : \A j \in DOMAIN queue'[k] : Whole(i, i, queue[k][j])'
    BY <2>1, <2>4 DEF Whole, Gone, Issued, Clock, ExpireTime
  <2>7. \A k \in Node : Whole(i, k, Staying(k))'
    <3>1. \A k \in Node : Staying(k)' = Staying(k)
      BY <2>1 DEF Staying
    <3> QED
      BY <1>2, <2>1, <3>1 DEF Gapless, Whole
  <2> QED
    BY <1>3, <2>1, <2>5, <2>6, <2>7 DEF Gapless
<1>9. ASSUME NEW n \in Node, ConcurrentMapWrite(n)
      PROVE  Gapless(i)'
  <2>1. /\ UNCHANGED <<net, issued, born, now>>
        /\ store'[n] = {} /\ del'[n] = {} /\ queue'[n] = <<>>
        /\ \A m \in Node : m # n => UNCHANGED <<store[m], del[m], queue[m]>>
    BY <1>1, <1>9 DEF ConcurrentMapWrite, TypeOK
  <2>2. \A m \in net' : Whole(i, i, m.tokens)'
    BY <1>2, <2>1 DEF Gapless
  <2>3. ASSUME NEW m \in Node
        PROVE  /\ \A k \in DOMAIN queue'[m] : Whole(i, i, queue[m][k])'
               /\ Whole(i, m, Staying(m))'
    <3>1. CASE m = n
      BY <2>1, <3>1 DEF Whole, Staying
    <3>2. CASE m # n
      BY <2>1, <3>2 DEF Gapless, Whole, Gone, Staying, Issued, Clock, ExpireTime
    <3> QED
      BY <3>1, <3>2
  <2> QED
    BY <1>3, <2>1, <2>2, <2>3 DEF Gapless
<1>10. ASSUME NEW n \in Node, Round(n)
       PROVE  Gapless(i)'
  <2>1. UNCHANGED <<net, issued, born, now>>
    BY <1>10 DEF Round, HandleUpdate, Replace, Idle, Wait, Sweep, SweepWith, Delete
  <2>2. \A m \in net' : Whole(i, i, m.tokens)'
    BY <1>2, <2>1 DEF Gapless
  <2>3. \A m \in Node : m # n => UNCHANGED <<store[m], del[m], queue[m]>>
    BY <1>1, <1>10
    DEF Round, HandleUpdate, Replace, Idle, Wait, Sweep, SweepWith, Delete, TypeOK
  <2>4. /\ \A k \in DOMAIN queue'[n] : Whole(i, i, queue'[n][k])
        /\ Whole(i, n, store'[n] \ del'[n])
    <3>1. CASE HandleUpdate(n)
      <4>1. /\ queue[n] # <<>> /\ store'[n] = Head(queue[n])
            /\ queue'[n] = Tail(queue[n]) /\ del' = del /\ del[n] = {}
            /\ queue[n] \in Seq(SUBSET Token)
        BY <1>1, <3>1 DEF HandleUpdate, Replace, TypeOK
      <4>2. /\ Len(queue[n]) \in Nat \ {0} /\ DOMAIN queue[n] = 1..Len(queue[n])
            /\ DOMAIN Tail(queue[n]) = 1..(Len(queue[n]) - 1)
            /\ Head(queue[n]) = queue[n][1]
            /\ \A k \in 1..(Len(queue[n]) - 1) : Tail(queue[n])[k] = queue[n][k + 1]
        BY <4>1
      <4>3. \A k \in 1..Len(queue[n]) : Whole(i, i, queue[n][k])
        BY <4>2 DEF Gapless
      <4>4. Whole(i, i, store'[n])
        BY <4>1, <4>2, <4>3
      <4>5. \A k \in DOMAIN queue'[n] : Whole(i, i, queue'[n][k])
        BY <4>1, <4>2, <4>3
      <4> QED
        BY <4>1, <4>4, <4>5, WholeEverywhere, store'[n] \ del'[n] = store'[n]
    <3>2. CASE Idle(n)
      BY <3>2 DEF Idle, Wait, Gapless, Staying
    <3>3. CASE Sweep(n)
      <4>1. /\ UNCHANGED <<store, queue>> /\ del[n] = {}
            /\ del'[n] = {t \in store[n] : Outdated(n, t)}
        BY <1>1, <3>3 DEF Sweep, SweepWith, TypeOK
      <4>2. Whole(i, n, store[n])
        BY <4>1, Staying(n) = store[n] DEF Gapless, Staying
      <4>3. ASSUME NEW t \in store[n], ~ Outdated(n, t), NEW u \in store[n],
                   Outdated(n, u), u[2] < t[2]
            PROVE  Gone(i, n, u)
        <5>1. t \in Issued(i) /\ u \in Issued(i)
          BY <4>2 DEF Whole
        <5>2. IssueTime(u) <= IssueTime(t)
          BY <4>3, <5>1 DEF Gapless
        <5>3. /\ IssueTime(t) \in Nat /\ IssueTime(u) \in Nat
              /\ ExpireTime(u) \in Nat /\ Clock(n) \in Nat
          BY <1>1, <5>1, IssuedTimes, ClockType
        <5> QED
          BY <4>3, <5>2, <5>3 DEF Outdated, Gone
      <4>4. Whole(i, n, store'[n] \ del'[n])
        BY <4>1, <4>2, <4>3 DEF Whole
      <4> QED
        BY <4>1, <4>4 DEF Gapless
    <3>4. CASE Delete(n)
      <4>1. PICK t \in del[n] : /\ store'[n] = store[n] \ {t}
                                /\ del'[n] = del[n] \ {t}
                                /\ UNCHANGED queue
        BY <1>1, <3>4 DEF Delete, TypeOK
      <4>2. store'[n] \ del'[n] = Staying(n)
        BY <4>1 DEF Staying
      <4> QED
        BY <4>1, <4>2 DEF Gapless
    <3> QED
      BY <1>10, <3>1, <3>2, <3>3, <3>4 DEF Round
  <2>5. ASSUME NEW m \in Node
        PROVE  /\ \A k \in DOMAIN queue'[m] : Whole(i, i, queue[m][k])'
               /\ Whole(i, m, Staying(m))'
    <3>1. CASE m = n
      BY <2>1, <2>4, <3>1 DEF Whole, Gone, Staying, Issued, Clock, ExpireTime
    <3>2. CASE m # n
      BY <2>1, <2>3, <3>2 DEF Gapless, Whole, Gone, Staying, Issued, Clock, ExpireTime
    <3> QED
      BY <3>1, <3>2
  <2> QED
    BY <1>3, <2>1, <2>2, <2>5 DEF Gapless
<1> QED
  BY <1>4, <1>5, <1>6, <1>7, <1>8, <1>9, <1>10 DEF Next, Main

(* While one node issues tokens, no store has a gap: with a token come the *)
(* older ones that are in their time for the issuer and for the holder,    *)
(* whatever their clocks show and whatever copies were lost or came out of *)
(* order (token.go, Issue, HandleUpdate and Start).                        *)
THEOREM SoleIssuerLeavesNoGaps ==
  ASSUME NEW i \in Node, Issuer = {i}
  PROVE  Spec => []NoGaps
<1>1. Init => Kept(i) /\ Gapless(i)
  BY InitKept, InitGapless
<1>2. IInv /\ Kept(i) /\ [Next]_vars => Kept(i)'
  BY StepKept
<1>3. IInv /\ Kept(i) /\ Gapless(i) /\ [Next]_vars => Gapless(i)'
  BY NextGapless
<1>4. IInv /\ Gapless(i) => NoGaps
  <2> SUFFICES ASSUME IInv, Gapless(i), NEW n \in Node, NEW j \in Node,
                      NEW t \in Staying(n), NEW u \in Issued(j),
                      t[1] = j, u[2] < t[2], InTime(n, u), InTime(j, u)
               PROVE  u \in Staying(n)
    BY DEF NoGaps, Staying
  <2>1. Whole(i, n, Staying(n))
    BY DEF Gapless
  <2>2. t \in Issued(i) /\ t[1] = i
    BY <2>1, IssuedTimes DEF Whole, IInv
  <2>3. u \in Issued(i)
    BY <2>2
  <2>4. Clock(n) \in Nat /\ Clock(i) \in Nat /\ ExpireTime(u) \in Nat
    BY <2>3, ClockType, IssuedTimes DEF IInv
  <2>5. ~ Gone(i, n, u)
    BY <2>2, <2>4 DEF Gone, InTime
  <2> QED
    BY <2>1, <2>3, <2>5 DEF Whole
<1> QED
  BY <1>1, <1>2, <1>3, <1>4, Invariance, PTL DEF Spec

=============================================================================
