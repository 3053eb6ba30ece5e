---------------------------- MODULE ClusterProofs ----------------------------
(***************************************************************************)
(* What holds of nodes that come up, for any number of nodes, any          *)
(* discovery hosts, certificates and files of an earlier life, and any     *)
(* bounds on the attempts to join.  What is said of crashes and restarts   *)
(* holds for any number of launches; what is said of the database that is  *)
(* synchronised, for nodes that are launched once.                         *)
(***************************************************************************)
EXTENDS Cluster, TLAPS

(* Start asks only a node it has found, and numbers what it asks; what     *)
(* SyncHandle writes is a database.                                        *)
Asking ==
  \A n \in Node :
    /\ start[n] \in {"key", "sync", "send"} => near[n] \in Node
    /\ start[n] \in {"sync", "send"} => try[n] >= 1
    /\ sock[n] \in {"received", "write"} => recv[n] \in Database

Typed == TypeOK /\ Asking

(* The goroutines that answer requests for a node's database.              *)
SendsFile(j) == j.step \in {"send file", "send nothing"}

-----------------------------------------------------------------------------
(* No node has the name that stands for a missing node or key.             *)
LEMMA NamesDiffer ==
  /\ "NoNode" \notin Node /\ "NoKey" \notin Node
  /\ "EmptyKey" \notin Node /\ "NullKey" \notin Node
  BY ClusterAssumption

(* Type correctness, one lemma per group of actions.                       *)
LEMMA InitTyped == Init => Typed
<1> SUFFICES ASSUME Init PROVE Typed
  OBVIOUS
<1>1. TypeOK
  BY ClusterAssumption DEF Init, TypeOK, Key, Database
<1> QED
  BY <1>1 DEF Typed, Asking, Init

(* The launch of a node, and its end.                                      *)
LEMMA LaunchTyped ==
  ASSUME Typed, NEW n \in Node,
         Launch(n) \/ Crash(n) \/ OpenDatabasePanics(n) \/ UnsealPanics(n)
  PROVE  Typed'
<1> USE ClusterAssumption DEF Typed, starting, syncing, traffic, files
<1>1. CASE Launch(n)
  <2>1. TypeOK'
    BY <1>1 DEF Launch, TypeOK
  <2>2. Asking'
    BY <1>1 DEF Launch, TypeOK, Asking
  <2> QED
    BY <2>1, <2>2
<1>2. ASSUME NEW how \in {"down", "panicked"}, Die(n, how), UNCHANGED files
      PROVE  Typed'
  <2>1. TypeOK'
    BY <1>2 DEF Die, TypeOK, Database, Key
  <2>2. Asking'
    BY <1>2 DEF Die, TypeOK, Asking
  <2> QED
    BY <2>1, <2>2
<1> QED
  BY <1>1, <1>2 DEF Crash, OpenDatabasePanics, UnsealPanics

(* Cluster.Start.                                                          *)
LEMMA StartingTyped == ASSUME Typed, NEW n \in Node, Starting(n) PROVE Typed'
<1> USE ClusterAssumption DEF Typed, starting, syncing, traffic, files
<1>1. CASE PingSucceeds(n) \/ PingFails(n)
  <2>1. TypeOK'
    <3>1. CASE PingSucceeds(n)
      BY <3>1 DEF PingSucceeds, TypeOK
    <3>2. CASE PingFails(n)
      BY <3>2 DEF PingFails, TypeOK
    <3> QED
      BY <1>1, <3>1, <3>2
  <2>2. Asking'
    BY <1>1 DEF PingSucceeds, PingFails, TypeOK, Asking
  <2> QED
    BY <2>1, <2>2
<1>2. CASE Discover(n)
  <2>1. PICK P \in SUBSET Others(n), m \in Others(n) \cup {"NoNode"} :
          /\ peers' = [peers EXCEPT ![n] = P]
          /\ near' = [near EXCEPT ![n] = m]
          /\ start' = [start EXCEPT ![n] =
                         CASE startup[n] /\ first[n] -> "ready"
                           [] startup[n] /\ ~ first[n] /\ m # "NoNode" -> "key"
                           [] OTHER -> "discover"]
          /\ UNCHANGED <<main, first, startup, try, syncing, traffic, files,
                         kvkey, launches>>
    BY <1>2 DEF Discover
  <2>2. start'[n] \in {"ready", "key", "discover"}
        /\ (start'[n] = "key" => m \in Node)
    BY <2>1 DEF TypeOK, Others
  <2>3. \A k \in Node : k # n => start'[k] = start[k]
    BY <2>1 DEF TypeOK
  <2>4. TypeOK'
    <3>1. start' \in [Node -> {"down", "ping", "discover", "key", "sync",
                               "stuck", "send", "ready"}]
      BY <2>1 DEF TypeOK
    <3>2. /\ peers' \in [Node -> SUBSET Node] /\ \A k \in Node : k \notin peers'[k]
          /\ near' \in [Node -> Node \cup {"NoNode"}]
      BY <2>1 DEF TypeOK, Others
    <3> QED
      BY <2>1, <3>1, <3>2 DEF TypeOK
  <2>5. Asking'
    BY <2>1, <2>2, <2>3 DEF TypeOK, Asking
  <2> QED
    BY <2>4, <2>5
<1>3. CASE RequestSharedKey(n)
  <2>1. near[n] \in Node /\ try'[n] \in 1..MaxTry /\ try' \in [Node -> 0..MaxTry]
    BY <1>3 DEF RequestSharedKey, TypeOK, Asking
  <2>2. net' \subseteq Message
    BY <1>3, <2>1 DEF RequestSharedKey, Send, TypeOK, Message
  <2>3. TypeOK'
    BY <1>3, <2>1, <2>2 DEF RequestSharedKey, TypeOK
  <2>4. Asking'
    BY <1>3, <2>1 DEF RequestSharedKey, TypeOK, Asking
  <2> QED
    BY <2>3, <2>4
<1>4. CASE SyncRequest(n)
  <2>1. start[n] = "sync"
        /\ UNCHANGED <<main, starting, recv, traffic, files, kvkey, launches>>
        /\ (\E x \in {"stuck", "send", "discover"} : start' = [start EXCEPT ![n] = x])
        /\ (sock' = sock \/ sock' = [sock EXCEPT ![n] = "accept"])
        /\ (signal' = signal \/ signal' = [signal EXCEPT ![n] = TRUE])
    BY <1>4 DEF SyncRequest
  <2>2. /\ start' \in [Node -> {"down", "ping", "discover", "key", "sync",
                                "stuck", "send", "ready"}]
        /\ sock' \in [Node -> {"closed", "accept", "received", "write"}]
        /\ signal' \in [Node -> BOOLEAN]
    <3>1. PICK x \in {"stuck", "send", "discover"} : start' = [start EXCEPT ![n] = x]
      BY <2>1
    <3>2. start' \in [Node -> {"down", "ping", "discover", "key", "sync",
                               "stuck", "send", "ready"}]
      BY <3>1 DEF TypeOK
    <3>3. sock' \in [Node -> {"closed", "accept", "received", "write"}]
      BY <2>1 DEF TypeOK
    <3>4. signal' \in [Node -> BOOLEAN]
      BY <2>1 DEF TypeOK
    <3> QED
      BY <3>2, <3>3, <3>4
  <2>3. TypeOK'
    BY <2>1, <2>2 DEF TypeOK
  <2>4. Asking'
    BY <2>1 DEF TypeOK, Asking
  <2> QED
    BY <2>3, <2>4
<1>5. CASE SendSync(n)
  <2>1. near[n] \in Node /\ try[n] \in 1..MaxTry
    BY <1>5 DEF SendSync, TypeOK, Asking
  <2>2. net' \subseteq Message
    BY <1>5, <2>1 DEF SendSync, Send, TypeOK, Message
  <2>3. TypeOK'
    BY <1>5, <2>1, <2>2 DEF SendSync, TypeOK
  <2>4. Asking'
    BY <1>5, <2>1 DEF SendSync, TypeOK, Asking
  <2> QED
    BY <2>3, <2>4
<1> QED
  BY <1>1, <1>2, <1>3, <1>4, <1>5 DEF Starting

(* main, SyncHandle and the clients of a node that runs.                   *)
LEMMA BootingTyped ==
  ASSUME Typed, NEW n \in Node, Booting(n) \/ Syncing(n) \/ ClientWrites(n)
  PROVE  Typed'
<1> USE ClusterAssumption DEF Typed, starting, syncing, traffic, files
<1>1. CASE ReadyFromStart(n)
  <2>1. TypeOK'
    BY <1>1 DEF ReadyFromStart, TypeOK
  <2>2. Asking'
    BY <1>1 DEF ReadyFromStart, TypeOK, Asking
  <2> QED
    BY <2>1, <2>2
<1>2. ASSUME \/ ReadyFromSync(n) \/ Seal(n) \/ WriteKey(n) \/ OpenDatabase(n)
             \/ UnsealSharedKey(n) \/ Syncing(n) \/ ClientWrites(n)
      PROVE  UNCHANGED <<start, starting, net, jobs, launches>>
  BY <1>2 DEF ReadyFromSync, Seal, WriteKey, OpenDatabase, UnsealSharedKey,
              Syncing, OpenFileFails, TruncateDatabase, WriteDatabase,
              WriteDatabaseFails, ClientWrites
<1>3. CASE \/ ReadyFromSync(n) \/ Seal(n) \/ WriteKey(n) \/ OpenDatabase(n)
           \/ UnsealSharedKey(n)
  <2>1. TypeOK'
    <3>1. CASE ReadyFromSync(n)
      BY <3>1 DEF ReadyFromSync, TypeOK
    <3>2. CASE Seal(n)
      <4>1. key' \in [Node -> Key] /\ main' \in [Node -> {"down", "wait", "seal",
              "sealing", "open", "unseal", "up", "panicked"}]
        <5>1. CASE main' = [main EXCEPT ![n] = "open"] /\ UNCHANGED key
          BY <5>1 DEF TypeOK
        <5>2. CASE /\ key' = [key EXCEPT ![n] = "EmptyKey"]
                   /\ main' = [main EXCEPT ![n] = "sealing"]
          BY <5>2 DEF TypeOK, Key
        <5> QED
          BY <3>2, <5>1, <5>2 DEF Seal
      <4> QED
        BY <3>2, <4>1 DEF Seal, TypeOK
    <3>3. CASE WriteKey(n)
      BY <3>3 DEF WriteKey, TypeOK, Key
    <3>4. CASE OpenDatabase(n)
      BY <3>4 DEF OpenDatabase, TypeOK, Database
    <3>5. CASE UnsealSharedKey(n)
      BY <3>5 DEF UnsealSharedKey, TypeOK, Key
    <3> QED
      BY <1>3, <3>1, <3>2, <3>3, <3>4, <3>5
  <2>2. UNCHANGED <<sock, recv>>
    BY <1>3 DEF ReadyFromSync, Seal, WriteKey, OpenDatabase, UnsealSharedKey
  <2> QED
    BY <1>2, <1>3, <2>1, <2>2 DEF Asking
<1>4. CASE Syncing(n) \/ ClientWrites(n)
  <2>1. /\ sock[n] \in {"received", "write"} => recv[n] \in Database
        /\ "failed" \in Database \cup {"failed"}
    BY DEF Asking
  <2>2. /\ TypeOK'
        /\ \A m \in Node : sock'[m] \in {"received", "write"} => recv'[m] \in Database
    <3>1. CASE OpenFileFails(n)
      BY <3>1 DEF OpenFileFails, TypeOK, Asking
    <3>2. CASE TruncateDatabase(n)
      <4>1. "zero" \in Database
        BY DEF Database
      <4> QED
        BY <2>1, <3>2, <4>1 DEF TruncateDatabase, TypeOK, Asking
    <3>3. CASE WriteDatabase(n)
      BY <2>1, <3>3 DEF WriteDatabase, TypeOK, Asking
    <3>4. CASE WriteDatabaseFails(n)
      <4>1. PICK d \in Prefixes(recv[n]) : db' = [db EXCEPT ![n] = d]
        BY <3>4 DEF WriteDatabaseFails
      <4>2. d \in Database
        BY <2>1, <3>4, <4>1 DEF WriteDatabaseFails, Prefixes, Database
      <4> QED
        BY <3>4, <4>1, <4>2 DEF WriteDatabaseFails, TypeOK, Asking
    <3>5. CASE ClientWrites(n)
      <4>1. PICK d \in Database : db' = [db EXCEPT ![n] = d]
        BY <3>5 DEF ClientWrites, Database
      <4> QED
        BY <3>5, <4>1 DEF ClientWrites, TypeOK, Asking
    <3> QED
      BY <1>4, <3>1, <3>2, <3>3, <3>4, <3>5 DEF Syncing
  <2> QED
    BY <1>2, <1>4, <2>2 DEF Asking
<1> QED
  BY <1>1, <1>3, <1>4, LaunchTyped DEF Booting

(* The message handlers and what they start.                               *)
LEMMA HandlingTyped ==
  ASSUME Typed, NEW msg \in net,
         ReceiveSyncRequest(msg) \/ SendSharedKey(msg) \/ HandleSharedKey(msg)
           \/ Lose(msg)
  PROVE  Typed'
<1> USE ClusterAssumption DEF Typed, starting, syncing, traffic, files
<1>1. UNCHANGED <<main, start, starting, syncing, files, kvkey, launches>>
  BY DEF ReceiveSyncRequest, SendSharedKey, HandleSharedKey, Lose
<1>2. msg.from \in Node /\ msg.to \in Node /\ msg.try \in 1..MaxTry
  BY DEF TypeOK, Message
<1>3. /\ \A x \in net' : x \in net \/ x = [type |-> "sync:sendsharedkey",
                  from |-> msg.to, to |-> msg.from, try |-> msg.try]
      /\ \A x \in jobs' :
           \/ x \in jobs
           \/ \E y \in {"send file", "send nothing", "create key"} :
                x = [node |-> msg.to, peer |-> msg.from, try |-> msg.try,
                     step |-> y]
  <2>1. CASE ReceiveSyncRequest(msg)
    BY <2>1 DEF ReceiveSyncRequest, Remove, Spawn
  <2>2. CASE SendSharedKey(msg)
    BY <2>2 DEF SendSharedKey, Remove
  <2>3. CASE HandleSharedKey(msg)
    BY <2>3 DEF HandleSharedKey, Remove, Spawn
  <2>4. CASE Lose(msg)
    BY <2>4 DEF Lose, Remove
  <2> QED
    BY <2>1, <2>2, <2>3, <2>4
<1>5. [type |-> "sync:sendsharedkey", from |-> msg.to, to |-> msg.from,
       try |-> msg.try] \in Message
  BY <1>2 DEF Message
<1>6. \A y \in {"send file", "send nothing", "create key"} :
        [node |-> msg.to, peer |-> msg.from, try |-> msg.try, step |-> y] \in Job
  BY <1>2 DEF Job
<1>8. net \subseteq Message /\ jobs \subseteq Job
  BY DEF TypeOK
<1>7. net' \subseteq Message /\ jobs' \subseteq Job
  <2>1. ASSUME NEW x \in net' PROVE x \in Message
    BY <1>3, <1>5, <1>8, Zenon
  <2>2. ASSUME NEW x \in jobs' PROVE x \in Job
    BY <1>3, <1>6, <1>8, Zenon
  <2> QED
    BY <2>1, <2>2
<1>4. TypeOK'
  BY <1>1, <1>7 DEF TypeOK
<1> QED
  BY <1>1, <1>4 DEF Asking

(* The goroutines that answer a request or store a key.                    *)
LEMMA AnsweringTyped ==
  ASSUME Typed, NEW j \in jobs,
         \/ SyncResponse(j) \/ SyncResponseFails(j) \/ SyncResponseBreaks(j)
         \/ CreateKeyFile(j) \/ WriteKeyFile(j)
  PROVE  Typed'
<1> USE ClusterAssumption DEF Typed, starting, syncing, traffic, files
<1>1. j \in Job /\ j.node \in Node /\ j.peer \in Node
  BY DEF TypeOK, Job
<1>2. CASE SyncResponse(j)
  <2>1. TypeOK'
    BY <1>1, <1>2 DEF SyncResponse, TypeOK, Database
  <2>2. recv'[j.peer] \in Database
    <3>1. /\ recv \in [Node -> Database \cup {"failed"}] /\ db[j.node] \in Database
          /\ \E d \in {db[j.node], "zero"} : recv' = [recv EXCEPT ![j.peer] = d]
      BY <1>1, <1>2 DEF SyncResponse, TypeOK
    <3> QED
      BY <1>1, <3>1 DEF Database
  <2>3. \A n \in Node \ {j.peer} : recv'[n] = recv[n] /\ sock'[n] = sock[n]
    <3>1. \E d : /\ sock' = [sock EXCEPT ![j.peer] = "received"]
                 /\ recv' = [recv EXCEPT ![j.peer] = d]
      BY <1>2 DEF SyncResponse
    <3>2. DOMAIN sock = Node /\ DOMAIN recv = Node
      BY DEF TypeOK
    <3> QED
      BY <3>1, <3>2
  <2>4. Asking'
    <3>1. UNCHANGED <<start, near, try>>
      BY <1>2 DEF SyncResponse
    <3> QED
      BY <2>2, <2>3, <3>1 DEF Asking
  <2> QED
    BY <2>1, <2>4
<1>3. CASE SyncResponseFails(j)
  <2>1. TypeOK'
    BY <1>1, <1>3 DEF SyncResponseFails, TypeOK
  <2> QED
    BY <1>3, <2>1 DEF SyncResponseFails, Asking
<1>4. CASE SyncResponseBreaks(j)
  <2>1. TypeOK'
    BY <1>1, <1>4 DEF SyncResponseBreaks, TypeOK
  <2>2. Asking'
    BY <1>1, <1>4 DEF SyncResponseBreaks, TypeOK, Asking
  <2> QED
    BY <2>1, <2>2
<1>5. CASE CreateKeyFile(j)
  <2>1. [j EXCEPT !.step = "write key"] \in Job
    BY <1>1 DEF Job
  <2>2. jobs' \subseteq Job
    BY <1>5, <2>1 DEF CreateKeyFile, TypeOK
  <2>3. TypeOK'
    BY <1>1, <1>5, <2>2 DEF CreateKeyFile, TypeOK, Key
  <2> QED
    BY <1>5, <2>3 DEF CreateKeyFile, Asking
<1>6. CASE WriteKeyFile(j)
  <2>1. TypeOK'
    BY <1>1, <1>6 DEF WriteKeyFile, TypeOK, Key
  <2> QED
    BY <1>6, <2>1 DEF WriteKeyFile, Asking
<1> QED
  BY <1>2, <1>3, <1>4, <1>5, <1>6

(* The groups together.                                                    *)
LEMMA NextTyped == Typed /\ [Next]_vars => Typed'
<1> SUFFICES ASSUME Typed, [Next]_vars PROVE Typed'
  OBVIOUS
<1>1. ASSUME NEW n \in Node,
             \/ Launch(n) \/ Crash(n) \/ ClientWrites(n)
             \/ Starting(n) \/ Booting(n) \/ Syncing(n)
             \/ Handling(n) \/ Answering(n)
      PROVE  Typed'
  BY <1>1, LaunchTyped, StartingTyped, BootingTyped, HandlingTyped,
     AnsweringTyped DEF Handling, Answering
<1>2. ASSUME NEW msg \in net, Lose(msg) PROVE Typed'
  BY <1>2, HandlingTyped
<1>3. ASSUME NEW j \in jobs, SyncResponseBreaks(j) PROVE Typed'
  BY <1>3, AnsweringTyped
<1>4. CASE UNCHANGED vars
  BY <1>4 DEF vars, starting, syncing, traffic, files, Typed, TypeOK, Asking
<1> QED
  BY <1>1, <1>2, <1>3, <1>4 DEF Next

(* Start numbers what it asks, a reply carries the number of the request,  *)
(* and a node is never its own peer (cluster.go, Start and SyncRequest).   *)
THEOREM TypeCorrect == Spec => []TypeOK
BY InitTyped, NextTyped, PTL DEF Spec, Typed

(* The same, with what the proofs below need to know of Start.             *)
LEMMA AlwaysTyped == Spec => []Typed
BY InitTyped, NextTyped, PTL DEF Spec

-----------------------------------------------------------------------------
(* Why a node keeps its key file: as long as it has one, main does not     *)
(* begin to seal and no goroutine begins to store a key.                   *)
KeepsKey(n) ==
  /\ key[n] = n
  /\ main[n] # "sealing"
  /\ \A j \in jobs : j.node = n => SendsFile(j)

(* A populated node starts with its own key.                               *)
LEMMA InitKeepsKey == ASSUME NEW n \in Populated, Init PROVE KeepsKey(n)
  BY ClusterAssumption DEF Init, KeepsKey

(* No step takes it away: sealing, by main or by a handler, begins only    *)
(* where there is no key file.                                             *)
LEMMA NextKeepsKey ==
  ASSUME Typed, NEW n \in Populated, KeepsKey(n), [Next]_vars
  PROVE  KeepsKey(n)'
<1> USE DEF starting, syncing, traffic, files
<1>1. TypeOK /\ n \in Node /\ key[n] \notin {"NoKey", "EmptyKey"}
  BY NamesDiffer, ClusterAssumption DEF Typed, KeepsKey
<1>2. CASE UNCHANGED <<key, jobs>> /\ (main'[n] = main[n] \/ main'[n] # "sealing")
  BY <1>2 DEF KeepsKey
<1>3. ASSUME NEW m \in Node, Launch(m) \/ Starting(m) \/ ClientWrites(m) \/ Syncing(m)
      PROVE  KeepsKey(n)'
  <2>1. CASE Launch(m)
    BY <1>1, <1>2, <2>1 DEF Launch, TypeOK
  <2>2. CASE Starting(m)
    BY <1>2, <2>2 DEF Starting, PingSucceeds, PingFails, Discover,
                      RequestSharedKey, SyncRequest, SendSync
  <2>3. CASE ClientWrites(m) \/ Syncing(m)
    BY <1>2, <2>3 DEF ClientWrites, Syncing, OpenFileFails, TruncateDatabase,
                      WriteDatabase, WriteDatabaseFails
  <2> QED
    BY <1>3, <2>1, <2>2, <2>3
<1>4. ASSUME NEW m \in Node, NEW how \in {"down", "panicked"}, Die(m, how),
             UNCHANGED files
      PROVE  KeepsKey(n)'
  BY <1>1, <1>4 DEF Die, KeepsKey, TypeOK
<1>5. ASSUME NEW m \in Node, Booting(m)
      PROVE  KeepsKey(n)'
  <2>1. CASE ReadyFromStart(m) \/ ReadyFromSync(m) \/ OpenDatabase(m) \/ UnsealSharedKey(m)
    <3>1. UNCHANGED <<key, jobs>> /\ \E x \in {"seal", "open", "unseal", "up"} :
                                       main' = [main EXCEPT ![m] = x]
      BY <2>1 DEF ReadyFromStart, ReadyFromSync, OpenDatabase, UnsealSharedKey
    <3> QED
      BY <1>1, <1>2, <3>1 DEF TypeOK
  <2>2. CASE Seal(m)
    BY <1>1, <2>2 DEF Seal, TypeOK, KeepsKey
  <2>3. CASE WriteKey(m)
    BY <1>1, <2>3 DEF WriteKey, TypeOK, KeepsKey
  <2>4. CASE OpenDatabasePanics(m) \/ UnsealPanics(m)
    BY <1>4, <2>4 DEF OpenDatabasePanics, UnsealPanics
  <2> QED
    BY <1>5, <2>1, <2>2, <2>3, <2>4 DEF Booting
<1>6. ASSUME NEW msg \in net, ReceiveSyncRequest(msg) \/ SendSharedKey(msg)
                              \/ HandleSharedKey(msg) \/ Lose(msg)
      PROVE  KeepsKey(n)'
  <2>1. UNCHANGED <<main, key>>
    BY <1>6 DEF ReceiveSyncRequest, SendSharedKey, HandleSharedKey, Lose
  <2>2. \A x \in jobs' : x \in jobs \/ x.node # n \/ SendsFile(x)
    <3>1. CASE ReceiveSyncRequest(msg)
      <4>1. PICK y \in {"send file", "send nothing"} :
              jobs' = jobs \cup {[node |-> msg.to, peer |-> msg.from,
                                  try |-> msg.try, step |-> y]}
        BY <3>1 DEF ReceiveSyncRequest, Spawn
      <4>2. \A x \in jobs' : x \in jobs \/ x = [node |-> msg.to,
              peer |-> msg.from, try |-> msg.try, step |-> y]
        BY <4>1
      <4>3. SendsFile([node |-> msg.to, peer |-> msg.from, try |-> msg.try,
                       step |-> y])
        BY DEF SendsFile
      <4> QED
        BY <4>2, <4>3
    <3>2. CASE SendSharedKey(msg) \/ Lose(msg)
      BY <3>2 DEF SendSharedKey, Lose
    <3>3. CASE HandleSharedKey(msg)
      <4>1. CASE key[msg.to] # "NoKey"
        BY <3>3, <4>1 DEF HandleSharedKey
      <4>2. CASE key[msg.to] = "NoKey"
        <5>1. msg.to # n
          BY <1>1, <4>2
        <5>2. jobs' = jobs \cup {[node |-> msg.to, peer |-> msg.from,
                                  try |-> msg.try, step |-> "create key"]}
          BY <3>3, <4>2 DEF HandleSharedKey, Spawn
        <5>3. \A x \in jobs' : x \in jobs \/ x = [node |-> msg.to,
                peer |-> msg.from, try |-> msg.try, step |-> "create key"]
          BY <5>2
        <5>4. [node |-> msg.to, peer |-> msg.from, try |-> msg.try,
               step |-> "create key"].node = msg.to
          OBVIOUS
        <5> QED
          BY <5>1, <5>3, <5>4
      <4> QED
        BY <4>1, <4>2
    <3> QED
      BY <1>6, <3>1, <3>2, <3>3
  <2> QED
    BY <2>1, <2>2 DEF KeepsKey, SendsFile
<1>7. ASSUME NEW j \in jobs,
             \/ SyncResponse(j) \/ SyncResponseFails(j) \/ SyncResponseBreaks(j)
             \/ CreateKeyFile(j) \/ WriteKeyFile(j)
      PROVE  KeepsKey(n)'
  <2>1. CASE SyncResponse(j) \/ SyncResponseFails(j) \/ SyncResponseBreaks(j)
    <3>1. UNCHANGED <<main, key>> /\ jobs' \subseteq jobs
      BY <2>1 DEF SyncResponse, SyncResponseFails, SyncResponseBreaks
    <3> QED
      BY <3>1 DEF KeepsKey, SendsFile
  <2>2. CASE CreateKeyFile(j) \/ WriteKeyFile(j)
    <3>1. j.node # n
      <4>1. j.step \notin {"send file", "send nothing"}
        BY <2>2 DEF CreateKeyFile, WriteKeyFile
      <4> QED
        BY <4>1 DEF KeepsKey, SendsFile
    <3>2. j.node \in Node /\ [j EXCEPT !.step = "write key"].node = j.node
      BY <1>1 DEF TypeOK, Job
    <3>3. key'[n] = key[n] /\ main' = main
      <4>1. main' = main /\ \E x : key' = [key EXCEPT ![j.node] = x]
        BY <2>2 DEF CreateKeyFile, WriteKeyFile
      <4> QED
        BY <1>1, <3>1, <4>1 DEF TypeOK
    <3>4. \A x \in jobs' : x \in jobs \/ x = [j EXCEPT !.step = "write key"]
      BY <2>2 DEF CreateKeyFile, WriteKeyFile
    <3>5. \A x \in jobs' : x.node = n => x \in jobs
      BY <3>1, <3>2, <3>4
    <3> QED
      BY <3>3, <3>5 DEF KeepsKey, SendsFile
  <2> QED
    BY <1>7, <2>1, <2>2
<1>8. CASE UNCHANGED vars
  BY <1>2, <1>8 DEF vars
<1> QED
  BY <1>3, <1>4, <1>5, <1>6, <1>7, <1>8
     DEF Next, Crash, Handling, Answering

(* A node that has its key file when it is launched keeps it through any   *)
(* number of crashes and restarts, whatever messages and replies to an     *)
(* earlier life come (crypto.go, SealSharedKey).                           *)
THEOREM KeyFileAlwaysKept == Spec => []KeyFileKept
<1> DEFINE Kept == \A n \in Populated : KeepsKey(n)
<1>1. Init => Kept
  BY InitKeepsKey
<1>2. Typed /\ Kept /\ [Next]_vars => Kept'
  BY NextKeepsKey
<1>3. Kept => KeyFileKept
  BY DEF KeepsKey, KeyFileKept
<1> QED
  BY <1>1, <1>2, <1>3, AlwaysTyped, PTL DEF Spec

-----------------------------------------------------------------------------
(* Who becomes a first node: the node itself, and only while its discovery *)
(* host does not listen.                                                   *)
RunsFirst(n) == first[n] /\ start[n] # "down"

(* Only a ping that fails makes a node a first node.                       *)
LEMMA NextRunsFirst ==
  ASSUME Typed, ~ Faulty, [Next]_vars, NEW n \in Node, RunsFirst(n)', ~ RunsFirst(n)
  PROVE  start[Discovery[n]] = "down" /\ start' = start
<1> USE DEF starting, syncing, traffic, files
<1>1. TypeOK
  BY DEF Typed
<1>2. ASSUME NEW m \in Node, Launch(m)
      PROVE  FALSE
  BY <1>1, <1>2 DEF Launch, TypeOK, RunsFirst
<1>3. ASSUME NEW m \in Node, NEW how, Die(m, how)
      PROVE  FALSE
  BY <1>1, <1>3 DEF Die, TypeOK, RunsFirst
<1>4. ASSUME NEW m \in Node, PingFails(m)
      PROVE  start[Discovery[n]] = "down" /\ start' = start
  BY <1>1, <1>4 DEF PingFails, MayFail, Listening, TypeOK, RunsFirst
<1>5. ASSUME first' = first, \A m \in Node : start[m] = "down" => start'[m] = "down"
      PROVE  FALSE
  BY <1>5 DEF RunsFirst
<1>6. ASSUME NEW m \in Node, first' = first, start[m] # "down",
             NEW x, start' = [start EXCEPT ![m] = x]
      PROVE  FALSE
  BY <1>1, <1>5, <1>6 DEF TypeOK, RunsFirst
<1>7. ASSUME NEW m \in Node, Starting(m)
      PROVE  start[Discovery[n]] = "down" /\ start' = start
  <2>1. CASE PingSucceeds(m) \/ Discover(m) \/ RequestSharedKey(m) \/ SyncRequest(m)
               \/ SendSync(m)
    <3>1. /\ first' = first /\ start[m] # "down"
          /\ \E x : start' = [start EXCEPT ![m] = x]
      BY <2>1
         DEF PingSucceeds, Discover, RequestSharedKey, SyncRequest, SendSync
    <3> QED
      BY <1>6, <3>1
  <2> QED
    BY <1>4, <1>7, <2>1 DEF Starting
<1>8. ASSUME NEW m \in Node, Booting(m) \/ Syncing(m) \/ ClientWrites(m)
      PROVE  FALSE
  <2>1. CASE ReadyFromStart(m)
    BY <1>1, <1>6, <2>1 DEF ReadyFromStart
  <2>2. CASE \/ ReadyFromSync(m) \/ Seal(m) \/ WriteKey(m) \/ OpenDatabase(m)
             \/ UnsealSharedKey(m) \/ Syncing(m) \/ ClientWrites(m)
    BY <1>5, <2>2
       DEF ReadyFromSync, Seal, WriteKey, OpenDatabase, UnsealSharedKey,
           Syncing, OpenFileFails, TruncateDatabase, WriteDatabase,
           WriteDatabaseFails, ClientWrites
  <2>3. CASE OpenDatabasePanics(m) \/ UnsealPanics(m)
    BY <1>3, <2>3 DEF OpenDatabasePanics, UnsealPanics
  <2> QED
    BY <1>8, <2>1, <2>2, <2>3 DEF Booting
<1>9. ASSUME NEW msg \in net, ReceiveSyncRequest(msg) \/ SendSharedKey(msg)
                              \/ HandleSharedKey(msg) \/ Lose(msg)
      PROVE  FALSE
  BY <1>5, <1>9 DEF ReceiveSyncRequest, SendSharedKey, HandleSharedKey, Lose
<1>10. ASSUME NEW j \in jobs,
              \/ SyncResponse(j) \/ SyncResponseFails(j) \/ SyncResponseBreaks(j)
              \/ CreateKeyFile(j) \/ WriteKeyFile(j)
       PROVE  FALSE
  BY <1>5, <1>10 DEF SyncResponse, SyncResponseFails, SyncResponseBreaks,
                     CreateKeyFile, WriteKeyFile
<1>11. CASE UNCHANGED vars
  BY <1>5, <1>11 DEF vars
<1> QED
  BY <1>2, <1>3, <1>7, <1>8, <1>9, <1>10, <1>11
     DEF Next, Crash, Handling, Answering

(* On a network that works, two nodes that are each other's discovery host *)
(* never both run as the first node, whatever crashes and comes back,      *)
(* because a node listens before it pings (cluster.go, Start).             *)
THEOREM OneFirstNode == ASSUME ~ Faulty PROVE Spec => []AtMostOneFirstNode
<1>1. Init => AtMostOneFirstNode
  BY DEF Init, AtMostOneFirstNode
<1>2. Typed /\ AtMostOneFirstNode /\ [Next]_vars => AtMostOneFirstNode'
  <2> SUFFICES ASSUME Typed, AtMostOneFirstNode, [Next]_vars,
                      NEW m \in Node, NEW n \in Node,
                      m # n, Discovery[m] = n, Discovery[n] = m,
                      RunsFirst(m)', RunsFirst(n)'
               PROVE  FALSE
    BY DEF AtMostOneFirstNode, RunsFirst
  <2>1. RunsFirst(m)
    BY NextRunsFirst DEF RunsFirst
  <2>2. RunsFirst(n)
    BY NextRunsFirst DEF RunsFirst
  <2> QED
    BY <2>1, <2>2 DEF AtMostOneFirstNode, RunsFirst
<1> QED
  BY <1>1, <1>2, AlwaysTyped, PTL DEF Spec

-----------------------------------------------------------------------------
(* Why no database is truncated under the KV service, when no node is      *)
(* launched again.  A node that was asked for its database, or is about to *)
(* answer, was asked by a node whose startup is over.                      *)
Unasked(n) ==
  /\ \A msg \in net : msg.type = "sync:request" => msg.from # n
  /\ \A j \in jobs : SendsFile(j) => j.peer # n

(* main no longer waits, or is about to stop waiting ...                   *)
Woken(n) == signal[n] \/ main[n] \notin {"down", "wait"}

(* ... and no database will come in: the socket was never opened, or is    *)
(* closed for good, or is open but no peer can have been asked.            *)
SyncOver(n) ==
  \/ start[n] = "down"
  \/ first[n]
  \/ n \notin Certified
  \/ ~ startup[n] /\ sock[n] = "closed"
  \/ startup[n] /\ sock[n] = "accept" /\ start[n] # "send"

LaunchedOnce(n) ==
  /\ launches[n] = 0 => startup[n]
  /\ main[n] = "down" <=> launches[n] = 0
  /\ main[n] \in {"down", "panicked"} <=> start[n] = "down"
  /\ start[n] = "down" => sock[n] = "closed" /\ recv[n] = "none" /\ ~ signal[n]

SyncedOnce(n) ==
  /\ startup[n] => sock[n] \in {"closed", "accept"} /\ recv[n] = "none"
  /\ ~ startup[n] => start[n] \in {"discover", "down"} /\ ~ first[n]
  /\ first[n] => sock[n] = "closed"
                 /\ start[n] \in {"ping", "discover", "ready", "down"}
  /\ start[n] = "ready" => first[n]
  /\ n \notin Certified => sock[n] = "closed" /\ start[n] # "send"
  /\ start[n] = "ping" => sock[n] = "closed"
  /\ sock[n] = "accept" => recv[n] = "none"
  /\ sock[n] = "closed" /\ recv[n] = "data" => db[n] = "data"
  /\ Woken(n) => SyncOver(n)

SyncSafe(n) ==
  LaunchedOnce(n) /\ SyncedOnce(n) /\ (startup[n] => Unasked(n))

(* What one node does to itself leaves the others as they are.             *)
Same(n) ==
  /\ main'[n] = main[n] /\ start'[n] = start[n] /\ first'[n] = first[n]
  /\ startup'[n] = startup[n] /\ sock'[n] = sock[n] /\ recv'[n] = recv[n]
  /\ signal'[n] = signal[n] /\ launches'[n] = launches[n] /\ db'[n] = db[n]

StaysUnasked(n) ==
  /\ \A msg \in net' : msg \in net \/ msg.from # n \/ msg.type # "sync:request"
  /\ \A j \in jobs' : j \in jobs \/ j.peer # n \/ ~ SendsFile(j)

(* A step that leaves n as it is, and asks or answers no one for n before  *)
(* n has asked, keeps n safe.                                              *)
LEMMA SameIsSafe ==
  ASSUME NEW n \in Node, SyncSafe(n), Same(n), startup[n] => StaysUnasked(n)
  PROVE  SyncSafe(n)'
<1>1. LaunchedOnce(n)'
  BY DEF SyncSafe, Same, LaunchedOnce
<1>2. SyncedOnce(n)'
  BY DEF SyncSafe, Same, SyncedOnce, Woken, SyncOver
<1>3. startup'[n] => Unasked(n)'
  <2>1. startup'[n] => startup[n]
    BY DEF Same
  <2>2. startup[n] /\ Unasked(n) /\ StaysUnasked(n) => Unasked(n)'
    BY DEF Unasked, StaysUnasked, SendsFile
  <2> QED
    BY <2>1, <2>2 DEF SyncSafe
<1> QED
  BY <1>1, <1>2, <1>3 DEF SyncSafe

(* What the invariant is for.                                              *)
LEMMA SafeMeansSafe ==
  ASSUME NEW n \in Node, Typed, SyncSafe(n)
  PROVE  /\ sock[n] \in {"received", "write"} => main[n] = "wait"
         /\ main[n] = "up" /\ recv[n] = "data" => db[n] = "data"
  BY DEF Typed, TypeOK, SyncSafe, LaunchedOnce, SyncedOnce, Woken, SyncOver

(* It holds of a node that was not launched yet,                           *)
LEMMA InitSyncSafe == ASSUME Init, NEW n \in Node PROVE SyncSafe(n)
  BY DEF Init, SyncSafe, LaunchedOnce, SyncedOnce, Unasked, Woken, SyncOver

(* What another node does to itself does not touch n,                      *)
LEMMA OthersSame ==
  ASSUME Typed, NEW m \in Node, NEW n \in Node, m # n,
         Launch(m) \/ Starting(m) \/ Booting(m) \/ Syncing(m) \/ ClientWrites(m)
  PROVE  Same(n) /\ StaysUnasked(n)
<1> USE DEF Same, starting, syncing, traffic, files
<1>1. TypeOK
  BY DEF Typed
<1>2. ASSUME NEW x \in Message, x.from # n, net' \subseteq net \cup {x},
             jobs' \subseteq jobs
      PROVE  StaysUnasked(n)
  BY <1>2 DEF StaysUnasked
<1>3. ASSUME net' \subseteq net, jobs' \subseteq jobs
      PROVE  StaysUnasked(n)
  BY <1>3 DEF StaysUnasked
<1>4. CASE Launch(m)
  BY <1>1, <1>3, <1>4 DEF Launch, TypeOK
<1>5. CASE PingSucceeds(m) \/ PingFails(m)
  BY <1>1, <1>3, <1>5 DEF PingSucceeds, PingFails, TypeOK
<1>6. CASE Discover(m)
  <2>1. PICK x : start' = [start EXCEPT ![m] = x]
    BY <1>6 DEF Discover
  <2> QED
    BY <1>1, <1>3, <1>6, <2>1 DEF Discover, TypeOK
<1>7. CASE RequestSharedKey(m)
  <2>1. \A k, t : \A msg \in Send("sync:sharedkey", m, k, t) :
          msg \in net \/ msg.type # "sync:request"
    BY DEF Send
  <2>2. StaysUnasked(n)
    BY <1>7, <2>1 DEF RequestSharedKey, StaysUnasked
  <2> QED
    BY <1>1, <1>7, <2>2 DEF RequestSharedKey, TypeOK
<1>8. CASE SyncRequest(m)
  <2>1. /\ \E x : start' = [start EXCEPT ![m] = x]
        /\ sock' = sock \/ sock' = [sock EXCEPT ![m] = "accept"]
        /\ signal' = signal \/ signal' = [signal EXCEPT ![m] = TRUE]
        /\ UNCHANGED <<main, starting, recv, traffic, files, kvkey, launches>>
    BY <1>8 DEF SyncRequest
  <2>2. start'[n] = start[n]
    BY <1>1, <2>1 DEF TypeOK
  <2>3. sock'[n] = sock[n]
    BY <1>1, <2>1 DEF TypeOK
  <2>4. signal'[n] = signal[n]
    BY <1>1, <2>1 DEF TypeOK
  <2> QED
    BY <1>3, <2>1, <2>2, <2>3, <2>4
<1>9. CASE SendSync(m)
  <2>1. \A k, t : \A msg \in Send("sync:request", m, k, t) :
          msg \in net \/ msg.from # n
    BY DEF Send
  <2>2. StaysUnasked(n)
    BY <1>9, <2>1 DEF SendSync, StaysUnasked
  <2> QED
    BY <1>1, <1>9, <2>2 DEF SendSync, TypeOK
<1>10. CASE ReadyFromStart(m) \/ ReadyFromSync(m)
  BY <1>1, <1>3, <1>10 DEF ReadyFromStart, ReadyFromSync, TypeOK
<1>11. CASE Seal(m) \/ WriteKey(m) \/ UnsealSharedKey(m)
  <2>1. \E x : main' = [main EXCEPT ![m] = x]
    BY <1>11 DEF Seal, WriteKey, UnsealSharedKey
  <2>2. UNCHANGED <<start, starting, syncing, traffic, db, launches>>
    BY <1>11 DEF Seal, WriteKey, UnsealSharedKey
  <2> QED
    BY <1>1, <1>3, <2>1, <2>2 DEF TypeOK
<1>12. CASE OpenDatabase(m) \/ ClientWrites(m)
  <2>1. /\ \E x : db' = [db EXCEPT ![m] = x]
        /\ main' = main \/ main' = [main EXCEPT ![m] = "unseal"]
        /\ UNCHANGED <<start, starting, syncing, traffic, launches>>
    BY <1>12 DEF OpenDatabase, ClientWrites
  <2> QED
    BY <1>1, <1>3, <2>1 DEF TypeOK
<1>13. CASE OpenDatabasePanics(m) \/ UnsealPanics(m)
  BY <1>1, <1>3, <1>13 DEF OpenDatabasePanics, UnsealPanics, Die, TypeOK
<1>14. CASE Syncing(m)
  <2>1. CASE OpenFileFails(m)
    BY <1>1, <1>3, <2>1 DEF OpenFileFails, TypeOK
  <2>2. CASE TruncateDatabase(m)
    BY <1>1, <1>3, <2>2 DEF TruncateDatabase, TypeOK
  <2>3. CASE WriteDatabase(m)
    BY <1>1, <1>3, <2>3 DEF WriteDatabase, TypeOK
  <2>4. CASE WriteDatabaseFails(m)
    <3>1. /\ \E d : db' = [db EXCEPT ![m] = d]
          /\ sock' = [sock EXCEPT ![m] = "closed"]
          /\ recv' = [recv EXCEPT ![m] = "failed"]
          /\ signal' = [signal EXCEPT ![m] = TRUE]
          /\ UNCHANGED <<main, start, starting, traffic, key, kvkey, launches>>
      BY <2>4 DEF WriteDatabaseFails
    <3>2. db'[n] = db[n] /\ sock'[n] = sock[n]
      BY <1>1, <3>1 DEF TypeOK
    <3>3. recv'[n] = recv[n] /\ signal'[n] = signal[n]
      BY <1>1, <3>1 DEF TypeOK
    <3> QED
      BY <1>3, <3>1, <3>2, <3>3
  <2> QED
    BY <1>14, <2>1, <2>2, <2>3, <2>4 DEF Syncing
<1> QED
  BY <1>4, <1>5, <1>6, <1>7, <1>8, <1>9, <1>10, <1>11, <1>12, <1>13, <1>14
     DEF Starting, Booting

(* what n does to itself keeps it safe,                                    *)
LEMMA OwnStepSafe ==
  ASSUME MaxLaunch = 1, Typed, NEW n \in Node, SyncSafe(n),
         Launch(n) \/ Starting(n) \/ Booting(n) \/ Syncing(n) \/ ClientWrites(n)
  PROVE  SyncSafe(n)'
<1> USE DEF starting, syncing, traffic, files
<1>1. TypeOK /\ LaunchedOnce(n) /\ SyncedOnce(n) /\ (startup[n] => Unasked(n))
  BY DEF Typed, SyncSafe
<1> USE <1>1
<1>2. ASSUME LaunchedOnce(n)', SyncedOnce(n)',
             startup'[n] => startup[n] /\ StaysUnasked(n)
      PROVE  SyncSafe(n)'
  <2>1. startup'[n] => Unasked(n)'
    BY <1>2 DEF Unasked, StaysUnasked, SendsFile
  <2> QED
    BY <1>2, <2>1 DEF SyncSafe
<1>3. CASE Launch(n)
  <2>1. LaunchedOnce(n)'
    BY <1>3 DEF Launch, TypeOK, LaunchedOnce, SyncedOnce
  <2>2. SyncedOnce(n)'
    BY <1>3 DEF Launch, TypeOK, LaunchedOnce, SyncedOnce, Woken, SyncOver
  <2>3. startup'[n] => startup[n] /\ StaysUnasked(n)
    BY <1>3 DEF Launch, TypeOK, StaysUnasked, LaunchedOnce
  <2> QED
    BY <2>1, <2>2, <2>3, <1>2
<1>4. CASE PingSucceeds(n)
  <2>1. LaunchedOnce(n)'
    BY <1>4 DEF PingSucceeds, TypeOK, LaunchedOnce, SyncedOnce
  <2>2. SyncedOnce(n)'
    BY <1>4 DEF PingSucceeds, TypeOK, LaunchedOnce, SyncedOnce, Woken, SyncOver
  <2>3. startup'[n] => startup[n] /\ StaysUnasked(n)
    BY <1>4 DEF PingSucceeds, TypeOK, StaysUnasked, LaunchedOnce
  <2> QED
    BY <2>1, <2>2, <2>3, <1>2
<1>5. CASE PingFails(n)
  <2>1. LaunchedOnce(n)'
    BY <1>5 DEF PingFails, TypeOK, LaunchedOnce, SyncedOnce
  <2>2. SyncedOnce(n)'
    BY <1>5 DEF PingFails, TypeOK, LaunchedOnce, SyncedOnce, Woken, SyncOver
  <2>3. startup'[n] => startup[n] /\ StaysUnasked(n)
    BY <1>5 DEF PingFails, TypeOK, StaysUnasked, LaunchedOnce
  <2> QED
    BY <2>1, <2>2, <2>3, <1>2
<1>6. CASE Discover(n)
  <2>1. LaunchedOnce(n)'
    BY <1>6 DEF Discover, TypeOK, LaunchedOnce, SyncedOnce
  <2>2. SyncedOnce(n)'
    BY <1>6 DEF Discover, TypeOK, LaunchedOnce, SyncedOnce, Woken, SyncOver
  <2>3. startup'[n] => startup[n] /\ StaysUnasked(n)
    BY <1>6 DEF Discover, TypeOK, StaysUnasked, LaunchedOnce
  <2> QED
    BY <2>1, <2>2, <2>3, <1>2
<1>7. CASE RequestSharedKey(n)
  <2>1. start[n] = "key" /\ start'[n] = "sync"
    BY <1>7 DEF RequestSharedKey, TypeOK
  <2>2. UNCHANGED <<main, first, startup, sock, recv, signal, db, launches>>
    BY <1>7 DEF RequestSharedKey
  <2>3. LaunchedOnce(n)'
    BY <2>1, <2>2 DEF LaunchedOnce
  <2>4. SyncedOnce(n)'
    BY <2>1, <2>2 DEF LaunchedOnce, SyncedOnce, Woken, SyncOver
  <2>5. startup'[n] => startup[n] /\ StaysUnasked(n)
    BY <1>7 DEF RequestSharedKey, Send, TypeOK, StaysUnasked, LaunchedOnce
  <2> QED
    BY <2>3, <2>4, <2>5, <1>2
<1>8. CASE SyncRequest(n)
  <2>1. /\ start[n] = "sync"
        /\ UNCHANGED <<main, first, startup, recv, db, launches>>
        /\ \/ /\ n \notin Certified /\ start'[n] = "stuck"
              /\ signal'[n] /\ sock'[n] = sock[n]
           \/ /\ n \in Certified /\ start'[n] = "send"
              /\ sock[n] = "closed" /\ sock'[n] = "accept"
              /\ signal'[n] = signal[n]
           \/ /\ n \in Certified /\ start'[n] = "discover"
              /\ sock[n] # "closed" /\ signal'[n] /\ sock'[n] = sock[n]
    <3>1. CASE n \notin Certified
      BY <1>8, <3>1 DEF SyncRequest, TypeOK
    <3>2. CASE n \in Certified /\ sock[n] = "closed"
      BY <1>8, <3>2 DEF SyncRequest, TypeOK
    <3>3. CASE n \in Certified /\ sock[n] # "closed"
      BY <1>8, <3>3 DEF SyncRequest, TypeOK
    <3> QED
      BY <3>1, <3>2, <3>3
  <2>2. LaunchedOnce(n)'
    <3>1. start[n] # "down" /\ start'[n] # "down" /\ main' = main
          /\ launches' = launches /\ startup' = startup
      BY <2>1
    <3> QED
      BY <3>1 DEF LaunchedOnce
  <2>3. SyncedOnce(n)'
    <3>1. startup[n] /\ ~ first[n] /\ recv[n] = "none"
          /\ sock[n] \in {"closed", "accept"} /\ main[n] \notin {"down", "panicked"}
      <4>1. start[n] = "sync"
        BY <2>1
      <4>2. main[n] \notin {"down", "panicked"}
        BY <4>1 DEF LaunchedOnce
      <4> QED
        BY <4>1, <4>2 DEF SyncedOnce
    <3>2. Woken(n)' => SyncOver(n)'
      <4>1. CASE start'[n] = "send"
        <5>1. start[n] = "sync" /\ sock[n] = "closed" /\ n \in Certified
              /\ signal'[n] = signal[n] /\ main' = main
          BY <2>1, <4>1
        <5>2. ~ SyncOver(n)
          BY <3>1, <5>1 DEF SyncOver
        <5> QED
          BY <5>1, <5>2 DEF SyncedOnce, Woken
      <4>2. CASE start'[n] # "send"
        BY <2>1, <3>1, <4>2 DEF SyncOver
      <4> QED
        BY <4>1, <4>2
    <3> QED
      BY <2>1, <3>1, <3>2 DEF SyncedOnce
  <2>4. startup'[n] => startup[n] /\ StaysUnasked(n)
    BY <1>8 DEF SyncRequest, TypeOK, StaysUnasked, LaunchedOnce
  <2> QED
    BY <2>2, <2>3, <2>4, <1>2
<1>9. CASE SendSync(n)
  <2>1. LaunchedOnce(n)'
    BY <1>9 DEF SendSync, Send, TypeOK, LaunchedOnce, SyncedOnce
  <2>2. SyncedOnce(n)'
    BY <1>9
       DEF SendSync, Send, TypeOK, LaunchedOnce, SyncedOnce, Woken, SyncOver
  <2>3. startup'[n] => startup[n] /\ StaysUnasked(n)
    BY <1>9 DEF SendSync, Send, TypeOK, StaysUnasked, LaunchedOnce
  <2> QED
    BY <2>1, <2>2, <2>3, <1>2
<1>10. CASE ReadyFromStart(n)
  <2>1. LaunchedOnce(n)'
    BY <1>10 DEF ReadyFromStart, TypeOK, LaunchedOnce, SyncedOnce
  <2>2. SyncedOnce(n)'
    BY <1>10
       DEF ReadyFromStart, TypeOK, LaunchedOnce, SyncedOnce, Woken, SyncOver
  <2>3. startup'[n] => startup[n] /\ StaysUnasked(n)
    BY <1>10 DEF ReadyFromStart, TypeOK, StaysUnasked, LaunchedOnce
  <2> QED
    BY <2>1, <2>2, <2>3, <1>2
<1>11. CASE ReadyFromSync(n)
  <2>1. LaunchedOnce(n)'
    BY <1>11 DEF ReadyFromSync, TypeOK, LaunchedOnce, SyncedOnce
  <2>2. SyncedOnce(n)'
    BY <1>11
       DEF ReadyFromSync, TypeOK, LaunchedOnce, SyncedOnce, Woken, SyncOver
  <2>3. startup'[n] => startup[n] /\ StaysUnasked(n)
    BY <1>11 DEF ReadyFromSync, TypeOK, StaysUnasked, LaunchedOnce
  <2> QED
    BY <2>1, <2>2, <2>3, <1>2
<1>12. CASE Seal(n)
  <2>1. LaunchedOnce(n)'
    BY <1>12 DEF Seal, TypeOK, LaunchedOnce, SyncedOnce
  <2>2. SyncedOnce(n)'
    BY <1>12 DEF Seal, TypeOK, LaunchedOnce, SyncedOnce, Woken, SyncOver
  <2>3. startup'[n] => startup[n] /\ StaysUnasked(n)
    BY <1>12 DEF Seal, TypeOK, StaysUnasked, LaunchedOnce
  <2> QED
    BY <2>1, <2>2, <2>3, <1>2
<1>13. CASE WriteKey(n)
  <2>1. LaunchedOnce(n)'
    BY <1>13 DEF WriteKey, TypeOK, LaunchedOnce, SyncedOnce
  <2>2. SyncedOnce(n)'
    BY <1>13 DEF WriteKey, TypeOK, LaunchedOnce, SyncedOnce, Woken, SyncOver
  <2>3. startup'[n] => startup[n] /\ StaysUnasked(n)
    BY <1>13 DEF WriteKey, TypeOK, StaysUnasked, LaunchedOnce
  <2> QED
    BY <2>1, <2>2, <2>3, <1>2
<1>14. CASE OpenDatabase(n)
  <2>1. LaunchedOnce(n)'
    BY <1>14 DEF OpenDatabase, TypeOK, LaunchedOnce, SyncedOnce
  <2>2. SyncedOnce(n)'
    BY <1>14 DEF OpenDatabase, TypeOK, LaunchedOnce, SyncedOnce, Woken, SyncOver
  <2>3. startup'[n] => startup[n] /\ StaysUnasked(n)
    BY <1>14 DEF OpenDatabase, TypeOK, StaysUnasked, LaunchedOnce
  <2> QED
    BY <2>1, <2>2, <2>3, <1>2
<1>15. CASE UnsealSharedKey(n)
  <2>1. LaunchedOnce(n)'
    BY <1>15 DEF UnsealSharedKey, TypeOK, LaunchedOnce, SyncedOnce
  <2>2. SyncedOnce(n)'
    BY <1>15
       DEF UnsealSharedKey, TypeOK, LaunchedOnce, SyncedOnce, Woken, SyncOver
  <2>3. startup'[n] => startup[n] /\ StaysUnasked(n)
    BY <1>15 DEF UnsealSharedKey, TypeOK, StaysUnasked, LaunchedOnce
  <2> QED
    BY <2>1, <2>2, <2>3, <1>2
<1>16. CASE OpenDatabasePanics(n) \/ UnsealPanics(n)
  <2>4. Die(n, "panicked") /\ UNCHANGED files /\ main[n] \in {"open", "unseal"}
    BY <1>16 DEF OpenDatabasePanics, UnsealPanics
  <2>1. LaunchedOnce(n)'
    BY <2>4 DEF Die, TypeOK, LaunchedOnce, SyncedOnce
  <2>2. SyncedOnce(n)'
    BY <2>4 DEF Die, TypeOK, LaunchedOnce, SyncedOnce, Woken, SyncOver
  <2>3. startup'[n] => startup[n] /\ StaysUnasked(n)
    BY <2>4 DEF Die, TypeOK, StaysUnasked, LaunchedOnce
  <2> QED
    BY <2>1, <2>2, <2>3, <1>2
<1>17. CASE TruncateDatabase(n)
  <2>1. LaunchedOnce(n)'
    BY <1>17 DEF TruncateDatabase, TypeOK, LaunchedOnce, SyncedOnce
  <2>2. SyncedOnce(n)'
    BY <1>17
       DEF TruncateDatabase, TypeOK, LaunchedOnce, SyncedOnce, Woken, SyncOver
  <2>3. startup'[n] => startup[n] /\ StaysUnasked(n)
    BY <1>17 DEF TruncateDatabase, TypeOK, StaysUnasked, LaunchedOnce
  <2> QED
    BY <2>1, <2>2, <2>3, <1>2
<1>18. CASE WriteDatabase(n)
  <2>1. LaunchedOnce(n)'
    BY <1>18 DEF WriteDatabase, TypeOK, LaunchedOnce, SyncedOnce
  <2>2. SyncedOnce(n)'
    BY <1>18
       DEF WriteDatabase, TypeOK, LaunchedOnce, SyncedOnce, Woken, SyncOver
  <2>3. startup'[n] => startup[n] /\ StaysUnasked(n)
    BY <1>18 DEF WriteDatabase, TypeOK, StaysUnasked, LaunchedOnce
  <2> QED
    BY <2>1, <2>2, <2>3, <1>2
<1>19. CASE ClientWrites(n)
  <2>1. LaunchedOnce(n)'
    BY <1>19 DEF ClientWrites, TypeOK, LaunchedOnce, SyncedOnce
  <2>2. SyncedOnce(n)'
    BY <1>19 DEF ClientWrites, TypeOK, LaunchedOnce, SyncedOnce, Woken, SyncOver
  <2>3. startup'[n] => startup[n] /\ StaysUnasked(n)
    BY <1>19 DEF ClientWrites, TypeOK, StaysUnasked, LaunchedOnce
  <2> QED
    BY <2>1, <2>2, <2>3, <1>2
<1>20. CASE OpenFileFails(n)
  <2>1. /\ sock[n] \in {"received", "write"} /\ sock'[n] = "closed"
        /\ recv'[n] = "failed" /\ signal'[n]
        /\ UNCHANGED <<main, start, first, startup, net, jobs, launches>>
    BY <1>20 DEF OpenFileFails, TypeOK
  <2>2. ~ startup[n] /\ start[n] # "down"
    BY <2>1 DEF SyncedOnce, LaunchedOnce
  <2>3. LaunchedOnce(n)'
    BY <2>1, <2>2 DEF LaunchedOnce
  <2>4. SyncedOnce(n)'
    BY <2>1, <2>2 DEF SyncedOnce, Woken, SyncOver
  <2>5. startup'[n] => startup[n] /\ StaysUnasked(n)
    BY <2>1, <2>2 DEF StaysUnasked
  <2> QED
    BY <2>3, <2>4, <2>5, <1>2
<1>21. CASE WriteDatabaseFails(n)
  <2>1. /\ sock[n] \in {"received", "write"} /\ sock'[n] = "closed"
        /\ recv'[n] = "failed" /\ signal'[n]
        /\ UNCHANGED <<main, start, first, startup, net, jobs, launches>>
    BY <1>21 DEF WriteDatabaseFails, TypeOK
  <2>2. ~ startup[n] /\ start[n] # "down"
    BY <2>1 DEF SyncedOnce, LaunchedOnce
  <2>3. LaunchedOnce(n)'
    BY <2>1, <2>2 DEF LaunchedOnce
  <2>4. SyncedOnce(n)'
    BY <2>1, <2>2 DEF SyncedOnce, Woken, SyncOver
  <2>5. startup'[n] => startup[n] /\ StaysUnasked(n)
    BY <2>1, <2>2 DEF StaysUnasked
  <2> QED
    BY <2>3, <2>4, <2>5, <1>2
<1> QED
  BY <1>3, <1>4, <1>5, <1>6, <1>7, <1>8, <1>9, <1>10, <1>11, <1>12, <1>13,
     <1>14, <1>15, <1>16, <1>17, <1>18, <1>19, <1>20, <1>21
     DEF Starting, Booting, Syncing

(* messages start no answer to a node that did not ask,                    *)
LEMMA HandlingSafe ==
  ASSUME Typed, NEW n \in Node, SyncSafe(n), NEW msg \in net,
         ReceiveSyncRequest(msg) \/ SendSharedKey(msg) \/ HandleSharedKey(msg)
           \/ Lose(msg)
  PROVE  SyncSafe(n)'
<1> USE DEF starting, syncing, traffic, files
<1>1. Same(n)
  BY DEF ReceiveSyncRequest, SendSharedKey, HandleSharedKey, Lose, Same
<1>2. ASSUME NEW x, net' \subseteq net \cup {x}, x.type # "sync:request"
      PROVE  \A y \in net' : y \in net \/ y.from # n \/ y.type # "sync:request"
  BY <1>2
<1>3. ASSUME NEW x, jobs' \subseteq jobs \cup {x}, x.peer # n \/ ~ SendsFile(x)
      PROVE  \A y \in jobs' : y \in jobs \/ y.peer # n \/ ~ SendsFile(y)
  BY <1>3
<1>4. CASE ReceiveSyncRequest(msg)
  <2>1. startup[n] => msg.from # n
    BY <1>4 DEF ReceiveSyncRequest, SyncSafe, Unasked
  <2>2. PICK y : jobs' = jobs \cup {[node |-> msg.to, peer |-> msg.from,
                                     try |-> msg.try, step |-> y]}
    BY <1>4 DEF ReceiveSyncRequest, Spawn
  <2>3. net' \subseteq net
    BY <1>4 DEF ReceiveSyncRequest, Remove
  <2>4. [node |-> msg.to, peer |-> msg.from, try |-> msg.try, step |-> y].peer = msg.from
    OBVIOUS
  <2>5. startup[n] => \A x \in jobs' : x \in jobs \/ x.peer # n \/ ~ SendsFile(x)
    BY <1>3, <2>1, <2>2, <2>4
  <2> QED
    BY <1>1, <2>3, <2>5, SameIsSafe DEF StaysUnasked
<1>5. CASE SendSharedKey(msg)
  <2>1. PICK x : /\ x = [type |-> "sync:sendsharedkey", from |-> msg.to,
                         to |-> msg.from, try |-> msg.try]
                 /\ net' \subseteq net \cup {x}
    BY <1>5 DEF SendSharedKey, Remove
  <2>2. jobs' = jobs /\ x.type # "sync:request"
    BY <1>5, <2>1 DEF SendSharedKey
  <2> QED
    BY <1>1, <1>2, <2>1, <2>2, SameIsSafe DEF StaysUnasked
<1>6. CASE HandleSharedKey(msg)
  <2>1. PICK x : /\ x = [node |-> msg.to, peer |-> msg.from, try |-> msg.try,
                         step |-> "create key"]
                 /\ jobs' \subseteq jobs \cup {x}
    BY <1>6 DEF HandleSharedKey, Spawn
  <2>2. net' \subseteq net /\ ~ SendsFile(x)
    BY <1>6, <2>1 DEF HandleSharedKey, Remove, SendsFile
  <2> QED
    BY <1>1, <1>3, <2>1, <2>2, SameIsSafe DEF StaysUnasked
<1>7. CASE Lose(msg)
  BY <1>1, <1>7, SameIsSafe DEF Lose, Remove, StaysUnasked
<1> QED
  BY <1>4, <1>5, <1>6, <1>7

(* answers reach the socket only of a node that did ask,                   *)
LEMMA AnsweringSafe ==
  ASSUME Typed, NEW n \in Node, SyncSafe(n), NEW j \in jobs,
         \/ SyncResponse(j) \/ SyncResponseFails(j) \/ SyncResponseBreaks(j)
         \/ CreateKeyFile(j) \/ WriteKeyFile(j)
  PROVE  SyncSafe(n)'
<1> USE DEF starting, syncing, traffic, files
<1>1. TypeOK /\ j.peer \in Node /\ j.node \in Node
  BY DEF Typed, TypeOK, Job
<1>2. CASE CreateKeyFile(j)
  <2>1. /\ \A x \in jobs' : x \in jobs \/ x = [j EXCEPT !.step = "write key"]
        /\ net' = net /\ Same(n)
    BY <1>2 DEF CreateKeyFile, Same
  <2>2. ~ SendsFile([j EXCEPT !.step = "write key"])
    BY <1>1 DEF SendsFile, TypeOK, Job
  <2> QED
    BY <2>1, <2>2, SameIsSafe DEF StaysUnasked
<1>3. CASE WriteKeyFile(j) \/ SyncResponseFails(j)
  BY <1>3, SameIsSafe DEF WriteKeyFile, SyncResponseFails, Same, StaysUnasked
<1>4. CASE (SyncResponse(j) \/ SyncResponseBreaks(j)) /\ j.peer # n
  <2>1. CASE SyncResponse(j)
    BY <1>1, <1>4, <2>1, SameIsSafe DEF SyncResponse, Same, StaysUnasked, TypeOK
  <2>2. CASE SyncResponseBreaks(j)
    BY <1>1, <1>4, <2>2, SameIsSafe
       DEF SyncResponseBreaks, Same, StaysUnasked, TypeOK
  <2> QED
    BY <1>4, <2>1, <2>2
<1>5. CASE (SyncResponse(j) \/ SyncResponseBreaks(j)) /\ j.peer = n
  <2>1. ~ startup[n] /\ LaunchedOnce(n) /\ SyncedOnce(n)
    BY <1>5 DEF SyncResponse, SyncResponseBreaks, SendsFile, SyncSafe, Unasked
  <2>2. startup' = startup
    BY <1>5 DEF SyncResponse, SyncResponseBreaks
  <2>3. CASE SyncResponse(j)
    <3>1. LaunchedOnce(n)'
      BY <1>1, <1>5, <2>1, <2>3
         DEF SyncResponse, TypeOK, LaunchedOnce, SyncedOnce
    <3>2. SyncedOnce(n)'
      BY <1>1, <1>5, <2>1, <2>3
         DEF SyncResponse, TypeOK, LaunchedOnce, SyncedOnce, Woken, SyncOver
    <3> QED
      BY <2>1, <2>2, <3>1, <3>2 DEF SyncSafe
  <2>4. CASE SyncResponseBreaks(j)
    <3>1. LaunchedOnce(n)'
      BY <1>1, <1>5, <2>1, <2>4
         DEF SyncResponseBreaks, TypeOK, LaunchedOnce, SyncedOnce
    <3>2. SyncedOnce(n)'
      BY <1>1, <1>5, <2>1, <2>4
         DEF SyncResponseBreaks, TypeOK, LaunchedOnce, SyncedOnce, Woken, SyncOver
    <3> QED
      BY <2>1, <2>2, <3>1, <3>2 DEF SyncSafe
  <2> QED
    BY <1>5, <2>3, <2>4
<1> QED
  BY <1>2, <1>3, <1>4, <1>5

(* and no node crashes, since none may be launched again.                  *)
LEMMA NextSyncSafe ==
  ASSUME MaxLaunch = 1, Typed, \A n \in Node : SyncSafe(n), [Next]_vars
  PROVE  \A n \in Node : SyncSafe(n)'
<1> SUFFICES ASSUME NEW n \in Node PROVE SyncSafe(n)'
  OBVIOUS
<1>1. ASSUME NEW m \in Node,
             Launch(m) \/ Starting(m) \/ Booting(m) \/ Syncing(m) \/ ClientWrites(m)
      PROVE  SyncSafe(n)'
  <2>1. CASE m = n
    BY <1>1, <2>1, OwnStepSafe
  <2>2. CASE m # n
    BY <1>1, <2>2, OthersSame, SameIsSafe
  <2> QED
    BY <2>1, <2>2
<1>2. ASSUME NEW m \in Node, Crash(m)
      PROVE  FALSE
  <2>1. launches[m] = 0 /\ SyncSafe(m)
    BY <1>2 DEF Crash, Typed, TypeOK
  <2> QED
    BY <1>2, <2>1 DEF Crash, Listening, SyncSafe, LaunchedOnce
<1>3. ASSUME NEW m \in Node, Handling(m) \/ Answering(m)
      PROVE  SyncSafe(n)'
  BY <1>3, HandlingSafe, AnsweringSafe DEF Handling, Answering
<1>4. ASSUME NEW msg \in net, Lose(msg) PROVE SyncSafe(n)'
  BY <1>4, HandlingSafe
<1>5. ASSUME NEW j \in jobs, SyncResponseBreaks(j) PROVE SyncSafe(n)'
  BY <1>5, AnsweringSafe
<1>6. CASE UNCHANGED vars
  BY <1>6, SameIsSafe
     DEF vars, starting, syncing, traffic, files, Same, StaysUnasked
<1> QED
  BY <1>1, <1>2, <1>3, <1>4, <1>5, <1>6 DEF Next

(* So it holds always.                                                     *)
LEMMA AlwaysSyncSafe ==
  ASSUME MaxLaunch = 1 PROVE Spec => [](\A n \in Node : SyncSafe(n))
<1>1. Init => \A n \in Node : SyncSafe(n)
  BY InitSyncSafe
<1>2. Typed /\ (\A n \in Node : SyncSafe(n)) /\ [Next]_vars
        => (\A n \in Node : SyncSafe(n))'
  BY NextSyncSafe
<1> QED
  BY <1>1, <1>2, AlwaysTyped, PTL DEF Spec

(* As long as no node is launched again, a database that was opened is     *)
(* never truncated under the KV service (cluster.go, SyncHandle; kv.go).   *)
(* With restarts it may be.                                                *)
THEOREM SyncedBeforeOpened ==
  ASSUME MaxLaunch = 1 PROVE Spec => []NoSyncIntoOpenDatabase
<1>1. Typed /\ (\A n \in Node : SyncSafe(n)) => NoSyncIntoOpenDatabase
  BY SafeMeansSafe DEF NoSyncIntoOpenDatabase
<1> QED
  BY <1>1, AlwaysTyped, AlwaysSyncSafe, PTL

(* What a joining node received and wrote is what it serves (cluster.go,   *)
(* SyncHandle; main.go), as long as no node is launched again.  Disks may  *)
(* fail: a node whose write failed serves what is left of the file, and    *)
(* the theorem says nothing of it (Cluster_disk.cfg).                      *)
THEOREM ServesWhatItReceived ==
  ASSUME MaxLaunch = 1 PROVE Spec => []ReceivedIsServed
<1>1. Typed /\ (\A n \in Node : SyncSafe(n)) => ReceivedIsServed
  BY SafeMeansSafe DEF ReceivedIsServed
<1> QED
  BY <1>1, AlwaysTyped, AlwaysSyncSafe, PTL

-----------------------------------------------------------------------------
(* Why synchronising does not erase the data everywhere, when no node is   *)
(* launched twice, no disk fails and no node that has data asks one        *)
(* without for its database.                                               *)
AsksPopulated == \A n \in Populated : start[n] = "send" => near[n] \in Populated

(* A node with data keeps a file it can send and is sent one.              *)
HasFile(n) ==
  /\ db[n] # "none"
  /\ sock[n] \in {"received", "write"} => recv[n] # "none"

PopulatedHaveFiles ==
  /\ \A n \in Populated : HasFile(n)
  /\ \A msg \in net : msg.type = "sync:request" /\ msg.from \in Populated
                        => msg.to \in Populated
  /\ \A j \in jobs : SendsFile(j) /\ j.peer \in Populated
                       => j.node \in Populated /\ j.step = "send file"

(* The data is in what someone received, in the file of someone who serves *)
(* it or who panicked, or still with every node that had it; or nowhere.   *)
DataKept ==
  \/ \E n \in Node : recv[n] = "data"
  \/ \E n \in Node : main[n] \in {"up", "panicked"} /\ db[n] = "data"
  \/ /\ Populated # {}
     /\ \A n \in Populated : db[n] = "data" /\ recv[n] = "none"

NoData == \A n \in Node : db[n] # "data" /\ recv[n] # "data"

(* A node with data keeps its file, as long as it asks only such nodes.    *)
LEMMA NextHaveFiles ==
  ASSUME Typed, ~ DiskFails, AsksPopulated, PopulatedHaveFiles, [Next]_vars
  PROVE  PopulatedHaveFiles'
<1> USE DEF starting, syncing, traffic, files
<1>1. TypeOK /\ Populated \subseteq Node
  BY ClusterAssumption DEF Typed
<1> DEFINE FilesKept == \A n \in Populated : HasFile(n)'
           Asked(msg) == msg.type = "sync:request" /\ msg.from \in Populated
                           => msg.to \in Populated
           Sent(j) == SendsFile(j) /\ j.peer \in Populated
                        => j.node \in Populated /\ j.step = "send file"
<1>2. ASSUME FilesKept, \A msg \in net' : msg \in net \/ Asked(msg),
             \A j \in jobs' : j \in jobs \/ Sent(j)
      PROVE  PopulatedHaveFiles'
  BY <1>2 DEF PopulatedHaveFiles, SendsFile
<1>3. ASSUME UNCHANGED <<sock, recv, db>> PROVE FilesKept
  BY <1>3 DEF PopulatedHaveFiles, HasFile
<1> HIDE DEF FilesKept, Asked, Sent
<1>4. ASSUME NEW n \in Node, Launch(n) \/ Starting(n) PROVE PopulatedHaveFiles'
  <2>1. CASE SyncRequest(n)
    <3>1. /\ sock' = sock \/ sock' = [sock EXCEPT ![n] = "accept"]
          /\ recv' = recv /\ db' = db /\ jobs' = jobs /\ net' = net
      BY <2>1 DEF SyncRequest
    <3>2. FilesKept
      BY <1>1, <3>1 DEF FilesKept, PopulatedHaveFiles, HasFile, TypeOK
    <3> QED
      BY <1>2, <3>1, <3>2
  <2>2. CASE Launch(n) \/ PingSucceeds(n) \/ PingFails(n) \/ Discover(n)
    <3>1. UNCHANGED <<sock, recv, db, jobs, net>>
      BY <2>2 DEF Launch, PingSucceeds, PingFails, Discover
    <3> QED
      BY <1>2, <1>3, <3>1
  <2>3. CASE RequestSharedKey(n) \/ SendSync(n)
    <3>1. UNCHANGED <<sock, recv, db, jobs>>
      BY <2>3 DEF RequestSharedKey, SendSync
    <3>2. ASSUME NEW msg \in net', msg \notin net PROVE Asked(msg)
      <4>1. CASE RequestSharedKey(n)
        BY <3>2, <4>1 DEF RequestSharedKey, Send, Asked
      <4>2. CASE SendSync(n)
        BY <3>2, <4>2 DEF SendSync, Send, Asked, AsksPopulated
      <4> QED
        BY <2>3, <4>1, <4>2
    <3> QED
      BY <1>2, <1>3, <3>1, <3>2
  <2> QED
    BY <1>4, <2>1, <2>2, <2>3 DEF Starting
<1>5. ASSUME NEW n \in Node, NEW how, Die(n, how), UNCHANGED files
      PROVE  PopulatedHaveFiles'
  <2>1. FilesKept
    BY <1>1, <1>5 DEF Die, FilesKept, PopulatedHaveFiles, HasFile, TypeOK
  <2> QED
    BY <1>2, <1>5, <2>1 DEF Die
<1>6. ASSUME NEW n \in Node, Booting(n) \/ ClientWrites(n) \/ Syncing(n)
      PROVE  PopulatedHaveFiles'
  <2>1. CASE \/ ReadyFromStart(n) \/ ReadyFromSync(n) \/ Seal(n) \/ WriteKey(n)
             \/ UnsealSharedKey(n)
    <3>1. UNCHANGED <<sock, recv, db, jobs, net>>
      BY <2>1 DEF ReadyFromStart, ReadyFromSync, Seal, WriteKey, UnsealSharedKey
    <3> QED
      BY <1>2, <1>3, <3>1
  <2>2. CASE OpenDatabasePanics(n) \/ UnsealPanics(n)
    BY <1>5, <2>2 DEF OpenDatabasePanics, UnsealPanics
  <2>3. CASE OpenDatabase(n) \/ ClientWrites(n)
    <3>1. PICK d \in {"torn", "fresh", "data"} : db' = [db EXCEPT ![n] = d]
      BY <1>1, <2>3 DEF OpenDatabase, ClientWrites, TypeOK
    <3>2. UNCHANGED <<sock, recv, jobs, net>>
      BY <2>3 DEF OpenDatabase, ClientWrites
    <3>3. FilesKept
      BY <1>1, <3>1, <3>2 DEF FilesKept, PopulatedHaveFiles, HasFile, TypeOK
    <3> QED
      BY <1>2, <3>2, <3>3
  <2>4. CASE TruncateDatabase(n)
    <3>1. FilesKept
      BY <1>1, <2>4
         DEF TruncateDatabase, FilesKept, PopulatedHaveFiles, HasFile, TypeOK
    <3> QED
      BY <1>2, <2>4, <3>1 DEF TruncateDatabase
  <2>5. CASE WriteDatabase(n)
    <3>1. FilesKept
      BY <1>1, <2>5
         DEF WriteDatabase, FilesKept, PopulatedHaveFiles, HasFile, TypeOK
    <3> QED
      BY <1>2, <2>5, <3>1 DEF WriteDatabase
  <2> QED
    BY <1>6, <2>1, <2>2, <2>3, <2>4, <2>5
       DEF Booting, Syncing, OpenFileFails, WriteDatabaseFails
<1>7. ASSUME NEW msg \in net, ReceiveSyncRequest(msg) \/ SendSharedKey(msg)
                              \/ HandleSharedKey(msg) \/ Lose(msg)
      PROVE  PopulatedHaveFiles'
  <2>1. UNCHANGED <<sock, recv, db>>
    BY <1>7 DEF ReceiveSyncRequest, SendSharedKey, HandleSharedKey, Lose
  <2>2. CASE ReceiveSyncRequest(msg)
    <3>1. PICK y : /\ y = IF db[msg.to] = "none" THEN "send nothing" ELSE "send file"
                   /\ jobs' = jobs \cup {[node |-> msg.to, peer |-> msg.from,
                                          try |-> msg.try, step |-> y]}
      BY <2>2 DEF ReceiveSyncRequest, Spawn
    <3>2. msg.from \in Populated => msg.to \in Populated /\ db[msg.to] # "none"
      BY <2>2 DEF ReceiveSyncRequest, PopulatedHaveFiles, HasFile
    <3>3. Sent([node |-> msg.to, peer |-> msg.from, try |-> msg.try, step |-> y])
      BY <3>1, <3>2 DEF Sent
    <3>4. \A j \in jobs' : j \in jobs \/ Sent(j)
      BY <3>1, <3>3
    <3>5. net' \subseteq net
      BY <2>2 DEF ReceiveSyncRequest, Remove
    <3> QED
      BY <1>2, <1>3, <2>1, <3>4, <3>5
  <2>3. CASE SendSharedKey(msg)
    <3>1. \A m \in net' : m \in net \/ m.type # "sync:request"
      BY <2>3 DEF SendSharedKey, Remove
    <3>2. \A m \in net' : m \in net \/ Asked(m)
      BY <3>1 DEF Asked
    <3> QED
      BY <1>2, <1>3, <2>1, <2>3, <3>2 DEF SendSharedKey
  <2>4. CASE HandleSharedKey(msg)
    <3>1. PICK x : /\ x = [node |-> msg.to, peer |-> msg.from, try |-> msg.try,
                           step |-> "create key"]
                   /\ jobs' \subseteq jobs \cup {x}
      BY <2>4 DEF HandleSharedKey, Spawn
    <3>2. Sent(x)
      BY <3>1 DEF Sent, SendsFile
    <3>3. net' \subseteq net /\ \A j \in jobs' : j \in jobs \/ Sent(j)
      BY <2>4, <3>1, <3>2 DEF HandleSharedKey, Remove
    <3> QED
      BY <1>2, <1>3, <2>1, <3>3
  <2>5. CASE Lose(msg)
    BY <1>2, <1>3, <2>1, <2>5 DEF Lose, Remove
  <2> QED
    BY <1>7, <2>2, <2>3, <2>4, <2>5
<1>8. ASSUME NEW j \in jobs,
             \/ SyncResponse(j) \/ SyncResponseFails(j) \/ SyncResponseBreaks(j)
             \/ CreateKeyFile(j) \/ WriteKeyFile(j)
      PROVE  PopulatedHaveFiles'
  <2>1. j \in Job /\ j.peer \in Node /\ j.node \in Node
    BY <1>1 DEF TypeOK, Job
  <2>2. CASE CreateKeyFile(j)
    <3>1. [j EXCEPT !.step = "write key"].step = "write key"
      BY <2>1 DEF Job
    <3>2. Sent([j EXCEPT !.step = "write key"])
      BY <3>1 DEF Sent, SendsFile
    <3>3. \A x \in jobs' : x \in jobs \/ Sent(x)
      BY <2>2, <3>2 DEF CreateKeyFile
    <3>4. UNCHANGED <<sock, recv, db, net>>
      BY <2>2 DEF CreateKeyFile
    <3> QED
      BY <1>2, <1>3, <3>3, <3>4
  <2>3. CASE WriteKeyFile(j) \/ SyncResponseFails(j)
    BY <1>2, <1>3, <2>3 DEF WriteKeyFile, SyncResponseFails
  <2>4. CASE SyncResponse(j)
    <3>1. FilesKept
      BY <1>1, <2>1, <2>4
         DEF SyncResponse, SendsFile, FilesKept, PopulatedHaveFiles, HasFile,
             TypeOK
    <3> QED
      BY <1>2, <2>4, <3>1 DEF SyncResponse
  <2>5. CASE SyncResponseBreaks(j)
    <3>1. FilesKept
      BY <1>1, <2>1, <2>5
         DEF SyncResponseBreaks, FilesKept, PopulatedHaveFiles, HasFile, TypeOK
    <3> QED
      BY <1>2, <2>5, <3>1 DEF SyncResponseBreaks
  <2> QED
    BY <1>8, <2>2, <2>3, <2>4, <2>5
<1>9. CASE UNCHANGED vars
  BY <1>2, <1>3, <1>9 DEF vars
<1> QED
  BY <1>4, <1>5, <1>6, <1>7, <1>8, <1>9 DEF Next, Crash, Handling, Answering

(* The interesting steps: a panic, which forgets what was received after   *)
(* it was written; a truncation, by a node that has received something; an *)
(* answer, which copies a file.                                            *)
LEMMA NextDataKept ==
  ASSUME MaxLaunch = 1, ~ DiskFails, Typed, \A n \in Node : SyncSafe(n),
         PopulatedHaveFiles, [Next]_vars
  PROVE  /\ DataKept => DataKept'
         /\ NoData => NoData' \/ DataKept'
<1> USE DEF starting, syncing, traffic, files
<1>1. /\ TypeOK /\ Populated \subseteq Node
      /\ \A n \in Node : LaunchedOnce(n) /\ SyncedOnce(n)
      /\ \A n \in Populated : HasFile(n)
  BY ClusterAssumption DEF Typed, SyncSafe, PopulatedHaveFiles
<1> DEFINE Goal == (DataKept => DataKept') /\ (NoData => NoData' \/ DataKept')
<1>2. ASSUME recv' = recv,
             \A n \in Node :
               /\ main[n] \in {"up", "panicked"} => main'[n] \in {"up", "panicked"}
               /\ db[n] = "data" <=> db'[n] = "data"
      PROVE  Goal
  BY <1>1, <1>2 DEF DataKept, NoData
<1> HIDE DEF Goal
<1>3. ASSUME NEW m \in Node, Launch(m) \/ Starting(m) \/ ClientWrites(m)
      PROVE  Goal
  <2>1. CASE Launch(m)
    <3>1. launches[m] = 0
      BY <1>1, <2>1 DEF Launch, TypeOK
    <3>2. main[m] = "down"
      BY <1>1, <3>1 DEF LaunchedOnce
    <3> QED
      BY <1>1, <1>2, <2>1, <3>2 DEF Launch, TypeOK
  <2>2. CASE Starting(m)
    <3>1. UNCHANGED <<main, recv, db>>
      BY <2>2 DEF Starting, PingSucceeds, PingFails, Discover, RequestSharedKey,
                  SyncRequest, SendSync
    <3> QED
      BY <1>2, <3>1
  <2>3. CASE ClientWrites(m) /\ db[m] # "torn"
    <3>1. main' = main /\ main'[m] = "up" /\ db'[m] = "data"
      BY <1>1, <2>3 DEF ClientWrites, TypeOK
    <3>2. DataKept'
      BY <3>1 DEF DataKept
    <3> QED
      BY <3>2 DEF Goal
  <2>4. CASE ClientWrites(m) /\ db[m] = "torn"
    <3>1. db' = db /\ UNCHANGED <<main, recv>>
      BY <1>1, <2>4 DEF ClientWrites, TypeOK
    <3> QED
      BY <1>2, <3>1
  <2> QED
    BY <1>3, <2>1, <2>2, <2>3, <2>4
<1>4. ASSUME NEW m \in Node, Crash(m) PROVE FALSE
  <2>1. launches[m] = 0
    BY <1>1, <1>4 DEF Crash, TypeOK
  <2> QED
    BY <1>1, <1>4, <2>1 DEF Crash, Listening, LaunchedOnce
<1>5. ASSUME NEW m \in Node, Booting(m) PROVE Goal
  <2>1. CASE \/ ReadyFromStart(m) \/ ReadyFromSync(m) \/ Seal(m) \/ WriteKey(m)
             \/ UnsealSharedKey(m)
    <3>1. /\ main[m] \notin {"up", "panicked"} /\ recv' = recv /\ db' = db
          /\ \E x : main' = [main EXCEPT ![m] = x]
      BY <2>1 DEF ReadyFromStart, ReadyFromSync, Seal, WriteKey, UnsealSharedKey
    <3> QED
      BY <1>1, <1>2, <3>1 DEF TypeOK
  <2>2. CASE OpenDatabase(m)
    <3>1. /\ main[m] \notin {"up", "panicked"} /\ recv' = recv
          /\ main' = [main EXCEPT ![m] = "unseal"]
          /\ \A n \in Node : db[n] = "data" <=> db'[n] = "data"
      BY <1>1, <2>2 DEF OpenDatabase, TypeOK
    <3> QED
      BY <1>1, <1>2, <3>1 DEF TypeOK
  <2>3. CASE OpenDatabasePanics(m) \/ UnsealPanics(m)
    <3>1. main[m] \in {"open", "unseal"} /\ Die(m, "panicked") /\ UNCHANGED files
      BY <2>3 DEF OpenDatabasePanics, UnsealPanics
    <3>2. recv[m] = "data" => db[m] = "data"
      BY <1>1, <3>1 DEF SyncedOnce, LaunchedOnce, Woken, SyncOver
    <3>3. /\ main'[m] = "panicked" /\ recv'[m] = "none" /\ db' = db
          /\ \A n \in Node : n # m => main'[n] = main[n] /\ recv'[n] = recv[n]
      BY <1>1, <3>1 DEF Die, TypeOK
    <3>4. DataKept => DataKept'
      BY <1>1, <3>2, <3>3 DEF DataKept
    <3>5. NoData => NoData'
      BY <3>3 DEF NoData
    <3> QED
      BY <3>4, <3>5 DEF Goal
  <2> QED
    BY <1>5, <2>1, <2>2, <2>3 DEF Booting
<1>6. ASSUME NEW m \in Node, Syncing(m) PROVE Goal
  <2>1. /\ sock[m] \in {"received", "write"} /\ recv' = recv /\ main' = main
        /\ db' = [db EXCEPT ![m] = "zero"] \/ db' = [db EXCEPT ![m] = recv[m]]
    BY <1>6 DEF Syncing, OpenFileFails, TruncateDatabase, WriteDatabase,
                WriteDatabaseFails
  <2>2. main[m] = "wait"
    BY <2>1, SafeMeansSafe
  <2>3. m \in Populated => recv[m] # "none"
    BY <1>1, <2>1 DEF HasFile
  <2>4. \A n \in Node : n # m => db'[n] = db[n]
    BY <1>1, <2>1 DEF TypeOK
  <2>5. DataKept => DataKept'
    BY <1>1, <2>1, <2>2, <2>3, <2>4 DEF DataKept
  <2>6. NoData => NoData'
    BY <1>1, <2>1 DEF NoData, TypeOK
  <2> QED
    BY <2>5, <2>6 DEF Goal
<1>7. ASSUME NEW msg \in net, ReceiveSyncRequest(msg) \/ SendSharedKey(msg)
                              \/ HandleSharedKey(msg) \/ Lose(msg)
      PROVE  Goal
  BY <1>2, <1>7 DEF ReceiveSyncRequest, SendSharedKey, HandleSharedKey, Lose
<1>8. ASSUME NEW j \in jobs, SyncResponse(j) PROVE Goal
  <2>1. j.peer \in Node /\ j.node \in Node /\ SendsFile(j)
    BY <1>1, <1>8 DEF SyncResponse, SendsFile, TypeOK, Job
  <2>2. recv[j.peer] = "none" /\ main' = main /\ db' = db
    BY <1>1, <1>8, <2>1 DEF SyncResponse, SyncedOnce
  <2>3. /\ recv'[j.peer] = (IF j.step = "send file" THEN db[j.node] ELSE "zero")
        /\ \A n \in Node : n # j.peer => recv'[n] = recv[n]
    <3>1. /\ recv \in [Node -> Database \cup {"failed"}]
          /\ recv' = [recv EXCEPT ![j.peer] =
                        IF j.step = "send file" THEN db[j.node] ELSE "zero"]
      BY <1>1, <1>8 DEF SyncResponse, TypeOK
    <3> QED
      BY <2>1, <3>1
  <2>4. j.peer \in Populated => j.node \in Populated /\ j.step = "send file"
    BY <1>8, <2>1 DEF PopulatedHaveFiles
  <2>5. DataKept => DataKept'
    BY <1>1, <2>1, <2>2, <2>3, <2>4 DEF DataKept
  <2>6. NoData => NoData'
    BY <2>1, <2>2, <2>3 DEF NoData
  <2> QED
    BY <2>5, <2>6 DEF Goal
<1>9. ASSUME NEW j \in jobs, SyncResponseFails(j) \/ SyncResponseBreaks(j)
                             \/ CreateKeyFile(j) \/ WriteKeyFile(j)
      PROVE  Goal
  <2>1. UNCHANGED <<main, recv, db>>
    BY <1>9
       DEF SyncResponseFails, SyncResponseBreaks, CreateKeyFile, WriteKeyFile
  <2> QED
    BY <1>2, <2>1
<1>10. CASE UNCHANGED vars
  BY <1>2, <1>10 DEF vars, Goal
<1> QED
  BY <1>3, <1>4, <1>5, <1>6, <1>7, <1>8, <1>9, <1>10
     DEF Next, Handling, Answering, Goal

(* Data that someone has is on a disk or on its way to one.                *)
LEMMA KeptDataExists ==
  Typed /\ (\A n \in Node : SyncSafe(n)) /\ DataKept => DataExists
<1> SUFFICES ASSUME Typed, \A n \in Node : SyncSafe(n), DataKept
             PROVE  DataExists
  OBVIOUS
<1>1. ASSUME NEW n \in Node, recv[n] = "data" PROVE DataExists
  <2>1. sock[n] \in {"received", "write"} \/ db[n] = "data"
    BY <1>1 DEF Typed, TypeOK, SyncSafe, SyncedOnce
  <2> QED
    BY <1>1, <2>1 DEF DataExists
<1> QED
  BY <1>1, ClusterAssumption DEF DataKept, DataExists

(* Nodes that are launched once, whose disks do not fail, may synchronise  *)
(* from each other over a network that fails and from files that are just  *)
(* being truncated: no step takes the data out of the last file and buffer *)
(* that has it (cluster.go, SyncResponse and SyncHandle), provided that no *)
(* node with data asks one without.  Without that proviso it is false      *)
(* (Cluster_data.cfg); a crash after the truncation and a write that fails *)
(* are left out, they lose data too.                                       *)
THEOREM DataIsKept ==
  ASSUME MaxLaunch = 1, ~ DiskFails
  PROVE  Spec /\ []AsksPopulated => SyncKeepsData
<1> DEFINE Safe == Typed /\ \A n \in Node : SyncSafe(n)
           Kept == PopulatedHaveFiles /\ (NoData \/ DataKept)
<1>1. Init => Kept
  <2>1. Init => PopulatedHaveFiles
    BY ClusterAssumption DEF Init, PopulatedHaveFiles, HasFile
  <2>2. Init => NoData \/ DataKept
    BY ClusterAssumption DEF Init, NoData, DataKept
  <2> QED
    BY <2>1, <2>2
<1>2. Safe /\ AsksPopulated /\ Kept /\ [Next]_vars => Kept'
  BY NextHaveFiles, NextDataKept
<1>3. Safe /\ Kept /\ [Next]_vars => [DataExists => DataKept']_vars
  <2> SUFFICES ASSUME Safe, Kept, [Next]_vars, DataExists PROVE DataKept'
    OBVIOUS
  <2>1. ~ NoData
    BY DEF DataExists, NoData
  <2> QED
    BY <2>1, NextDataKept
<1> QED
  BY <1>1, <1>2, <1>3, KeptDataExists, AlwaysTyped, AlwaysSyncSafe, PTL
     DEF Spec, SyncKeepsData

=============================================================================
