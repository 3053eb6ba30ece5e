------------------------------ MODULE JoinProofs ------------------------------
(***************************************************************************)
(* What holds while a cluster boots and clients already write to it, for   *)
(* any number of writes and of attempts to join, and any nodes with        *)
(* certificates and files of an earlier life.                              *)
(***************************************************************************)
EXTENDS Join, ClusterProofs

(* Every step of Join is one of Cluster, or leaves its variables alone: an *)
(* update that is applied is to Cluster what a client's write is.          *)
LEMMA JoinStepIsClusterStep == JoinNext => [Next]_vars
<1> SUFFICES ASSUME JoinNext PROVE [Next]_vars
  OBVIOUS
<1>1. ASSUME NEW n \in Node, Starts(n) \/ Boots(n) \/ Syncs(n) \/ Handles(n)
      PROVE  Next
  BY <1>1 DEF Starts, Boots, Syncs, Handles, Syncing, Next
<1>2. ASSUME NEW n \in Node, Answers(n)
      PROVE  Next
  <2>1. Answering(n)
    BY <1>2 DEF Answers, Copies, Answering
  <2> QED
    BY <2>1 DEF Next
<1>3. ASSUME NEW n \in Node, Commits(n)
      PROVE  Next
  BY <1>3 DEF Commits, Next
<1>4. ASSUME NEW n \in Node, HandleUpdate(n)
      PROVE  Next
  <2>1. ClientWrites(n)
    BY <1>4 DEF HandleUpdate, ClientWrites
  <2> QED
    BY <2>1 DEF Next
<1>5. ASSUME NEW n \in Node, Emits(n)
      PROVE  UNCHANGED vars
  BY <1>5 DEF Emits
<1>6. ASSUME NEW m \in Node, NEW w \in Write, Receives(m, w)
      PROVE  UNCHANGED vars
  BY <1>6 DEF Receives
<1> QED
  BY <1>1, <1>2, <1>3, <1>4, <1>5, <1>6 DEF JoinNext

(* So what is proved of Cluster holds while clients write.                 *)
THEOREM JoinImplementsCluster == JoinSpec => Spec
<1>1. [JoinNext]_joinVars => [Next]_vars
  BY JoinStepIsClusterStep DEF joinVars
<1>2. JoinInit => Init
  BY DEF JoinInit
<1> QED
  BY <1>1, <1>2, PTL DEF JoinSpec, Spec

(* Type correctness of the part that is Cluster's ...                      *)
LEMMA JoinAlwaysTyped == JoinSpec => []Typed
BY JoinImplementsCluster, AlwaysTyped, PTL

(* ... and safety of its databases.                                        *)
LEMMA JoinAlwaysSyncSafe ==
  ASSUME MaxLaunch = 1 PROVE JoinSpec => [](\A n \in Node : SyncSafe(n))
BY JoinImplementsCluster, AlwaysSyncSafe, PTL

-----------------------------------------------------------------------------
(* At first nothing is written,                                            *)
LEMMA JoinInitTyped == JoinInit => JoinTypeOK
  BY JoinAssumption DEF JoinInit, JoinTypeOK

(* and a write moves only where it was committed, sent or copied.          *)
LEMMA JoinNextTyped == Typed /\ JoinTypeOK /\ [JoinNext]_joinVars => JoinTypeOK'
<1> SUFFICES ASSUME Typed, JoinTypeOK, [JoinNext]_joinVars PROVE JoinTypeOK'
  OBVIOUS
<1> USE JoinAssumption DEF replicas
<1>1. CASE UNCHANGED replicas
  BY <1>1 DEF JoinTypeOK
<1>2. ASSUME NEW n \in Node, Starts(n) \/ Handles(n) PROVE UNCHANGED replicas
  BY <1>2 DEF Starts, Handles
<1>3. ASSUME NEW n \in Node, Boots(n) PROVE JoinTypeOK'
  <2>1. CASE Forget(n)
    BY <2>1 DEF Forget, JoinTypeOK
  <2> QED
    BY <1>1, <1>3, <2>1 DEF Boots
<1>4. ASSUME NEW n \in Node, Syncs(n) PROVE JoinTypeOK'
  <2>1. \E S \in SUBSET (1..issued) : content' = [content EXCEPT ![n] = S]
    BY <1>4 DEF Syncs, JoinTypeOK
  <2> QED
    BY <1>4, <2>1 DEF Syncs, JoinTypeOK
<1>5. ASSUME NEW n \in Node, Answers(n) PROVE JoinTypeOK'
  <2>1. ASSUME NEW j \in jobs, Copies(j) PROVE JoinTypeOK'
    <3>1. j.node \in Node
      BY DEF Typed, TypeOK, Job
    <3>2. copied' \in [Node -> SUBSET (1..issued)]
      BY <2>1, <3>1 DEF Copies, JoinTypeOK
    <3> QED
      BY <2>1, <3>2 DEF Copies, JoinTypeOK
  <2> QED
    BY <1>1, <1>5, <2>1 DEF Answers
<1>6. ASSUME NEW n \in Node, Commits(n) PROVE JoinTypeOK'
  <2>1. issued' = issued + 1 /\ issued' \in 0..MaxWrites
    BY <1>6 DEF Commits, JoinTypeOK
  <2>2. 1..issued \subseteq 1..issued' /\ issued' \in 1..issued'
    BY <2>1 DEF JoinTypeOK
  <2>3. content' \in [Node -> SUBSET (1..issued')]
    BY <1>6, <2>2 DEF Commits, JoinTypeOK
  <2>4. unsent' \in [Node -> SUBSET (1..issued')]
    BY <1>6, <2>2 DEF Commits, JoinTypeOK
  <2>5. /\ copied' \in [Node -> SUBSET (1..issued')]
        /\ updates' \in [Node -> SUBSET (1..issued')]
    BY <1>6, <2>2 DEF Commits, JoinTypeOK
  <2>6. flying' \subseteq Node \X (1..issued')
    BY <1>6, <2>2 DEF Commits, JoinTypeOK
  <2> QED
    BY <2>1, <2>3, <2>4, <2>5, <2>6 DEF JoinTypeOK
<1>7. ASSUME NEW n \in Node, Emits(n) PROVE JoinTypeOK'
  <2>1. PICK w \in unsent[n] :
          /\ unsent' = [unsent EXCEPT ![n] = @ \ {w}]
          /\ flying' = flying \cup {<<m, w>> : m \in peers[n]}
    BY <1>7 DEF Emits
  <2>2. w \in 1..issued /\ peers[n] \subseteq Node
    BY DEF JoinTypeOK, Typed, TypeOK
  <2>3. flying' \subseteq Node \X (1..issued)
    BY <2>1, <2>2 DEF JoinTypeOK
  <2>4. unsent' \in [Node -> SUBSET (1..issued)]
    BY <2>1 DEF JoinTypeOK
  <2> QED
    BY <1>7, <2>3, <2>4 DEF Emits, JoinTypeOK
<1>8. ASSUME NEW m \in Node, NEW w \in Write, Receives(m, w) PROVE JoinTypeOK'
  <2>1. w \in 1..issued
    BY <1>8 DEF Receives, JoinTypeOK
  <2> QED
    BY <1>8, <2>1 DEF Receives, JoinTypeOK
<1>9. ASSUME NEW n \in Node, HandleUpdate(n) PROVE JoinTypeOK'
  <2>1. PICK w \in updates[n] :
          /\ updates' = [updates EXCEPT ![n] = @ \ {w}]
          /\ content' = [content EXCEPT ![n] = @ \cup {w}]
    BY <1>9 DEF HandleUpdate
  <2>2. w \in 1..issued
    BY DEF JoinTypeOK
  <2> QED
    BY <1>9, <2>1, <2>2 DEF HandleUpdate, JoinTypeOK
<1> QED
  BY <1>1, <1>2, <1>3, <1>4, <1>5, <1>6, <1>7, <1>8, <1>9 DEF JoinNext, joinVars

(* Only writes that were committed are stored, copied, queued or sent.     *)
THEOREM JoinTypeCorrect == JoinSpec => []JoinTypeOK
BY JoinInitTyped, JoinNextTyped, JoinAlwaysTyped, PTL DEF JoinSpec

-----------------------------------------------------------------------------
(* Two nodes that boot know each other before either of them serves.       *)
Pair == \A m, n \in Node : m # n => Discovery[m] = n /\ Others(m) = {n}

(* Of two nodes each is the other's discovery host and only possible peer. *)
LEMMA TwoNodesPair == ASSUME NEW a, NEW b, Node = {a, b} PROVE Pair
  BY ClusterAssumption DEF Pair, Others

(* With n as its discovery host, m goes past its first ping only when n    *)
(* listens, and from then on n is up or has ended for good.  So n is in    *)
(* the peer list of m before m asks anyone or is woken.                    *)
Met(m, n) ==
  /\ start[m] \notin {"down", "ping"} => main[n] # "down"
  /\ start[m] = "ping" => main[m] = "wait" /\ ~ signal[m]
  /\ start[m] \notin {"down", "ping"}
       /\ (start[m] # "discover" \/ Woken(m) \/ sock[m] # "closed")
       => n \in peers[m] \/ main[n] = "panicked"

Meet == \A m, n \in Node : m # n => Met(m, n)

(* A node that has ended is not launched again, and none ends but by a     *)
(* panic of main.                                                          *)
LEMMA MainMoves ==
  ASSUME MaxLaunch = 1, Typed, \A k \in Node : SyncSafe(k), [Next]_vars,
         NEW n \in Node
  PROVE  /\ main[n] # "down" => main'[n] # "down"
         /\ main[n] = "panicked" => main'[n] = "panicked"
<1> USE DEF starting, syncing, traffic, files
<1>1. TypeOK /\ \A k \in Node : LaunchedOnce(k)
  BY DEF Typed, SyncSafe
<1>2. CASE main' = main
  BY <1>2
<1>3. ASSUME NEW m \in Node, Launch(m) \/ Crash(m)
      PROVE  main[m] = "down" /\ ~ Crash(m)
  <2>1. launches[m] = 0
    BY <1>1, <1>3 DEF Launch, Crash, TypeOK
  <2> QED
    BY <1>1, <1>3, <2>1 DEF Crash, Listening, LaunchedOnce
<1>4. ASSUME NEW m \in Node, Launch(m)
      PROVE  main[n] = "panicked" => main'[n] = "panicked"
  BY <1>1, <1>3, <1>4 DEF Launch, TypeOK
<1>5. ASSUME NEW m \in Node, Launch(m)
      PROVE  main'[n] = "down" => main[n] = "down"
  BY <1>1, <1>5 DEF Launch, TypeOK
<1>6. ASSUME NEW m \in Node, Starting(m) \/ Syncing(m) \/ ClientWrites(m)
      PROVE  main' = main
  BY <1>6 DEF Starting, PingSucceeds, PingFails, Discover, RequestSharedKey,
              SyncRequest, SendSync, Syncing, OpenFileFails, TruncateDatabase,
              WriteDatabase, WriteDatabaseFails, ClientWrites
<1>7. ASSUME NEW m \in Node, Booting(m)
      PROVE  main[m] # "panicked" /\ \E x \in {"seal", "open", "sealing", "unseal",
                        "up", "panicked"} : main' = [main EXCEPT ![m] = x]
  BY <1>7 DEF Booting, ReadyFromStart, ReadyFromSync, Seal, WriteKey,
              OpenDatabase, OpenDatabasePanics, UnsealSharedKey, UnsealPanics,
              Die
<1>8. ASSUME NEW m \in Node, Booting(m)
      PROVE  /\ main[n] # "down" => main'[n] # "down"
             /\ main[n] = "panicked" => main'[n] = "panicked"
  BY <1>1, <1>7, <1>8 DEF TypeOK
<1>9. ASSUME NEW msg \in net, ReceiveSyncRequest(msg) \/ SendSharedKey(msg)
                              \/ HandleSharedKey(msg) \/ Lose(msg)
      PROVE  main' = main
  BY <1>9 DEF ReceiveSyncRequest, SendSharedKey, HandleSharedKey, Lose
<1>10. ASSUME NEW j \in jobs,
              \/ SyncResponse(j) \/ SyncResponseFails(j) \/ SyncResponseBreaks(j)
              \/ CreateKeyFile(j) \/ WriteKeyFile(j)
       PROVE  main' = main
  BY <1>10 DEF SyncResponse, SyncResponseFails, SyncResponseBreaks,
               CreateKeyFile, WriteKeyFile
<1>11. CASE UNCHANGED vars
  BY <1>11 DEF vars
<1> QED
  BY <1>2, <1>3, <1>4, <1>5, <1>6, <1>8, <1>9, <1>10, <1>11
     DEF Next, Handling, Answering

(* A step that leaves m as it is, and n alive or dead, keeps them met.     *)
LEMMA StaysMet ==
  ASSUME NEW m, NEW n, Met(m, n),
         main'[m] = main[m], start'[m] = start[m], signal'[m] = signal[m],
         peers'[m] = peers[m], sock[m] = "closed" => sock'[m] = "closed",
         main[n] # "down" => main'[n] # "down",
         main[n] = "panicked" => main'[n] = "panicked"
  PROVE  Met(m, n)'
  BY DEF Met, Woken

(* What m does to itself: the peers are set by Discover, before anything   *)
(* can wake m.                                                             *)
LEMMA OwnStepMet ==
  ASSUME MaxLaunch = 1, Pair, Typed, \A k \in Node : SyncSafe(k),
         NEW m \in Node, NEW n \in Node, m # n, Met(m, n),
         main[n] # "down" => main'[n] # "down",
         main[n] = "panicked" => main'[n] = "panicked",
         Launch(m) \/ Starting(m) \/ Booting(m) \/ Syncing(m) \/ ClientWrites(m)
  PROVE  Met(m, n)'
<1> USE DEF starting, syncing, traffic, files
<1>1. /\ TypeOK /\ LaunchedOnce(m) /\ SyncedOnce(m) /\ LaunchedOnce(n)
      /\ Discovery[m] = n /\ Others(m) = {n} /\ ~ Faulty
  BY JoinAssumption DEF Typed, SyncSafe, Pair
<1>2. CASE Launch(m)
  <2>1. launches[m] = 0
    BY <1>1, <1>2 DEF Launch, TypeOK
  <2> QED
    BY <1>1, <1>2, <2>1 DEF Launch, TypeOK, LaunchedOnce, Met, Woken
<1>3. CASE PingSucceeds(m)
  BY <1>1, <1>3 DEF PingSucceeds, MayReach, Listening, TypeOK, LaunchedOnce,
                    SyncedOnce, Met, Woken
<1>4. CASE Discover(m)
  <2>1. /\ peers'[m] = {k \in Others(m) : Listening(k)}
        /\ start'[m] \notin {"down", "ping"}
        /\ main' = main
    BY <1>1, <1>4 DEF Discover, TypeOK
  <2>2. n \in peers'[m] \/ main[n] = "panicked"
    BY <1>1, <1>4, <2>1 DEF Discover, Listening, LaunchedOnce, Met
  <2> QED
    BY <1>1, <1>4, <2>1, <2>2 DEF Discover, Met
<1>5. CASE PingFails(m) \/ RequestSharedKey(m) \/ SendSync(m)
  <2>1. CASE PingFails(m)
    BY <2>1 DEF PingFails, Met, Woken
  <2>2. CASE RequestSharedKey(m)
    BY <1>1, <2>2 DEF RequestSharedKey, TypeOK, Met, Woken
  <2>3. CASE SendSync(m)
    BY <1>1, <2>3 DEF SendSync, TypeOK, Met, Woken
  <2> QED
    BY <1>5, <2>1, <2>2, <2>3
<1>6. CASE SyncRequest(m)
  <2>1. /\ start[m] = "sync" /\ start'[m] \notin {"down", "ping"}
        /\ UNCHANGED <<main, peers>>
    <3>1. \E x \in {"stuck", "send", "discover"} : start' = [start EXCEPT ![m] = x]
      BY <1>6 DEF SyncRequest
    <3> QED
      BY <1>1, <1>6, <3>1 DEF SyncRequest, TypeOK
  <2> QED
    BY <2>1 DEF Met
<1>7. CASE ReadyFromStart(m)
  BY <1>1, <1>7 DEF ReadyFromStart, TypeOK, Met, Woken
<1>8. CASE ReadyFromSync(m)
  BY <1>1, <1>8 DEF ReadyFromSync, TypeOK, Met, Woken
<1>9. CASE Seal(m) \/ WriteKey(m) \/ OpenDatabase(m) \/ UnsealSharedKey(m)
  <2>1. /\ main[m] \notin {"down", "wait"}
        /\ UNCHANGED <<start, peers, sock, signal>>
    BY <1>9 DEF Seal, WriteKey, OpenDatabase, UnsealSharedKey
  <2>2. start[m] # "ping"
    BY <2>1 DEF Met
  <2> QED
    BY <2>1, <2>2 DEF Met, Woken
<1>10. CASE OpenDatabasePanics(m) \/ UnsealPanics(m)
  BY <1>1, <1>10 DEF OpenDatabasePanics, UnsealPanics, Die, TypeOK, Met
<1>11. CASE Syncing(m)
  <2>1. sock[m] # "closed" /\ UNCHANGED <<main, start, peers>>
    BY <1>11 DEF Syncing, OpenFileFails, TruncateDatabase, WriteDatabase,
                 WriteDatabaseFails
  <2>2. start[m] # "ping"
    BY <1>1, <2>1 DEF SyncedOnce
  <2> QED
    BY <2>1, <2>2 DEF Met
<1>12. CASE ClientWrites(m)
  BY <1>12 DEF ClientWrites, Met, Woken
<1> QED
  BY <1>2, <1>3, <1>4, <1>5, <1>6, <1>7, <1>8, <1>9, <1>10, <1>11, <1>12
     DEF Starting, Booting

(* No node sets the peer list of another.                                  *)
LEMMA OthersPeersSame ==
  ASSUME Typed, NEW m \in Node, NEW k \in Node, m # k,
         Launch(k) \/ Starting(k) \/ Booting(k) \/ Syncing(k) \/ ClientWrites(k)
  PROVE  peers'[m] = peers[m]
<1> USE DEF starting, syncing, traffic, files
<1>1. peers' = peers \/ \E P : peers' = [peers EXCEPT ![k] = P]
  <2>1. CASE Launch(k) \/ Discover(k)
    BY <2>1 DEF Launch, Discover
  <2>2. CASE \/ PingSucceeds(k) \/ PingFails(k) \/ RequestSharedKey(k)
             \/ SyncRequest(k) \/ SendSync(k) \/ Syncing(k) \/ ClientWrites(k)
    BY <2>2
       DEF PingSucceeds, PingFails, RequestSharedKey, SyncRequest, SendSync,
           Syncing, OpenFileFails, TruncateDatabase, WriteDatabase,
           WriteDatabaseFails, ClientWrites
  <2>3. CASE Booting(k)
    BY <2>3 DEF Booting, ReadyFromStart, ReadyFromSync, Seal, WriteKey,
                OpenDatabase, OpenDatabasePanics, UnsealSharedKey, UnsealPanics,
                Die
  <2> QED
    BY <2>1, <2>2, <2>3 DEF Starting
<1> QED
  BY <1>1 DEF Typed, TypeOK

(* All steps together.                                                     *)
LEMMA NextMeet ==
  ASSUME MaxLaunch = 1, Pair, Typed, \A k \in Node : SyncSafe(k), Meet,
         [Next]_vars
  PROVE  Meet'
<1> SUFFICES ASSUME NEW m \in Node, NEW n \in Node, m # n PROVE Met(m, n)'
  BY DEF Meet
<1> USE DEF starting, syncing, traffic, files
<1>1. Met(m, n) /\ TypeOK /\ ~ Faulty
  BY JoinAssumption DEF Meet, Typed
<1>2. /\ main[n] # "down" => main'[n] # "down"
      /\ main[n] = "panicked" => main'[n] = "panicked"
  BY MainMoves
<1>3. ASSUME NEW k \in Node,
             Launch(k) \/ Starting(k) \/ Booting(k) \/ Syncing(k) \/ ClientWrites(k)
      PROVE  Met(m, n)'
  <2>1. CASE k = m
    BY <1>1, <1>2, <1>3, <2>1, OwnStepMet
  <2>2. CASE k # m
    BY <1>1, <1>2, <1>3, <2>2, OthersSame, OthersPeersSame, StaysMet DEF Same
  <2> QED
    BY <2>1, <2>2
<1>4. ASSUME NEW k \in Node, Crash(k) PROVE FALSE
  <2>1. launches[k] = 0 /\ LaunchedOnce(k)
    BY <1>1, <1>4 DEF Crash, TypeOK, SyncSafe
  <2> QED
    BY <1>4, <2>1 DEF Crash, Listening, LaunchedOnce
<1>5. ASSUME NEW msg \in net, ReceiveSyncRequest(msg) \/ SendSharedKey(msg)
                              \/ HandleSharedKey(msg) \/ Lose(msg)
      PROVE  Met(m, n)'
  <2>1. UNCHANGED <<main, start, signal, peers, sock>>
    BY <1>5 DEF ReceiveSyncRequest, SendSharedKey, HandleSharedKey, Lose
  <2> QED
    BY <1>1, <2>1, StaysMet
<1>6. ASSUME NEW j \in jobs, SyncResponse(j) PROVE Met(m, n)'
  <2>1. UNCHANGED <<main, start, signal, peers>>
        /\ (sock[m] = "closed" => sock'[m] = "closed")
    BY <1>1, <1>6 DEF SyncResponse, TypeOK
  <2> QED
    BY <1>1, <2>1, StaysMet
<1>7. ASSUME NEW j \in jobs, SyncResponseBreaks(j) PROVE FALSE
  BY <1>1, <1>7 DEF SyncResponseBreaks
<1>8. ASSUME NEW j \in jobs, SyncResponseFails(j) \/ CreateKeyFile(j) \/ WriteKeyFile(j)
      PROVE  Met(m, n)'
  <2>1. UNCHANGED <<main, start, signal, peers, sock>>
    BY <1>8 DEF SyncResponseFails, CreateKeyFile, WriteKeyFile
  <2> QED
    BY <1>1, <2>1, StaysMet
<1>9. CASE UNCHANGED vars
  BY <1>1, <1>9, StaysMet DEF vars
<1> QED
  BY <1>3, <1>4, <1>5, <1>6, <1>7, <1>8, <1>9 DEF Next, Handling, Answering

-----------------------------------------------------------------------------
(* Why nothing is lost.  A write is on its way to a node from its commit   *)
(* until the node applies it, so it does not matter that the node's        *)
(* database is truncated and replaced before the node serves.              *)
Travels(n, w) ==
  \/ w \in updates[n]
  \/ <<n, w>> \in flying
  \/ \E m \in Node \ {n} : w \in unsent[m]

Arrives(n, w) ==
  main[n] # "panicked" => Travels(n, w) \/ (main[n] = "up" /\ w \in content[n])

Reaches ==
  /\ \A n \in Node, w \in 1..issued : Arrives(n, w)
  /\ \A n \in Node : main[n] # "up" => unsent[n] = {}

(* What the invariant is for.                                              *)
LEMMA ReachesMeansNothingLost ==
  ASSUME JoinTypeOK, Reaches PROVE NothingLost
<1>1. ASSUME NEW n \in Node, NEW w \in 1..issued, Travels(n, w)
      PROVE  w \in OnItsWay(n)
  <2>1. w \in Write
    BY JoinAssumption DEF JoinTypeOK, Write
  <2> QED
    BY <1>1, <2>1 DEF Travels, OnItsWay
<1> QED
  BY <1>1 DEF Reaches, Arrives, NothingLost

(* The writes that travel are in the same places, or in more.              *)
LEMMA ReachesOn ==
  ASSUME Reaches, issued' = issued, unsent' = unsent,
         \A n \in Node : /\ main[n] = "panicked" => main'[n] = "panicked"
                         /\ main[n] = "up" => main'[n] = "up"
                                              /\ content[n] \subseteq content'[n],
         \A n \in Node : updates[n] \subseteq updates'[n],
         flying \subseteq flying'
  PROVE  Reaches'
<1>1. ASSUME NEW n \in Node, NEW w \in 1..issued PROVE Arrives(n, w)'
  BY DEF Reaches, Arrives, Travels
<1>2. ASSUME NEW n \in Node, main'[n] # "up" PROVE unsent'[n] = {}
  BY <1>2 DEF Reaches
<1> QED
  BY <1>1, <1>2 DEF Reaches

(* The interesting steps: a synchronisation truncates only the database of *)
(* a node that does not serve yet; a panic forgets no write, for clients   *)
(* write only where main got past it; and a broadcast includes the other   *)
(* node, which its sender has met.                                         *)
LEMMA NextReaches ==
  ASSUME MaxLaunch = 1, Typed, \A k \in Node : SyncSafe(k), Meet, JoinTypeOK,
         Reaches, [JoinNext]_joinVars
  PROVE  Reaches'
<1> USE DEF starting, syncing, traffic, files, replicas
<1>1. TypeOK /\ \A k \in Node : LaunchedOnce(k)
  BY DEF Typed, SyncSafe
<1>2. [Next]_vars
  BY JoinStepIsClusterStep DEF joinVars
<1>3. \A n \in Node : main[n] = "panicked" => main'[n] = "panicked"
  BY <1>2, MainMoves
<1>4. CASE UNCHANGED replicas /\ \A n \in Node : main[n] = "up" => main'[n] = "up"
  BY <1>3, <1>4, ReachesOn
<1>5. ASSUME NEW k \in Node, Starts(k) PROVE Reaches'
  <2>1. CASE Launch(k)
    <3>1. \A n \in Node : main[n] = "up" => main'[n] = "up"
      BY <1>1, <2>1 DEF Launch, TypeOK
    <3> QED
      BY <1>4, <1>5, <3>1 DEF Starts
  <2>2. CASE Starting(k)
    <3>1. main' = main
      BY <2>2 DEF Starting, PingSucceeds, PingFails, Discover, RequestSharedKey,
                  SyncRequest, SendSync
    <3> QED
      BY <1>4, <1>5, <3>1 DEF Starts
  <2> QED
    BY <1>5, <2>1, <2>2 DEF Starts
<1>6. ASSUME NEW k \in Node, Boots(k) PROVE Reaches'
  <2>1. main[k] # "up" /\ \E x : main' = [main EXCEPT ![k] = x]
    BY <1>6 DEF Boots, Booting, ReadyFromStart, ReadyFromSync, Seal, WriteKey,
                OpenDatabase, OpenDatabasePanics, UnsealSharedKey, UnsealPanics,
                Die
  <2>2. \A n \in Node : n # k => main'[n] = main[n]
    BY <1>1, <2>1 DEF TypeOK
  <2>3. CASE UNCHANGED replicas
    BY <1>4, <2>1, <2>2, <2>3
  <2>4. CASE main'[k] = "panicked" /\ Forget(k)
    <3>1. unsent[k] = {}
      BY <2>1 DEF Reaches
    <3>2. unsent' = unsent /\ issued' = issued /\ content' = content /\ flying' = flying
      BY <2>4, <3>1 DEF Forget, JoinTypeOK
    <3>3. \A n \in Node : n # k => updates'[n] = updates[n]
      BY <2>4 DEF Forget, JoinTypeOK
    <3>4. ASSUME NEW n \in Node, NEW w \in 1..issued PROVE Arrives(n, w)'
      BY <2>2, <2>4, <3>2, <3>3 DEF Reaches, Arrives, Travels
    <3>5. ASSUME NEW n \in Node, main'[n] # "up" PROVE unsent'[n] = {}
      BY <2>1, <2>2, <3>2, <3>5 DEF Reaches
    <3> QED
      BY <3>2, <3>4, <3>5 DEF Reaches
  <2> QED
    BY <1>6, <2>3, <2>4 DEF Boots
<1>7. ASSUME NEW k \in Node, Syncs(k) PROVE Reaches'
  <2>1. sock[k] \in {"received", "write"} /\ main' = main
        /\ UNCHANGED <<issued, copied, unsent, flying, updates>>
    BY <1>7 DEF Syncs, TruncateDatabase, WriteDatabase
  <2>2. main[k] = "wait"
    BY <2>1, SafeMeansSafe
  <2>3. \A n \in Node : n # k => content'[n] = content[n]
    BY <1>7 DEF Syncs, JoinTypeOK
  <2> QED
    BY <1>3, <2>1, <2>2, <2>3, ReachesOn
<1>8. ASSUME NEW k \in Node, Handles(k) PROVE Reaches'
  <2>1. main' = main
    BY <1>8
       DEF Handles, Handling, ReceiveSyncRequest, SendSharedKey,
           HandleSharedKey
  <2> QED
    BY <1>4, <1>8, <2>1 DEF Handles
<1>9. ASSUME NEW k \in Node, Answers(k) PROVE Reaches'
  <2>1. main' = main /\ UNCHANGED <<issued, content, unsent, flying, updates>>
    BY <1>9 DEF Answers, Copies, SyncResponse, SyncResponseFails, CreateKeyFile,
                WriteKeyFile
  <2> QED
    BY <1>3, <2>1, ReachesOn
<1>10. ASSUME NEW k \in Node, Commits(k) PROVE Reaches'
  <2>1. /\ issued' = issued + 1 /\ issued \in Nat
        /\ main[k] = "up" /\ main' = main /\ flying' = flying /\ updates' = updates
    BY <1>10, JoinAssumption DEF Commits, ClientWrites, JoinTypeOK
  <2>2. /\ issued' \in content'[k] /\ issued' \in unsent'[k]
        /\ \A n \in Node : /\ content[n] \subseteq content'[n]
                           /\ unsent[n] \subseteq unsent'[n]
                           /\ n # k => unsent'[n] = unsent[n]
    BY <1>10 DEF Commits, JoinTypeOK
  <2>3. ASSUME NEW n \in Node, NEW w \in 1..issued PROVE Arrives(n, w)'
    BY <2>1, <2>2 DEF Reaches, Arrives, Travels
  <2>4. ASSUME NEW n \in Node, NEW w \in 1..issued', w = issued'
        PROVE  Arrives(n, w)'
    BY <2>1, <2>2, <2>4 DEF Arrives, Travels
  <2>5. \A w \in 1..issued' : w \in 1..issued \/ w = issued'
    BY <2>1
  <2>6. ASSUME NEW n \in Node, main'[n] # "up" PROVE unsent'[n] = {}
    BY <2>1, <2>2, <2>6 DEF Reaches
  <2>7. ASSUME NEW n \in Node, NEW w \in 1..issued' PROVE Arrives(n, w)'
    BY <2>3, <2>4, <2>5
  <2> QED
    BY <2>6, <2>7 DEF Reaches
<1>11. ASSUME NEW k \in Node, Emits(k) PROVE Reaches'
  <2>1. PICK v \in unsent[k] :
          /\ unsent' = [unsent EXCEPT ![k] = @ \ {v}]
          /\ flying' = flying \cup {<<m, v>> : m \in peers[k]}
    BY <1>11 DEF Emits
  <2>2. UNCHANGED <<vars, issued, content, updates>>
    BY <1>11 DEF Emits
  <2>3. main[k] = "up" /\ main' = main
    BY <2>1, <2>2 DEF Reaches, vars
  <2>4. ASSUME NEW n \in Node, n # k, main[n] # "panicked"
        PROVE  <<n, v>> \in flying'
    <3>1. start[k] \notin {"down", "ping"} /\ Woken(k)
      BY <1>1, <2>3, <2>4 DEF LaunchedOnce, Meet, Met, Woken
    <3>2. n \in peers[k]
      BY <2>4, <3>1 DEF Meet, Met
    <3> QED
      BY <2>1, <3>2
  <2>5. ASSUME NEW n \in Node, NEW w \in 1..issued PROVE Arrives(n, w)'
    <3>1. ASSUME NEW m \in Node \ {n}, w \in unsent[m], w \notin unsent'[m]
          PROVE  w = v /\ m = k
      BY <2>1, <3>1 DEF JoinTypeOK
    <3>2. Travels(n, w) /\ main[n] # "panicked" => Travels(n, w)'
      BY <2>1, <2>2, <2>4, <3>1 DEF Travels
    <3> QED
      BY <2>2, <2>3, <3>2 DEF Reaches, Arrives
  <2>6. ASSUME NEW n \in Node, main'[n] # "up" PROVE unsent'[n] = {}
    BY <2>1, <2>3, <2>6 DEF Reaches, JoinTypeOK
  <2> QED
    BY <2>2, <2>5, <2>6 DEF Reaches
<1>12. ASSUME NEW p \in Node, NEW v \in Write, Receives(p, v) PROVE Reaches'
  <2>1. /\ flying' = flying \ {<<p, v>>}
        /\ updates' = [updates EXCEPT ![p] = @ \cup {v}]
        /\ UNCHANGED <<main, issued, content, unsent>>
    BY <1>12 DEF Receives, vars
  <2>2. /\ v \in updates'[p]
        /\ \A n \in Node : updates[n] \subseteq updates'[n]
    BY <2>1 DEF JoinTypeOK
  <2>3. ASSUME NEW n \in Node, NEW w \in 1..issued PROVE Arrives(n, w)'
    <3>1. Travels(n, w) => Travels(n, w)'
      BY <2>1, <2>2 DEF Travels
    <3> QED
      BY <2>1, <3>1 DEF Reaches, Arrives
  <2> QED
    BY <2>1, <2>3 DEF Reaches
<1>13. ASSUME NEW k \in Node, HandleUpdate(k) PROVE Reaches'
  <2>1. PICK v \in updates[k] :
          /\ updates' = [updates EXCEPT ![k] = @ \ {v}]
          /\ content' = [content EXCEPT ![k] = @ \cup {v}]
    BY <1>13 DEF HandleUpdate
  <2>2. main[k] = "up" /\ UNCHANGED <<main, issued, unsent, flying>>
    BY <1>13 DEF HandleUpdate
  <2>3. /\ v \in content'[k]
        /\ \A n \in Node : content[n] \subseteq content'[n]
        /\ \A n \in Node : n # k => updates'[n] = updates[n]
        /\ updates'[k] = updates[k] \ {v}
    BY <2>1 DEF JoinTypeOK
  <2>4. ASSUME NEW n \in Node, NEW w \in 1..issued PROVE Arrives(n, w)'
    BY <2>2, <2>3 DEF Reaches, Arrives, Travels
  <2> QED
    BY <2>2, <2>4 DEF Reaches
<1>14. CASE UNCHANGED joinVars
  BY <1>4, <1>14 DEF joinVars, vars
<1> QED
  BY <1>5, <1>6, <1>7, <1>8, <1>9, <1>10, <1>11, <1>12, <1>13, <1>14
     DEF JoinNext

JoinSafe == Typed /\ (\A n \in Node : SyncSafe(n)) /\ JoinTypeOK

(* What holds of Join whatever the number of nodes.                        *)
LEMMA JoinAlwaysSafe == ASSUME MaxLaunch = 1 PROVE JoinSpec => []JoinSafe
<1>1. Typed /\ (\A n \in Node : SyncSafe(n)) /\ JoinTypeOK => JoinSafe
  BY DEF JoinSafe
<1>2. JoinSpec => [](\A n \in Node : SyncSafe(n))
  BY JoinAlwaysSyncSafe
<1>3. JoinSpec => [](Typed /\ JoinTypeOK)
  BY JoinAlwaysTyped, JoinTypeCorrect, PTL
<1> QED
  BY <1>1, <1>2, <1>3, PTL

-----------------------------------------------------------------------------
(* What is on its way to n, or stored where n serves, only gets further.   *)
LEMMA ReachedOn ==
  ASSUME NEW n \in Node, NEW w \in Write, Reached(n, w),
         flying \subseteq flying', updates[n] \subseteq updates'[n],
         main[n] = "up" => main'[n] = "up" /\ content[n] \subseteq content'[n]
  PROVE  Reached(n, w)'
  BY DEF Reached

(* A step of n or of any other node.  A synchronisation would do harm, but *)
(* none is under way where main has been woken.                            *)
LEMMA NextKeepsSent ==
  ASSUME Typed, \A k \in Node : SyncSafe(k), JoinTypeOK, [JoinNext]_joinVars,
         NEW n \in Node, NEW w \in Write, Reached(n, w), main'[n] # "panicked"
  PROVE  Reached(n, w)'
<1> USE DEF starting, syncing, traffic, files, replicas
<1>1. TypeOK /\ \A k \in Node : LaunchedOnce(k)
  BY DEF Typed, SyncSafe
<1>2. CASE UNCHANGED replicas /\ (main[n] = "up" => main'[n] = "up")
  BY <1>2, ReachedOn
<1>3. ASSUME NEW k \in Node, Starts(k) PROVE Reached(n, w)'
  <2>1. CASE Launch(k)
    <3>1. main[n] = "up" => main'[n] = "up"
      BY <1>1, <2>1 DEF Launch, TypeOK
    <3> QED
      BY <1>2, <1>3, <3>1 DEF Starts
  <2>2. CASE Starting(k)
    <3>1. main' = main
      BY <2>2 DEF Starting, PingSucceeds, PingFails, Discover, RequestSharedKey,
                  SyncRequest, SendSync
    <3> QED
      BY <1>2, <1>3, <3>1 DEF Starts
  <2> QED
    BY <1>3, <2>1, <2>2 DEF Starts
<1>4. ASSUME NEW k \in Node, Boots(k) PROVE Reached(n, w)'
  <2>1. main[k] # "up" /\ \E x : main' = [main EXCEPT ![k] = x]
    BY <1>4 DEF Boots, Booting, ReadyFromStart, ReadyFromSync, Seal, WriteKey,
                OpenDatabase, OpenDatabasePanics, UnsealSharedKey, UnsealPanics,
                Die
  <2>2. main[n] = "up" => main'[n] = "up"
    BY <1>1, <2>1 DEF TypeOK
  <2>3. CASE UNCHANGED replicas
    BY <1>2, <2>2, <2>3
  <2>4. CASE main'[k] = "panicked" /\ Forget(k)
    <3>1. k # n
      BY <2>4
    <3>2. flying' = flying /\ content' = content /\ updates'[n] = updates[n]
      BY <2>4, <3>1 DEF Forget, JoinTypeOK
    <3> QED
      BY <2>2, <3>2, ReachedOn
  <2> QED
    BY <1>4, <2>3, <2>4 DEF Boots
<1>5. ASSUME NEW k \in Node, Syncs(k) PROVE Reached(n, w)'
  <2>1. /\ sock[k] \in {"received", "write"} /\ main' = main
        /\ UNCHANGED <<flying, updates>>
    BY <1>5 DEF Syncs, TruncateDatabase, WriteDatabase
  <2>2. main[k] = "wait"
    BY <2>1, SafeMeansSafe
  <2>3. main[n] = "up" => content'[n] = content[n]
    BY <1>5, <2>2 DEF Syncs, JoinTypeOK
  <2> QED
    BY <2>1, <2>3, ReachedOn
<1>6. ASSUME NEW k \in Node, Handles(k) \/ Answers(k) PROVE Reached(n, w)'
  <2>1. UNCHANGED <<main, content, flying, updates>>
    BY <1>6 DEF Handles, Handling, ReceiveSyncRequest, SendSharedKey,
                HandleSharedKey, Answers, Copies, SyncResponse,
                SyncResponseFails, CreateKeyFile, WriteKeyFile
  <2> QED
    BY <2>1, ReachedOn
<1>7. ASSUME NEW k \in Node, Commits(k) PROVE Reached(n, w)'
  <2>1. /\ UNCHANGED <<main, flying, updates>>
        /\ content[n] \subseteq content'[n]
    BY <1>7 DEF Commits, ClientWrites, JoinTypeOK
  <2> QED
    BY <2>1, ReachedOn
<1>8. ASSUME NEW k \in Node, Emits(k) PROVE Reached(n, w)'
  <2>1. UNCHANGED <<main, content, updates>> /\ flying \subseteq flying'
    BY <1>8 DEF Emits, vars
  <2> QED
    BY <2>1, ReachedOn
<1>9. ASSUME NEW p \in Node, NEW v \in Write, Receives(p, v)
      PROVE  Reached(n, w)'
  <2>1. /\ flying' = flying \ {<<p, v>>}
        /\ updates' = [updates EXCEPT ![p] = @ \cup {v}]
        /\ UNCHANGED <<main, content>>
    BY <1>9 DEF Receives, vars
  <2>2. v \in updates'[p] /\ updates[n] \subseteq updates'[n]
    BY <2>1 DEF JoinTypeOK
  <2> QED
    BY <2>1, <2>2 DEF Reached
<1>10. ASSUME NEW k \in Node, HandleUpdate(k) PROVE Reached(n, w)'
  <2>1. PICK v \in updates[k] :
          /\ updates' = [updates EXCEPT ![k] = @ \ {v}]
          /\ content' = [content EXCEPT ![k] = @ \cup {v}]
    BY <1>10 DEF HandleUpdate
  <2>2. main[k] = "up" /\ UNCHANGED <<main, flying>>
    BY <1>10 DEF HandleUpdate
  <2>3. /\ v \in content'[k] /\ content[n] \subseteq content'[n]
        /\ n # k => updates'[n] = updates[n]
        /\ updates'[k] = updates[k] \ {v}
    BY <2>1 DEF JoinTypeOK
  <2> QED
    BY <2>2, <2>3 DEF Reached
<1>11. CASE UNCHANGED joinVars
  BY <1>2, <1>11 DEF joinVars, vars
<1> QED
  BY <1>3, <1>4, <1>5, <1>6, <1>7, <1>8, <1>9, <1>10, <1>11 DEF JoinNext

(* In a cluster of any size a write that was sent to a node, launched once *)
(* and not ended, stays with it, whatever SyncHandle does to its database  *)
(* (cluster.go, the message handler and SyncHandle; kv.go).                *)
THEOREM SentStays == ASSUME MaxLaunch = 1 PROVE JoinSpec => SentIsKept
<1>1. JoinSafe /\ [JoinNext]_joinVars
        => \A n \in Node, w \in Write :
             Reached(n, w) => Reached(n, w)' \/ main'[n] = "panicked"
  BY NextKeepsSent DEF JoinSafe
<1> QED
  BY <1>1, JoinAlwaysSafe, PTL DEF JoinSpec, SentIsKept

-----------------------------------------------------------------------------
(* Two nodes that boot together while clients write, launched once: each   *)
(* write that was committed is in the database of each serving node or on  *)
(* its way there, however synchronisation and broadcast cross (cluster.go, *)
(* Start, SyncHandle, Emit and the message handler; kv.go).  A third node  *)
(* may miss writes, see Join_late.cfg.                                     *)
THEOREM NothingIsLost ==
  ASSUME MaxLaunch = 1, NEW a, NEW b, Node = {a, b}
  PROVE  JoinSpec => []NothingLost
<1>1. JoinInit => Meet /\ Reaches
  <2> SUFFICES ASSUME JoinInit PROVE Meet /\ Reaches
    OBVIOUS
  <2>1. Meet
    BY DEF JoinInit, Init, Meet, Met
  <2>2. Reaches
    BY DEF JoinInit, Init, Reaches
  <2> QED
    BY <2>1, <2>2
<1>2. JoinSafe /\ Meet /\ [JoinNext]_joinVars => Meet'
  BY TwoNodesPair, NextMeet, JoinStepIsClusterStep DEF joinVars, JoinSafe
<1>3. JoinSafe /\ Meet /\ Reaches /\ [JoinNext]_joinVars => Reaches'
  BY NextReaches DEF JoinSafe
<1>4. JoinSafe /\ Reaches => NothingLost
  BY ReachesMeansNothingLost DEF JoinSafe
<1> QED
  BY <1>1, <1>2, <1>3, <1>4, JoinAlwaysSafe, PTL DEF JoinSpec

=============================================================================
