------------------------------ MODULE Cluster -------------------------------
(***************************************************************************)
(* How a Cave node comes up in production mode: the boot sequence of       *)
(* main.go, Cluster.Start and the database and key synchronisation of      *)
(* cluster.go, and the key file of crypto.go.                              *)
(*                                                                         *)
(* Of a node's processes, main waits for clusterReady, Start pings and     *)
(* discovers and asks a peer for the key and the database, SyncHandle      *)
(* takes the database in, and message handlers answer in goroutines of     *)
(* their own.  Files survive a crash, everything else does not.            *)
(***************************************************************************)
EXTENDS Naturals

CONSTANTS
  Node,
  Discovery,   (* Discovery[n]: the discovery host configured on n         *)
  Deployed,    (* the nodes an operator may launch                         *)
  Certified,   (* the nodes with a certificate for the sync socket         *)
  Populated,   (* the nodes with a database and a key of an earlier life   *)
  Faulty,      (* the network may fail though both ends are up             *)
  DiskFails,   (* the disk may fail while a database is written            *)
  MaxLaunch,   (* bound on the launches of a node                          *)
  MaxTry       (* bound on the attempts of a launch to join                *)

ASSUME ClusterAssumption ==
  /\ Discovery \in [Node -> Node]
  /\ \A n \in Node : Discovery[n] # n
  /\ Deployed \subseteq Node
  /\ Certified \subseteq Node
  /\ Populated \subseteq Node
  /\ Faulty \in BOOLEAN
  /\ DiskFails \in BOOLEAN
  /\ MaxLaunch \in Nat
  /\ MaxTry \in Nat \ {0}
  /\ {"NoKey", "EmptyKey", "NullKey", "NoNode"} \cap Node = {}

VARIABLES
  main,      (* main[n]: where the main goroutine of n is                  *)
  start,     (* start[n]: where Cluster.Start of n is                      *)
  first,     (* first[n]: firstNode                                        *)
  startup,   (* startup[n]: startup                                        *)
  peers,     (* peers[n]: Cluster.peers                                    *)
  near,      (* near[n]: the nearest node in the location table            *)
  try,       (* try[n]: the attempts to join of this launch                *)
  sock,      (* sock[n]: where the SyncHandle that got the port is         *)
  recv,      (* recv[n]: what it has received, or that writing it failed   *)
  signal,    (* signal[n]: a SyncHandle waits to send on clusterReady      *)
  net,       (* messages sent and not yet handled                          *)
  jobs,      (* goroutines that answer a message or store a key            *)
  key,       (* key[n]: the file cluster.key                               *)
  kvkey,     (* kvkey[n]: the key the KV service uses                      *)
  db,        (* db[n]: the database file                                   *)
  launches   (* launches[n]: how often n was launched                      *)

starting == <<first, startup, peers, near, try>>
syncing == <<sock, recv, signal>>
traffic == <<net, jobs>>
files == <<key, db>>
vars == <<main, start, starting, syncing, traffic, files, kvkey, launches>>

-----------------------------------------------------------------------------
(* A database file is missing, empty, the beginning of a database, one     *)
(* with the two top buckets, or one with what clients stored.  A key file  *)
(* is missing, still empty, holds the JSON null, or the key generated on a *)
(* node.                                                                   *)
Database == {"none", "zero", "torn", "fresh", "data"}
Key == Node \cup {"NoKey", "EmptyKey", "NullKey"}

Message == [type : {"sync:request", "sync:sharedkey", "sync:sendsharedkey"},
            from : Node, to : Node, try : 1..MaxTry]

Job == [node : Node, peer : Node, try : 1..MaxTry,
        step : {"send file", "send nothing", "create key", "write key"}]

(* A node that listens only once its first ping has been answered.         *)
ListeningAfterPing(n) == start[n] \notin {"down", "ping"}

Listening(n) == start[n] # "down"

(* A peer list that names the node itself.                                 *)
EveryNode(n) == Node

(* The nodes the network library can report to n as peers.                 *)
Others(n) == Node \ {n}

(* Can m be reached, and can a call to it fail?                            *)
MayReach(m) == Listening(m)
MayFail(m) == Faulty \/ ~ Listening(m)

-----------------------------------------------------------------------------
Init ==
  /\ main = [n \in Node |-> "down"]
  /\ start = [n \in Node |-> "down"]
  /\ first = [n \in Node |-> FALSE]
  /\ startup = [n \in Node |-> TRUE]
  /\ peers = [n \in Node |-> {}]
  /\ near = [n \in Node |-> "NoNode"]
  /\ try = [n \in Node |-> 0]
  /\ sock = [n \in Node |-> "closed"]
  /\ recv = [n \in Node |-> "none"]
  /\ signal = [n \in Node |-> FALSE]
  /\ net = {}
  /\ jobs = {}
  /\ key = [n \in Node |-> IF n \in Populated THEN n ELSE "NoKey"]
  /\ kvkey = [n \in Node |-> "NoKey"]
  /\ db = [n \in Node |-> IF n \in Populated THEN "data" ELSE "none"]
  /\ launches = [n \in Node |-> 0]

(* main starts Cluster.Start, which listens before it does anything else,  *)
(* and waits for clusterReady.                                             *)
Launch(n) ==
  /\ n \in Deployed
  /\ main[n] \in {"down", "panicked"}
  /\ launches[n] < MaxLaunch
  /\ launches' = [launches EXCEPT ![n] = @ + 1]
  /\ main' = [main EXCEPT ![n] = "wait"]
  /\ start' = [start EXCEPT ![n] = "ping"]
  /\ first' = [first EXCEPT ![n] = FALSE]
  /\ startup' = [startup EXCEPT ![n] = TRUE]
  /\ peers' = [peers EXCEPT ![n] = {}]
  /\ near' = [near EXCEPT ![n] = "NoNode"]
  /\ try' = [try EXCEPT ![n] = 0]
  /\ UNCHANGED <<syncing, traffic, files, kvkey>>

(* The process of n ends; its files stay, and what it was doing is gone.   *)
Die(n, how) ==
  /\ main' = [main EXCEPT ![n] = how]
  /\ start' = [start EXCEPT ![n] = "down"]
  /\ sock' = [sock EXCEPT ![n] = "closed"]
  /\ recv' = [recv EXCEPT ![n] = "none"]
  /\ signal' = [signal EXCEPT ![n] = FALSE]
  /\ kvkey' = [kvkey EXCEPT ![n] = "NoKey"]
  /\ jobs' = {j \in jobs : j.node # n}
  /\ UNCHANGED <<starting, net, launches>>

(* Only nodes that may be launched again are crashed.                      *)
Crash(n) ==
  /\ Listening(n)
  /\ launches[n] < MaxLaunch
  /\ Die(n, "down")
  /\ UNCHANGED files

-----------------------------------------------------------------------------
(* Cluster.Start.                                                          *)

PingSucceeds(n) ==
  /\ start[n] = "ping"
  /\ MayReach(Discovery[n])
  /\ start' = [start EXCEPT ![n] = "discover"]
  /\ UNCHANGED <<main, starting, syncing, traffic, files, kvkey, launches>>

PingFails(n) ==
  /\ start[n] = "ping"
  /\ MayFail(Discovery[n])
  /\ first' = [first EXCEPT ![n] = TRUE]
  /\ UNCHANGED <<main, start, startup, peers, near, try, syncing, traffic,
                 files, kvkey, launches>>

(* One round: the peers are the nodes that can be reached, or any nodes if *)
(* the network is faulty; the nearest is one of those that answer a ping.  *)
(* A first node then sends on clusterReady, in every round: nothing resets *)
(* its startup.                                                            *)
Discover(n) ==
  /\ start[n] = "discover"
  /\ \E P \in SUBSET Others(n) :
       /\ Faulty \/ P = {m \in Others(n) : Listening(m)}
       /\ peers' = [peers EXCEPT ![n] = P]
       /\ \E m \in P \cup {"NoNode"} :
            /\ m = "NoNode" => \A k \in P : MayFail(k)
            /\ m # "NoNode" => MayReach(m)
            /\ near' = [near EXCEPT ![n] = m]
            /\ start' = [start EXCEPT ![n] =
                           CASE startup[n] /\ first[n] -> "ready"
                             [] startup[n] /\ ~ first[n] /\ m # "NoNode" -> "key"
                             [] OTHER -> "discover"]
  /\ UNCHANGED <<main, first, startup, try, syncing, traffic, files, kvkey,
                 launches>>

Send(type, n, m, k) == net \cup {[type |-> type, from |-> n, to |-> m, try |-> k]}

(* RequestSharedKey; an error is only logged.                              *)
RequestSharedKey(n) ==
  /\ start[n] = "key"
  /\ try[n] < MaxTry
  /\ try' = [try EXCEPT ![n] = @ + 1]
  /\ \/ MayReach(near[n]) /\ net' = Send("sync:sharedkey", n, near[n], try'[n])
     \/ MayFail(near[n]) /\ UNCHANGED net
  /\ start' = [start EXCEPT ![n] = "sync"]
  /\ UNCHANGED <<main, first, startup, peers, near, syncing, jobs, files,
                 kvkey, launches>>

(* SyncRequest up to its wait for the socket.  The SyncHandle it starts    *)
(* always ends with a send on clusterReady: without a certificate at once, *)
(* and SyncRequest waits for ever; with the port still held by an earlier  *)
(* SyncHandle at once, and SyncRequest returns an error.                   *)
SyncRequest(n) ==
  /\ start[n] = "sync"
  /\ CASE n \notin Certified ->
            /\ start' = [start EXCEPT ![n] = "stuck"]
            /\ signal' = [signal EXCEPT ![n] = TRUE]
            /\ UNCHANGED sock
       [] n \in Certified /\ sock[n] = "closed" ->
            /\ start' = [start EXCEPT ![n] = "send"]
            /\ sock' = [sock EXCEPT ![n] = "accept"]
            /\ UNCHANGED signal
       [] n \in Certified /\ sock[n] # "closed" ->
            /\ start' = [start EXCEPT ![n] = "discover"]
            /\ signal' = [signal EXCEPT ![n] = TRUE]
            /\ UNCHANGED sock
  /\ UNCHANGED <<main, starting, recv, traffic, files, kvkey, launches>>

(* A send that reports an error for a message that does arrive.            *)
SendSyncAnyway(n) ==
  /\ start[n] = "send"
  /\ \/ /\ MayReach(near[n])
        /\ net' = Send("sync:request", n, near[n], try[n])
        /\ startup' = [startup EXCEPT ![n] = FALSE]
     \/ /\ MayFail(near[n])
        /\ net' = Send("sync:request", n, near[n], try[n])
        /\ UNCHANGED startup
  /\ start' = [start EXCEPT ![n] = "discover"]
  /\ UNCHANGED <<main, first, peers, near, try, syncing, jobs, files, kvkey,
                 launches>>

(* The rest of SyncRequest: the request is sent, or startup stays true.    *)
SendSync(n) ==
  /\ start[n] = "send"
  /\ \/ /\ MayReach(near[n])
        /\ net' = Send("sync:request", n, near[n], try[n])
        /\ startup' = [startup EXCEPT ![n] = FALSE]
     \/ /\ MayFail(near[n])
        /\ UNCHANGED <<net, startup>>
  /\ start' = [start EXCEPT ![n] = "discover"]
  /\ UNCHANGED <<main, first, peers, near, try, syncing, jobs, files, kvkey,
                 launches>>

-----------------------------------------------------------------------------
(* The message handler.  Each message is answered in a new goroutine, from *)
(* the moment the node listens, whether or not it has come up itself.      *)

Remove(msg) == net' = net \ {msg}

(* A message to a node that is down goes nowhere; on a faulty network any  *)
(* message may.                                                            *)
Lose(msg) ==
  /\ MayFail(msg.to)
  /\ Remove(msg)
  /\ UNCHANGED <<main, start, starting, syncing, jobs, files, kvkey, launches>>

Spawn(n, m, k, step) ==
  jobs' = jobs \cup {[node |-> n, peer |-> m, try |-> k, step |-> step]}

(* SyncResponse looks whether there is a database file ...                 *)
ReceiveSyncRequest(msg) ==
  /\ msg.type = "sync:request"
  /\ Listening(msg.to)
  /\ Remove(msg)
  /\ Spawn(msg.to, msg.from, msg.try,
           IF db[msg.to] = "none" THEN "send nothing" ELSE "send file")
  /\ UNCHANGED <<main, start, starting, syncing, files, kvkey, launches>>

(* ... and then connects and copies it.                                    *)
SyncResponse(j) ==
  /\ j.step \in {"send file", "send nothing"}
  /\ sock[j.peer] = "accept"
  /\ sock' = [sock EXCEPT ![j.peer] = "received"]
  /\ recv' = [recv EXCEPT ![j.peer] =
                IF j.step = "send file" THEN db[j.node] ELSE "zero"]
  /\ jobs' = jobs \ {j}
  /\ UNCHANGED <<main, start, starting, signal, net, files, kvkey, launches>>

(* The dial fails.                                                         *)
SyncResponseFails(j) ==
  /\ j.step \in {"send file", "send nothing"}
  /\ Faulty \/ sock[j.peer] # "accept"
  /\ jobs' = jobs \ {j}
  /\ UNCHANGED <<main, start, starting, syncing, net, files, kvkey, launches>>

(* The connection breaks, and SyncHandle returns without writing.          *)
SyncResponseBreaks(j) ==
  /\ j.step \in {"send file", "send nothing"}
  /\ Faulty
  /\ sock[j.peer] = "accept"
  /\ sock' = [sock EXCEPT ![j.peer] = "closed"]
  /\ signal' = [signal EXCEPT ![j.peer] = TRUE]
  /\ jobs' = jobs \ {j}
  /\ UNCHANGED <<main, start, starting, recv, net, files, kvkey, launches>>

(* SendSharedKey answers with app.sharedKey, which no one ever sets, so    *)
(* with the JSON null.                                                     *)
SendSharedKey(msg) ==
  /\ msg.type = "sync:sharedkey"
  /\ Listening(msg.to)
  /\ \/ /\ MayReach(msg.from)
        /\ net' = (net \ {msg}) \cup
                    {[type |-> "sync:sendsharedkey", from |-> msg.to,
                      to |-> msg.from, try |-> msg.try]}
     \/ MayFail(msg.from) /\ Remove(msg)
  /\ UNCHANGED <<main, start, starting, syncing, jobs, files, kvkey, launches>>

(* SealSharedKey without its test for an existing file.                    *)
HandleSharedKeyAlways(msg) ==
  /\ msg.type = "sync:sendsharedkey"
  /\ Listening(msg.to)
  /\ Remove(msg)
  /\ Spawn(msg.to, msg.from, msg.try, "create key")
  /\ UNCHANGED <<main, start, starting, syncing, files, kvkey, launches>>

(* HandleSharedKey calls SealSharedKey, which leaves an existing key file  *)
(* alone, ...                                                              *)
HandleSharedKey(msg) ==
  /\ msg.type = "sync:sendsharedkey"
  /\ Listening(msg.to)
  /\ Remove(msg)
  /\ \/ key[msg.to] # "NoKey" /\ UNCHANGED jobs
     \/ key[msg.to] = "NoKey" /\ Spawn(msg.to, msg.from, msg.try, "create key")
  /\ UNCHANGED <<main, start, starting, syncing, files, kvkey, launches>>

(* ... creates one, or truncates the one that has appeared since, ...      *)
CreateKeyFile(j) ==
  /\ j.step = "create key"
  /\ key' = [key EXCEPT ![j.node] = "EmptyKey"]
  /\ jobs' = (jobs \ {j}) \cup {[j EXCEPT !.step = "write key"]}
  /\ UNCHANGED <<main, start, starting, syncing, net, db, kvkey, launches>>

(* ... and writes to it.                                                   *)
WriteKeyFile(j) ==
  /\ j.step = "write key"
  /\ key' = [key EXCEPT ![j.node] = "NullKey"]
  /\ jobs' = jobs \ {j}
  /\ UNCHANGED <<main, start, starting, syncing, net, db, kvkey, launches>>

-----------------------------------------------------------------------------
(* SyncHandle.                                                             *)

(* A SyncHandle that sends on clusterReady before it has written.          *)
TruncateAndSignal(n) ==
  /\ sock[n] = "received"
  /\ db' = [db EXCEPT ![n] = "zero"]
  /\ sock' = [sock EXCEPT ![n] = "write"]
  /\ signal' = [signal EXCEPT ![n] = TRUE]
  /\ UNCHANGED <<main, start, starting, recv, traffic, key, kvkey, launches>>

(* A SyncHandle that truncates the file before a peer has connected.       *)
TruncateEarly(n) ==
  /\ sock[n] \in {"accept", "received"}
  /\ db[n] # "zero"
  /\ db' = [db EXCEPT ![n] = "zero"]
  /\ sock' = [sock EXCEPT ![n] = IF @ = "received" THEN "write" ELSE @]
  /\ UNCHANGED <<main, start, starting, recv, signal, traffic, key, kvkey,
                 launches>>

(* dbClose or OpenFile fails: the file stays as it is.  Every return of    *)
(* SyncHandle makes its deferred send on clusterReady.                     *)
OpenFileFails(n) ==
  /\ DiskFails
  /\ sock[n] = "received"
  /\ sock' = [sock EXCEPT ![n] = "closed"]
  /\ recv' = [recv EXCEPT ![n] = "failed"]
  /\ signal' = [signal EXCEPT ![n] = TRUE]
  /\ UNCHANGED <<main, start, starting, traffic, files, kvkey, launches>>

(* The database file is opened with O_TRUNC, ...                           *)
TruncateDatabase(n) ==
  /\ sock[n] = "received"
  /\ db' = [db EXCEPT ![n] = "zero"]
  /\ sock' = [sock EXCEPT ![n] = "write"]
  /\ UNCHANGED <<main, start, starting, recv, signal, traffic, key, kvkey,
                 launches>>

(* A SyncHandle that returns without its deferred send.                    *)
WriteSilently(n) ==
  /\ sock[n] = "write"
  /\ db' = [db EXCEPT ![n] = recv[n]]
  /\ sock' = [sock EXCEPT ![n] = "closed"]
  /\ UNCHANGED <<main, start, starting, recv, signal, traffic, key, kvkey,
                 launches>>

(* ... written and synced; the deferred send on clusterReady comes last.   *)
WriteDatabase(n) ==
  /\ sock[n] = "write"
  /\ db' = [db EXCEPT ![n] = recv[n]]
  /\ sock' = [sock EXCEPT ![n] = "closed"]
  /\ signal' = [signal EXCEPT ![n] = TRUE]
  /\ UNCHANGED <<main, start, starting, recv, traffic, key, kvkey, launches>>

(* What may be in a file to which d was written without success.           *)
Prefixes(d) == IF d = "zero" THEN {"zero"} ELSE {"zero", "torn", d}

(* Copy or Sync fails, or too little was written; main is woken all the    *)
(* same.                                                                   *)
WriteDatabaseFails(n) ==
  /\ DiskFails
  /\ sock[n] = "write"
  /\ \E d \in Prefixes(recv[n]) : db' = [db EXCEPT ![n] = d]
  /\ sock' = [sock EXCEPT ![n] = "closed"]
  /\ recv' = [recv EXCEPT ![n] = "failed"]
  /\ signal' = [signal EXCEPT ![n] = TRUE]
  /\ UNCHANGED <<main, start, starting, traffic, key, kvkey, launches>>

-----------------------------------------------------------------------------
(* main.                                                                   *)

(* <-clusterReady, from Start (which has set genRSA) or from a SyncHandle. *)
(* main reads it once; later senders wait for ever.                        *)
ReadyFromStart(n) ==
  /\ main[n] = "wait"
  /\ start[n] = "ready"
  /\ start' = [start EXCEPT ![n] = "discover"]
  /\ main' = [main EXCEPT ![n] = "seal"]
  /\ UNCHANGED <<starting, syncing, traffic, files, kvkey, launches>>

ReadyFromSync(n) ==
  /\ main[n] = "wait"
  /\ signal[n]
  /\ signal' = [signal EXCEPT ![n] = FALSE]
  /\ main' = [main EXCEPT ![n] = "open"]
  /\ UNCHANGED <<start, starting, sock, recv, traffic, files, kvkey, launches>>

(* GenerateSharedKey and SealSharedKey on a first node.                    *)
Seal(n) ==
  /\ main[n] = "seal"
  /\ \/ /\ key[n] # "NoKey"
        /\ main' = [main EXCEPT ![n] = "open"]
        /\ UNCHANGED key
     \/ /\ key[n] = "NoKey"
        /\ key' = [key EXCEPT ![n] = "EmptyKey"]
        /\ main' = [main EXCEPT ![n] = "sealing"]
  /\ UNCHANGED <<start, starting, syncing, traffic, db, kvkey, launches>>

WriteKey(n) ==
  /\ main[n] = "sealing"
  /\ key' = [key EXCEPT ![n] = n]
  /\ main' = [main EXCEPT ![n] = "open"]
  /\ UNCHANGED <<start, starting, syncing, traffic, db, kvkey, launches>>

(* newKV opens the database, which creates what a missing or empty file    *)
(* lacks, ...                                                              *)
OpenDatabase(n) ==
  /\ main[n] = "open"
  /\ db' = [db EXCEPT ![n] = IF @ \in {"torn", "data"} THEN @ ELSE "fresh"]
  /\ main' = [main EXCEPT ![n] = "unseal"]
  /\ UNCHANGED <<start, starting, syncing, traffic, key, kvkey, launches>>

(* ... and may take the beginning of a database for an invalid one, ...    *)
OpenDatabasePanics(n) ==
  /\ main[n] = "open"
  /\ db[n] = "torn"
  /\ Die(n, "panicked")
  /\ UNCHANGED files

(* ... and reads the key file.                                             *)
UnsealSharedKey(n) ==
  /\ main[n] = "unseal"
  /\ key[n] \notin {"NoKey", "EmptyKey"}
  /\ kvkey' = [kvkey EXCEPT ![n] = key[n]]
  /\ main' = [main EXCEPT ![n] = "up"]
  /\ UNCHANGED <<start, starting, syncing, traffic, files, launches>>

(* Without one, newKV returns an error; from an empty one the slice of the *)
(* nonce is out of range.  Either way main panics.                         *)
UnsealPanics(n) ==
  /\ main[n] = "unseal"
  /\ key[n] \in {"NoKey", "EmptyKey"}
  /\ Die(n, "panicked")
  /\ UNCHANGED files

(* A client of a running node stores something.                            *)
ClientWrites(n) ==
  /\ main[n] = "up"
  /\ db' = [db EXCEPT ![n] = IF @ = "torn" THEN @ ELSE "data"]
  /\ UNCHANGED <<main, start, starting, syncing, traffic, key, kvkey, launches>>

-----------------------------------------------------------------------------
Starting(n) ==
  \/ PingSucceeds(n) \/ PingFails(n) \/ Discover(n)
  \/ RequestSharedKey(n) \/ SyncRequest(n) \/ SendSync(n)

Booting(n) ==
  \/ ReadyFromStart(n) \/ ReadyFromSync(n)
  \/ Seal(n) \/ WriteKey(n)
  \/ OpenDatabase(n) \/ OpenDatabasePanics(n)
  \/ UnsealSharedKey(n) \/ UnsealPanics(n)

Syncing(n) ==
  \/ OpenFileFails(n) \/ TruncateDatabase(n)
  \/ WriteDatabase(n) \/ WriteDatabaseFails(n)

Handling(n) ==
  \E msg \in net : /\ msg.to = n
                   /\ \/ ReceiveSyncRequest(msg)
                      \/ SendSharedKey(msg)
                      \/ HandleSharedKey(msg)

Answering(n) ==
  \E j \in jobs : /\ j.node = n
                  /\ \/ SyncResponse(j) \/ SyncResponseFails(j)
                     \/ CreateKeyFile(j) \/ WriteKeyFile(j)

Next ==
  \/ \E n \in Node : \/ Launch(n) \/ Crash(n) \/ ClientWrites(n)
                     \/ Starting(n) \/ Booting(n) \/ Syncing(n)
                     \/ Handling(n) \/ Answering(n)
  \/ \E msg \in net : Lose(msg)
  \/ \E j \in jobs : SyncResponseBreaks(j)

(* The goroutines of a node that is up run on; nothing makes an operator   *)
(* launch a node.                                                          *)
Fairness ==
  \A n \in Node : /\ WF_vars(Starting(n)) /\ WF_vars(Booting(n))
                  /\ WF_vars(Syncing(n)) /\ WF_vars(Handling(n))
                  /\ WF_vars(Answering(n))

Spec == Init /\ [][Next]_vars

FairSpec == Spec /\ Fairness

(* A deployment: every node is launched.                                   *)
DeployedSpec == FairSpec /\ \A n \in Deployed : WF_vars(Launch(n))

-----------------------------------------------------------------------------
TypeOK ==
  /\ main \in [Node -> {"down", "wait", "seal", "sealing", "open", "unseal",
                        "up", "panicked"}]
  /\ start \in [Node -> {"down", "ping", "discover", "key", "sync", "stuck",
                         "send", "ready"}]
  /\ first \in [Node -> BOOLEAN]
  /\ startup \in [Node -> BOOLEAN]
  /\ peers \in [Node -> SUBSET Node]
  /\ \A n \in Node : n \notin peers[n]
  /\ near \in [Node -> Node \cup {"NoNode"}]
  /\ try \in [Node -> 0..MaxTry]
  /\ sock \in [Node -> {"closed", "accept", "received", "write"}]
  /\ recv \in [Node -> Database \cup {"failed"}]
  /\ signal \in [Node -> BOOLEAN]
  /\ net \subseteq Message
  /\ jobs \subseteq Job
  /\ key \in [Node -> Key]
  /\ kvkey \in [Node -> Key]
  /\ db \in [Node -> Database]
  /\ launches \in [Node -> 0..MaxLaunch]

(* Of two nodes that are each other's discovery host, at most one runs as  *)
(* the first node when the network works, whichever crash and come back: a *)
(* node listens before it pings (cluster.go, Start), so the later of the   *)
(* two finds the other.                                                    *)
AtMostOneFirstNode ==
  \A m, n \in Node :
    /\ m # n /\ Discovery[m] = n /\ Discovery[n] = m
    /\ start[m] # "down" /\ start[n] # "down"
    => ~ (first[m] /\ first[n])

(* A node that has its key file when it is launched keeps it, whatever     *)
(* crashes, restarts, key messages and replies to an earlier life follow   *)
(* (crypto.go, SealSharedKey; a node that has none yet is another matter,  *)
(* see KeyNotOverwritten).                                                 *)
KeyFileKept == \A n \in Populated : key[n] = n

(* SyncHandle and the KV service share the database file and app.KVInit    *)
(* without a lock: as long as no node restarts, a database that has been   *)
(* opened is never truncated under the service that uses it, because       *)
(* whatever wakes main without a database also ends the last chance of a   *)
(* request to reach a peer.                                                *)
NoSyncIntoOpenDatabase ==
  \A n \in Node : sock[n] \in {"received", "write"} => main[n] = "wait"

(* What a joining node received is in its database file before it serves   *)
(* requests, and stays there (cluster.go, SyncHandle; main.go), as long as *)
(* no node restarts: the answer to a request of an earlier life may come   *)
(* when main has already been woken (Cluster_restart.cfg).  That the file  *)
(* could not be written is another matter, see FailedSyncNotServed.        *)
ReceivedIsServed ==
  \A n \in Node : main[n] = "up" /\ recv[n] = "data" => db[n] = "data"

(* A node stops waiting for clusterReady, unless some node panics: first   *)
(* nodes and joining nodes, however their requests cross.                  *)
WaitEnds ==
  \A n \in Node :
    main[n] = "wait" ~> (main[n] # "wait" \/ \E m \in Node : main[m] = "panicked")

-----------------------------------------------------------------------------
(* What the documentation says, and the code does not do.                  *)

(* "If it is unable to find peers it will assume it is the first node to   *)
(* come up" (README.md).                                                   *)
FirstNodeComesUp ==
  \A n \in Node : (main[n] = "wait" /\ first[n]) ~> main[n] # "wait"

(* "a node only needs to see a single node of a cluster in order to fully  *)
(* join and connect with the rest of the cluster" (README.md): it comes up *)
(* ...                                                                     *)
JoinerComesUp ==
  \A n \in Node : main[n] = "wait" ~> main[n] = "up"

(* ... and a first node, too, gets to know the nodes that are up.          *)
FirstNodeKnowsEveryone ==
  (\A n \in Node : main[n] = "up") ~>
    (\A n \in Node : first[n] => peers[n] = Node \ {n})

(* "the first node to come up [will] generate a new cluster id, shared     *)
(* keys" (README.md): two nodes that serve requests use the same key.      *)
SharedKeyIsShared ==
  \A m, n \in Node : main[m] = "up" /\ main[n] = "up" => kvkey[m] = kvkey[n]

(* "dont overwrite key if it exists" (crypto.go).                          *)
KeyNotOverwritten ==
  [][\A n \in Node : key[n] \notin {"NoKey", "EmptyKey"} => key'[n] = key[n]]_vars

(* "the new database instance will attempt to discover peers and sync the  *)
(* cluster database state" (README.md): syncing does not erase that state  *)
(* from every disk and from the buffer of every SyncHandle at work.        *)
DataExists ==
  \E n \in Node :
    \/ db[n] = "data"
    \/ sock[n] \in {"received", "write"} /\ recv[n] = "data"

SyncKeepsData == [][DataExists => DataExists']_vars

(* The same sentence: a node whose synchronisation failed does not come up *)
(* with the file as it was before, with an empty one or a part of one.     *)
FailedSyncNotServed == \A n \in Node : ~ (main[n] = "up" /\ recv[n] = "failed")

=============================================================================
