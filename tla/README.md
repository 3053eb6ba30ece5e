# Cave: specifications, model checks and proofs

TLA+ modules for Cave (`src/`, Go), a masterless replicated key-value store. They
model what its goroutines, its nodes and its files do together; TLC checks them
on small instances, TLAPS proves some of the results for every instance. Run the
tools in this directory: `tlc -config X.cfg M`, `tlapm M.tla`.

## 1. Inventory

| Component | State | Operations | Talks to | Hard because |
|---|---|---|---|---|
| KV store, `kv.go` | one bbolt database: nested buckets, keys, objects with locks | Put/PutObject, Get/GetObject, GetKeys, GetTree, DeleteKey, DeleteBucket, Lock, Unlock, handleUpdate | handlers call it; Cluster.Emit; the update channel | requests interleave between their transactions; errors are overwritten |
| Replication, `cluster.go` (Emit, registerHandlers) | peer list, update channel of 4096, sends in progress | Emit, the message handler, discovery | every node | unordered sends that may fail; peer list replaced at any time; back-pressure |
| Boot and synchronisation, `cluster.go`, `main.go`, `crypto.go` | clusterReady, firstNode, startup, location table, sync socket, `cluster.key`, database file | Start, SyncRequest, SyncHandle, SyncResponse, RequestSharedKey, SendSharedKey, HandleSharedKey, SealSharedKey, UnsealSharedKey | messages and a TLS socket between nodes; files | two nodes booting against each other; crashes; unbuffered channels with one receiver |
| Token store, `token.go`, `plugins.go` | map of tokens, token channel, round counter | Issue, emit, HandleUpdate, Validate, sweep, Delete | main issues; peers' stores | the whole store is sent and replaced; clocks; a map read without its lock |
| Query API, `api.go` | a request, its goroutines, the result channel | multiQueryHandler, doGET, doPOST, doDELETE | KV store | a channel closed by its length; secrets encoded in two ways |
| Logger and shutdown, `log.go`, `main.go` | log channel, logQueue, terminate channels | print, Start, routeLogs, the last loop of main | everyone logs | everyone waits for the logger; main waits for everyone |
| Plugins, `plugins.go` | processes (in libsubrpc) | start, stop, call | RPC | the library is not in this repository |
| HTTP reads, `api.go` | none of their own | GET of a key, a directory, the tree; logs, nodes, system routes | KV store, logQueue | three ways to walk a database that changes |
| Configuration, metrics, UI | - | - | - | sequential; not modelled |

What makes each part correct: a put that fails leaves nothing behind and replicas that saw the
same updates agree; no update is lost or doubled unaccounted, also while a node
joins; one first node, and every node comes up with the cluster's data and key;
whichever way a client reads, it sees the same content; tokens live for their time
and no longer; every query is answered once; no log line is lost and a process
that is told to end does end. `PROJECT.json` lists the hazards behind these
statements, each at its line.

## 2. The modules

| Module | Models | Checked by | Proofs |
|---|---|---|---|
| `Bolt` | the bucket `kv` and its transactions, as operators on trees | through `CaveKV` | `CaveKVProofs` |
| `CaveKV` (extends `Bolt`) | requests, broadcast, channel and KV loop of a running cluster | `MCCaveKV` | `CaveKVProofs`, `ReplicaProofs` |
| `Listing` (extends `CaveKV`) | the reads: a key, a directory, the tree | `MCCaveKV` | `ListingProofs` |
| `ReplicaSet` (extends `Bolt`) | what replication promises, abstractly | implemented by `CaveKV` | `ReplicaProofs` |
| `Cluster` | boot, synchronisation, key file, crash and restart | `MCCluster`, `MCCluster3` | `ClusterProofs` |
| `Join` (extends `Cluster`) | a cluster that boots while clients write: `Cluster` composed with the broadcast | `MCJoin` | `JoinProofs` |
| `Tokens` | token stores and their exchange | `MCTokens` | `TokensProofs` |
| `QueryData` | stored data, secrets and queries, as sets and operators | through `MultiQuery` | - |
| `MultiQuery` (extends `QueryData`) | `POST /api/v1/query` | `MCMultiQuery` | `MultiQueryProofs` |
| `Batch` (extends `QueryData`) | what a request of several queries promises, abstractly | implemented by `MultiQuery` | `MultiQueryProofs` |
| `Shutdown` | logger and the end of main | `MCShutdown` | `ShutdownProofs` |

Definitions such as `HandleUpdateTwice` or `HandleSharedKeyAlways`, which `Next` does not
use, are variants with a plausible bug. `PROJECT.json` ("mutants") names, for each
property of each passing run, the variant that violates it when it takes the place
of the real definition.

### Bolt and CaveKV

A path is the sequence of names that `strings.Split(path, "/")` gives; the empty
name is what follows a final slash. A tree maps each place to a missing marker, a
bucket or an object (its data, and the identifiers of its locks). Timestamps and the
`Secret` and `Plaintext` flags are left out: no step of replication looks at them.

A transaction (`PutObject`, `DeleteKey`, `DeleteBucket`) is one step, because
`bbolt.Update` is, and one that fails leaves the tree as it was; the `Emit` that follows is another, so that requests of one
node interleave between their commit and their broadcast. `net` holds the sends in
progress, each a goroutine of `Cluster.Emit`; any one may be next, and any may fail
(`SendFails`). A `Send` that reports an error counts as not delivered. `Receive` is the message
handler with its blocking channel send, and `HandleUpdate` is a round of the KV
loop. `Discover` gives a node any peer list that does not name the node itself.

Facts of the code that the model keeps, and that surprise: a `DELETE` of a directory
calls `DeleteBucket` with the slash still there, which deletes nothing, and then
`DeleteKey`, which deletes nothing either; it is answered with 200, and both updates
are broadcast. A delete that fails at its origin is broadcast all the same. A put
writes a new object and so drops the locks of the old one. Locks are written back
by an ordinary put, in a second transaction.

`ReplicaSet` is the abstract view: a write changes one replica and becomes a duty
of every other, duties are done in any order and at most once, and may be lost.
`CaveKV` maps `log` to `issued` and what is in flight, queued or unsent to `todo`.

History variables: `log`, `seen`, `missed` and `raced`. `raced` becomes true when an
update is committed while an earlier one of a related path (the same, or one above
the other) has not been handled everywhere; `Agreement` is stated while it is false.
With races the replicas of Cave can differ for good ("not ACID compliant and makes
no write guarantees", `src/README.md`).

### Listing

`GetKeys` lists one bucket, `GetTree` all of them by recursion, and `kvGetHandler` maps
what they and `Get` return to a status: an empty directory is not found (404), a
missing key or bucket is an error (500), and an object without data (`NoData`), which a
`POST` with an empty body stores, is not found either, though it is listed. A listing is a set of names with or without a
slash, the JSON tree the set of what it shows at each place. All three are one read
transaction each. `Crawl` is a client that lists `kv` and then each directory it finds,
in one state of the database: what may change between its requests is not the question.
`ReadersAgree` compares the crawl, the tree, the reads by key and what is stored, and says
for which objects `GET` differs from the listings.

### Cluster

`main[n]` is the main goroutine from `<-clusterReady` to a running service and
`start[n]` is `Cluster.Start`. `sock[n]` is the one `SyncHandle` that got the sync port:
the others end at once, and what is left of them is their send on `clusterReady`
(`signal`). Messages are answered by jobs, as the code starts a goroutine for each.
`cluster.key` and the database file survive `Crash`; everything else is reset by
`Launch`. Opening a key file and writing to it are two steps, like truncating the
database file and writing it. Contents are abstract: a database is missing, empty,
torn (the beginning of one), fresh (two top buckets) or has data; a key is that of a node, empty, or the JSON `null`.

`Faulty` lets any call over the network fail and any message get lost though both ends are up.
`DiskFails` lets `SyncHandle` fail to open the database file (`OpenFileFails`), or to write or sync it after
the truncation (`WriteDatabaseFails`); as every return of `SyncHandle` does, both wake `main`, which then opens
what is there. Whether bbolt accepts a torn file depends on its pages: `OpenDatabasePanics` may happen. The
discovery host of a node is another node (with itself as discovery host a node
answers its own ping; that case is left out). `SyncResponse` copies the file in one
step. Dev mode has no cluster and is left out here.

### Join

`Join` runs every step of `Cluster` and adds what the steps mean for the writes of
clients: `content[n]` is the set of writes in the database file of `n`, `copied[n]` what
the file of a peer contained when `SyncResponse` copied it. Writes are numbered; what
they do is `CaveKV`'s subject. A write is committed on a node that serves, waits to be
broadcast (`unsent`), is sent to each peer the node knows at that moment (`flying`),
enters the receiver's update channel (`updates`), from the moment the receiver listens,
and is applied when its KV service runs. What a torn file keeps of its writes is not said,
and the runs of `Join` have disks that work. A node answers a synchronisation request in
whatever state it is, so a joiner may copy from one that is still joining. A node that
panics forgets its channel. There are no crashes and no failing sends here: an update that is lost to one
of them is never sent again, which `CaveKV` covers (`missed`).

### Tokens

`Issue` is two steps, because the lock is released between the store and `emit`,
which sends the whole store as it is by then. Messages carry a set of tokens and
replace the receiver's store. Clocks differ by `Skew`. The sweep lists what is out of
its time and deletes it one token at a time; its list is local to the loop
and so are the messages, which is what `DeleteFindsToken` rests on. A receiver whose clock is behind
the issuer's drops tokens as not yet born, and the younger ones with them: that is why `NoGaps` asks only for
tokens in their time by both clocks.
`ConcurrentMapWrite` ends a process, as the runtime does when it notices a map that
is written during the unlocked `range`. `Plugins` are issued one token each at boot;
nothing else calls `Issue`.

Assumption: a clock never shows one process the same instant twice (Go's monotonic
clock with its nanoseconds): a token a node issued lies in its past when it sweeps.
Without it the sweep (`<= 0`) would take a token that `Validate` (`>= 0`) accepts.

### MultiQuery

The request is any sequence of up to `MaxQuery` queries on an ordinary key and on a key
whose name is that of a bucket. Goroutines take a step on the KV store, and one into
the result channel; the handler polls, closes, drains and answers. Two sealed forms
are kept apart, since `kvPutHandler` seals bytes and `doPOST` a string; texts other than
the empty one are taken not to be valid base 64. `DoGETPanics` is `decryptJSON`
slicing data that is no secret.

`Batch` is the promise: the queries of a request are performed in some order, each at one
moment and once, among the requests of other clients, and the response says what each
gave. `MultiQuery` maps the queries not yet run to `pending` and the results in goroutines,
channel and response to `outcome`; closing the channel is a stutter.

### Shutdown

Each of five components is in its loop, waits for room in the log channel, or is
done; `api` and `plugins` work on, and may log, after they took their signal. In
dev mode a goroutine reads the cluster's terminate channel; in mode `first` the loop
of `Cluster.Start` comes round to `clusterReady <- true` again. The logger copies to
`logQueue` while there is room, and drains as `for range l.c { Printf(<-l.c) }` does.
Without `EnableHTTPLogs` `logQueue` is nil; the test of its length succeeds and the send
to it never returns (`WriteAndWait`): after the first message the logger is stuck, and
with it, once the log channel is full, everyone who logs. The documented options
`performance.*` do not reach this setting, because the field is called `Perf` and has no
`mapstructure` tag; a configuration file that says `perf:` does.

## 3. Runs

Distinct states, and what the bounds let happen:

| Run | Instance | States | Shows |
|---|---|---|---|
| `CaveKV_safety` | 2 nodes, 1 goroutine each, 3 writes, channel of 1 | 948,957 | `TypeOK`, `NoStrayBuckets`, `Accounted`, `Agreement`, `ReadersAgree` |
| `CaveKV_live` | 2 nodes, 2 goroutines each, 2 writes, channel of 1, fair | 118,008 | `Delivered`, `ImplementsReplicas`, `ReadersAgree` of objects without data |
| `Join` | 2 populated nodes, 1 launch each, 2 attempts to join, 2 writes, fair | 15,326 | `JoinTypeOK`, `NothingLost`, `SentIsKept`, `WaitEnds`, `EveryWriteArrives`, `SyncKeepsData` |
| `Cluster_faulty` | 2 nodes, faulty network and disks, 2 attempts | 562,662 | `TypeOK`, `NoSyncIntoOpenDatabase`, `ReceivedIsServed` |
| `Cluster_crash` | 2 nodes, 2 launches each, one populated | 353,198 | `KeyFileKept`, `AtMostOneFirstNode` |
| `Tokens` | 1 issuer of 3 tokens, a peer with its clock behind, fair | 341,166 | `TypeOK`, `OwnTokensKept`, `NoGaps`, `DeleteFindsToken`, `ExpiredGone` |
| `MultiQuery` | up to 3 queries, another client, fair | 999,716 | `TypeOK`, `ClosedIsQuiet`, `OneResultEach`, `OKMeansStored`, `Responds`, `ImplementsBatch` |
| `Shutdown` | all modes, with and without HTTP logs, channels of 2, 4 messages, fair | 257,724 | `TypeOK`, `LogsKept`, `ShutdownCompletes`, `LogCallsReturn` |

What each question is about:

- `NoStrayBuckets`: a bucket with nothing in it is above something a delete was asked to remove;
  the buckets that a put made before it failed do not stay. `Accounted`: for each node, every update is in
  exactly one of the places between its commit and its handling. `Agreement`: two
  nodes that handled the same unraced updates of a place store the same there.
- `ReadersAgree`: a client that lists finds exactly the keys that can be read, the tree
  shows what a read returns, and nothing is stored that no one reaches; `GET` answers 404 for exactly the
  objects without data.
- `NothingLost`: when a node serves, each write committed anywhere is in its database or
  on its way there, whatever was copied when. It takes an update channel made before the
  node listens, a peer list that is complete before a node serves, and updates that are
  both copied and sent; with a third node it fails (section 4). `SentIsKept`: what was sent to a node stays with it, in a
  cluster of any size, though `SyncHandle` replaces its database. `EveryWriteArrives`: in the end each
  write is in each database. `SyncKeepsData`: no step takes the data from the last file
  and buffer that has it. The run has two populated nodes; `NothingLost`, `WaitEnds` and
  `EveryWriteArrives` hold as well when one or none is (17,000 to 20,000 states), `SyncKeepsData` does not.
- `Delivered`: a full update channel delays an update and never drops it.
- `ReceivedIsServed`: what main opens after a synchronisation is what was received,
  not an empty file, unless writing it failed: then main serves what is left (section 4). It and `NoSyncIntoOpenDatabase` are claimed for nodes launched once: after a
  restart, with a second attempt to join, the answer to a request of the earlier life is taken
  in while main opens the database (section 4). `WaitEnds`: no node that is launched together with its
  discovery host waits for `clusterReady` for ever. `AtMostOneFirstNode`: two nodes
  with each other as discovery host never both take themselves for the first, even
  when they crash and restart. `KeyFileKept`: a key of an earlier life is not lost.
- `OwnTokensKept`: an issuer's tokens stay in its store while in their time. `NoGaps`: a
  store that has a token has the earlier ones that are in their time by its clock and the issuer's.
  `DeleteFindsToken`: a sweep's list is never stale. `ExpiredGone`: late copies do
  not keep expired tokens alive.
- `ImplementsBatch`: each query takes effect once, at one moment between request and
  response, and its result tells of that moment.
- `LogCallsReturn`: whoever logs goes on, read or unread as the logs may be.
  `ShutdownCompletes`: main ends after the signal, or `Cluster.Start` or the logger is stuck (section 4).

Why these bounds are enough for the cases that matter. A path and the bucket above it,
with the bucket written as a directory, give every relation two paths can have. `CaveKV_safety` stores objects with
data and `CaveKV_live` objects without, which nothing but `GET` tells apart; with both in one run
`CaveKV_safety` has 2,267,462 states and the same properties hold.
Three writes are the fewest that give a race and a third update after it, and two
messages overfill a channel of one slot. Two attempts to join give a second
`SyncHandle` while the first holds the port, and two replies to one node. Two
launches give messages of an earlier life. Two rounds per sweep give
a round with and one without. Three queries give results in an order that is not
that of the queries, with one failing; on the name of a bucket, where text and secrecy
change nothing, one query of each verb stands for all. Three nodes are needed for a
peer list that changes between the sends of one broadcast; `Accounted` is proved for
any number of them. Symmetry (of nodes) is used only in runs of invariants, where
the constants do not tell nodes apart.

Deadlock is not checked (`CHECK_DEADLOCK FALSE`): every run has a bound on its
writes, attempts, launches, time or messages, at which it may stop.

### Fairness

Weak fairness, and only of what the Go scheduler or the program's own loops drive:
goroutines that can go on do (`Continue`, `HandleUpdate`, `Starting`, `Booting`, `Handling`,
`Goroutine`, `Logger`, `Main`), and a message that can be received or handled
eventually is, unless it is lost. Clients, operators, discovery, failures, crashes and
kill signals have none. `Receive` needs no more than weak fairness because the
KV loop empties the channel and only then can another message fill it; TLC checks
`Delivered` with this assumption. `Tick` is fair in `Tokens`: time passes. `DeployedSpec`
adds that the operator launches every deployed node.

## 4. Where the code and its documentation differ

Each of these configurations ends in a violation. The first four are runs of the
project, and `PROJECT.json` ("findings") quotes the lines they contradict; the others
are kept for whoever works on that code (`tlc -config X.cfg M`).

| Configuration | Module | Property | In short |
|---|---|---|---|
| `Cluster_lone` | `MCCluster` | `FirstNodeComesUp` | a node without peers never assumes that it is the first |
| `Cluster_joiner` | `MCCluster` | `JoinerComesUp` | a joiner panics when the database arrives before the key |
| `Join_late` | `MCJoin` | `NothingLost` | a third node copies from one that is still joining, and misses a write for good (`README.md:13`) |
| `Shutdown_written` | `MCShutdown` | `EveryLogWritten` | logs left at the end are dropped |
| `Cluster_restart` | `MCCluster` | `ReceivedIsServed` | a joiner that was launched again may serve before it has written what it received: an answer to its earlier life comes in when `main` is already awake (`cluster.go:379`). No document speaks of it; it bounds what is claimed above |
| `Cluster_peers` | `MCCluster3` | `FirstNodeKnowsEveryone` | a first node blocks after its first round (`cluster.go:252`) and learns of no later node, against `README.md:12` |
| `Cluster_key` | `MCCluster` | `SharedKeyIsShared` | the shared key is never shared: `app.sharedKey` is not assigned (`cluster.go:497`) |
| `Cluster_overwrite` | `MCCluster` | `KeyNotOverwritten` | a key created between stat and open is overwritten (`crypto.go:133`, against the comment at 129) |
| `Cluster_disk` | `MCCluster` | `FailedSyncNotServed` | a node whose synchronisation failed on its disk serves the file as it is: old, empty or a part (`cluster.go:421-441` wake `main`, against `README.md:32`) |
| `Cluster_data` | `MCCluster` | `SyncKeepsData` | joining a node without data erases the joiner's (`cluster.go:421`) |
| `MultiQuery_open` | `MCMultiQuery` | `SecretsOpen` | secrets put by a query are sealed as a string and cannot be opened (`api.go:338`) |
| `MultiQuery_read` | `MCMultiQuery` | `SecretsRead` | a query returns a secret sealed (`api.go:330`) |
| `Shutdown_first` | `MCShutdown` | `TerminateIsRead` | a first node never ends after the signal (`cluster.go:252`, against the comment at 169) |
| `Shutdown_quiet` | `MCShutdown` | `LoggingGoesOn` | without HTTP logs the logger sends to a nil channel and everyone who logs waits for ever (`log.go:70`) |

`FirstNodeKnowsEveryone` and `TerminateIsRead` have one cause, `cluster.go:252`, with two
effects. One difference needs no configuration, since the properties state it: a key stored with an
empty body is listed and shown in the tree, while `GET` says that it does not exist (`api.go:204`).

## 5. Proofs

All for arbitrary values of the constants, from the assumptions the modules name
(`BoltAssumption`, `KVAssumption`, `ClusterAssumption`, `JoinAssumption`, `TokensAssumption`,
`MultiQueryAssumption`, `AskedAssumption`, `ShutdownAssumption`, which TLC evaluates in every run that uses them)
and from the hypotheses in the table. `tlapm` checks each module on its own.

| Theorem | Module | States | Hypotheses |
|---|---|---|---|
| `TypeCorrect`, `NoBucketIsLeftBehind`, `AlwaysAccounted` | `CaveKVProofs` | `TypeOK`, `NoStrayBuckets`, `Accounted` | - |
| `ReadersAlwaysAgree` | `ListingProofs` | `ReadersAgree` | - |
| `CaveImplementsReplicas` | `ReplicaProofs` | `ImplementsReplicas` | - |
| `ReplicasAgree` | `ReplicaProofs` | `Agreement` | - |
| `QuietReplicasAreEqual` | `ReplicaProofs` | with nothing on its way, lost or raced, all databases are equal | - |
| `TypeCorrect`, `KeyFileAlwaysKept` | `ClusterProofs` | `TypeOK`, `KeyFileKept` | - |
| `OneFirstNode` | `ClusterProofs` | `AtMostOneFirstNode` | the network works |
| `SyncedBeforeOpened`, `ServesWhatItReceived` | `ClusterProofs` | `NoSyncIntoOpenDatabase`, `ReceivedIsServed` | each node is launched once |
| `DataIsKept` | `ClusterProofs` | `SyncKeepsData` | each node is launched once, disks work, no node with data asks one without |
| `JoinImplementsCluster` | `JoinProofs` | `JoinSpec => Spec` | - |
| `JoinTypeCorrect` | `JoinProofs` | `JoinTypeOK` | - |
| `SentStays` | `JoinProofs` | `SentIsKept` | each node is launched once |
| `NothingIsLost` | `JoinProofs` | `NothingLost` | two nodes, each launched once |
| `TypeCorrect`, `DeleteAlwaysFinds` | `TokensProofs` | `TypeOK`, `DeleteFindsToken` | - |
| `SoleIssuerKeepsTokens` | `TokensProofs` | `OwnTokensKept` | one node issues |
| `SoleIssuerLeavesNoGaps` | `TokensProofs` | `NoGaps` | one node issues |
| `TypeCorrect`, `ClosedStaysQuiet`, `EachAnsweredOnce`, `StatusTells` | `MultiQueryProofs` | `TypeOK`, `ClosedIsQuiet`, `OneResultEach`, `OKMeansStored` | - |
| `MultiQueryImplementsBatch` | `MultiQueryProofs` | `ImplementsBatch` | - |
| `TypeCorrect`, `LogsAlwaysKept` | `ShutdownProofs` | `TypeOK`, `LogsKept` | - |

But for one, no hypothesis is there for the proof's sake: without it the statement is false. A network
that fails lets both nodes ping in vain; a second launch, after a crash or (for `NothingLost`) a
panic, makes each of the four false, of which `Cluster_restart` keeps one; a node without data that is asked gives that of `Cluster_data`, a third
node that of `Join_late`; a crash or a failing write after the truncation loses data as well;
and two issuers replace each other's tokens. A node that is launched once does not crash in the model, so crashes are
excluded wherever that is a hypothesis. The one is that of `SentStays`: the proof uses
what is known of nodes launched once, and TLC found no counterexample with two launches of two nodes.
Every inductive invariant was checked by TLC on small instances before it was
proved.

*`CaveKVProofs`.* First `Bolt`. That a tree has the buckets its content needs (`TreesWellFormed`) is how the model
encodes nested buckets, so it is a lemma and no result. `ApplyEffect` says what an update does place by place (`Effect`), and
`RelatedBelow`, `CoversLinear` and others what places have to do with each other.

Then `CaveKV`. The inductive invariant is
`IInv == TypeOK /\ TreesWellFormed /\ Carried /\ Accounted`. `Accounted` alone is not
inductive: when a goroutine emits an update, it leaves `Unsent` only if no other
goroutine carries the same update. `Carried` says that: an update that a goroutine
carries is in the log, and no one else carries it. One lemma per action
(`CommitIInv`, `EmitIInv`, `DiscoverIInv`, `SendFailsIInv`, `ReceiveIInv`, `HandleUpdateIInv`)
and two about the channel (`QueuedAppend`, `QueuedTail`: what is queued gains or loses
exactly one element) give `NextIInv`. `NoBucketIsLeftBehind` adds that what puts carry are objects: a put that is carried out puts
something into each bucket it makes, and a delete that empties one is above what it was asked to remove.

*`ListingProofs`.* The reads need no invariant of their own: in a well-formed tree what is below a
directory is inside it or below a bucket inside it (`BelowSplits`). The walks of `GetTree` and of the crawling
client are recursive functions, each chosen as some solution of its equation. There is one, the function that shows
what is stored below each directory (`ShownSolves`), and no other (`WalkUnique`): two would differ
at some directory, so at a deepest one, and there they cannot, since they agree on the buckets inside.
That a deepest one exists comes from the well-foundedness of `<` on numbers, for sets; the
induction theorems, which the provers cannot instantiate, are not needed. `HandlerLists` and `HandlerReads`
say what one request is shown.

*`ReplicaProofs`.* `CaveImplementsReplicas`: a commit is a write of the abstract replica, a
handled update a duty done, a failed send or a peer that `Emit` does not know a duty
lost, everything else a stutter; `Accounted` supplies that what is done was still to do.
`ReplicasAgree` needs to know how far each node is. `Converging` says, as long as nothing raced: the update
of each unraced place is committed only when all related earlier ones are handled, and
there is one tree `D`, the outcome of the log, that every node will have at a place when
it has handled what concerns that place (`Toward`: puts that were accepted stand in `D`, pending updates lead to
`D`, and handled places show `D`). `D` is a witness that the step may change, so
no recursion over the log is needed. `QuietReplicasAreEqual` follows with `Accounted`.

*`ClusterProofs`.* `Typed` adds to `TypeOK` that `Start` asks only a node it has found. `KeepsKey`: a
node with a key file is not sealing, and no goroutine on it stores a key. `OneFirstNode` rests on
one step lemma, `NextRunsFirst`: a node becomes a first node only by a ping to a
discovery host that does not listen. `SyncSafe` is the invariant of synchronisation: a
node whose `startup` is still true has asked no one, in no message and no answer on its
way (`Unasked`); and when main is woken, the socket was never opened, is closed for
good, or is open with no peer asked (`Woken => SyncOver`). `DataKept`: the data is in what some node received, in
the file of a node that is up or panicked, or still in all populated files with nothing received.

*`JoinProofs`.* Every step of `Join` is one of `Cluster`, so all of the above holds. `Met`: with the
other node as discovery host, a node passes its first ping only when the other listens,
and its peer list names it before anything wakes main. `Reaches`: a write is on its way to a node from its commit until
the node applies it, so it does not matter that the node's database is truncated and
replaced before it serves; clients write only on nodes that have met the other. `SentStays` needs neither:
a synchronisation truncates and writes only while main waits, so nothing applied is ever overwritten.

*`TokensProofs`.* `IInv == TypeOK /\ Counted /\ DeleteFindsToken` gives `DeleteAlwaysFinds`.
`SoleIssuerKeepsTokens` uses a second invariant, `Kept(i)`: if `i` is the only issuer, no
message is ever addressed to `i` by another issuer, so nothing replaces its store; what its
sweep has listed is out of its time and stays so, since time does not go back.
`SoleIssuerLeavesNoGaps` adds `Gapless(i)`: stores and messages have, with a token, the older
ones that have not expired for `i` or the holder; a sweep of a node behind `i` takes tokens as not yet born only with
all younger ones.

*`MultiQueryProofs`.* `IInv` says where each query is: not started, in a goroutine, or with one
result in channel or answer, so that the number of results and goroutines adds up
to the queries started. From this count follow all three safety properties, and the
refinement: `pending` and `outcome` of `Batch` partition the queries.

*`ShutdownProofs`.* Lines are numbered in the order in which they were logged; printed lines followed by
those in the channel are `1..n` in order (`Numbered`) until the logger terminates.

Only model-checked: liveness (`Delivered`, `WaitEnds`, `EveryWriteArrives`, `ExpiredGone`, `Responds`,
`ShutdownCompletes`, `LogCallsReturn`), which is out of the provers' reach.

## 6. Not modelled

- Plugins: processes and RPC are libsubrpc's. That its registration makes
  `DeleteBucket`, `Lock` and `Unlock` callable is taken from `KV.start`; tokens and the
  terminate channel of `plugins.go` are in `Tokens` and `Shutdown`. What it copies of their
  output and their metrics is read by no one.
- `Unlock` of a lock that is gone and `GetKeys` of a missing bucket without a slash panic
  in a call of a plugin; what becomes of such a panic is up to libsubrpc.
- Locks promise nothing that a document states: they are data that puts overwrite.
- System routes: login, nodes, configuration and information read one state and format it.
- The epoch of messages: written, never read.
- bbolt and the network library: a transaction is atomic, a page is not reused
  under a reader, a connection delivers a message whole or not at all.
- Torn copies of a live database file, which depend on the order in which bbolt writes
  its pages, and the `KVInit` branch of `SyncHandle`, which
  `NoSyncIntoOpenDatabase` shows out of reach without restarts.
- A signal during boot, which is dropped: `kill` has no buffer.
- Two issuers take each other's tokens away by replacing whole stores. No
  document speaks of it; the model contains it, and `OwnTokensKept` and `NoGaps` are
  claimed for one issuer.
- `MultiQuery`: the panic of a joiner whose key is `null`, and the error of `encryptJSON` at
  `api.go:339-343`, with which a goroutine answers like one whose put failed.
- Configuration (flags, environment and file through viper, once, before anything
  runs), metrics, dashboard, UI.

## 7. Plan

Every component that keeps state is modelled, and every safety property that a passing run checks is
proved. What is left:

1. `Tokens`: what a second issuer may still count on.
2. `Join` with more than two nodes, when all are up before the first write.
3. `SentStays` without its hypothesis: in `Join` a node ends only by a panic, after the answer to its
   only request was taken in, so an answer to an earlier life may be impossible there.
