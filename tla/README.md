# Proof of Access in TLA+

TLA+ models of the Go program in `src/`: a validator asks storage nodes to prove that they hold a
file, by hashing blocks of it in an order given by a salt, and compares their hash with its own. The
models are checked with TLC on small instances; the theorems in the `*Proofs` modules are proved with
TLAPS for every value of the constants.

Paths below are relative to `src/`. "Node" is a running copy of the program; a node of type 1 is a
validator and one of type 2 a storage node.

## 1. The system

### Components

| Component | State it keeps | Operations | Modelled in |
|---|---|---|---|
| Key-value store (`database/database.go`) | badger store, `Lock` (a plain bool spun on) | `Save`, `Update`, `Delete`, `Read`; scans `GetStats`, `GetNetwork` | `Database`, `KVStore` |
| Records of a proof (`localdata/localdata.go`) | start time, elapsed time, request record, `Stats` records, in the store; `PeerNames`, `WsPeers`, `localdata.Lock` in memory | `SaveTime`, `GetTime`, `SetElapsed`, `GetElapsed`, `SetStatus`, `GetStatus`, `RecordNetwork` | `ProofExchange` |
| Proof exchange (`messaging/proofs.go`) | `ProofRequest`, `ProofRequestStatus`, two maps by seed | `HandleRequestProof`, `HandleProofOfAccess` | `ProofExchange`, `ProofVerdict`, `ExchangeHistory` |
| Proof hash (`validation/validation.go`, `proofcrypto/crypto.go`) | none | `CreatProofHash`, `GetIntFromHash` | `ProofHash`, `ShortWalk` |
| Single validation (`api/handlers.go`, `api/validation.go`) | one connection goroutine, two helpers, the channel `proofDone` | `handleValidate`, `waitForProofStatus` | `SingleValidation` |
| Batch validation (`api/handlers.go`) | one connection goroutine, results so far | `handleBatchValidation` | `BatchValidation` |
| Block lists (`ipfs/ipfs.go`, `peers/peers.go`) | `refs`+CID in the store, `CIDRefStatus`, `SyncedPercentage` | `SaveRefs`, `FetchPins` | `BlockLists`, `BlockIndex`; what a proof needs of them in `ProofExchange` |
| Message dispatch (`messaging/messaging.go`, `syncing.go`) | `Nodes`, `Ping`, peer tables | `HandleMessage`, pings, sync messages | proof messages in `ProofExchange`, a node's hello in `PeerConnections` |
| Connections, validator's side (`connection/connection.go`, `api/handlers.go`) | `WsClients`, `WsPeers`, `NodesStatus`, `PeerNames` | `CheckSynced`, `handleMessaging`, `SyncNode` | `PeerConnections` |
| Connections, storage node's side (`connection/connection.go`, `api/validation.go`) | `WsValidators`, `localdata.Lock` | `StartWsClient`, `connectAndListen`, `sendProofRequest` | `ValidatorLinks` |
| Rewards (`Rewards/`) | `ThreeSpeakVideos`, the pins of the IPFS daemon; `PeerProofs`, `PeerCids` | `ThreeSpeak`, `PinVideos`, `Update`; proof counters, payments | `VideoPins`; the counters and payments are never reached |
| Payments made before (`hive/hive.go`) | none | `GetHiveSent`, page by page | `HiveHistory` |
| Pins in chunks (`messaging/cids.go`) | none | `splitIntoChunks` | not modelled |
| Statistics pages (`api/stats.go`, `handlers.go`) | none | scans and page bounds | not modelled |
| Validators of a node (`validators/`) | `localdata.Validators` | read once; pings over publish and subscribe | the list, in `Startup` |
| Files of contracts (`honeycomb/`) | none | one request | in `Startup` |
| Start and stop (`main.go`, `api/api.go`) | the whole process | `initialize`, shutdown | `Startup`; restarts there and in `ProofExchange` |
| Publish and subscribe (`pubsub/`) | none: wraps the IPFS library | publish, subscribe | as the sends of `ProofExchange` |
| `public/` | none | web pages | not modelled |

### How they interact

A client opens a WebSocket to the validator's API and sends a file, a node's name and a salt. The
connection's goroutine writes the request record with status `Pending`, publishes a `RequestProof`
message, and then records the start time. The storage node's handler hashes the blocks that *its own*
database lists for the file and answers with `ProofOfAccess`, or with `NA` when it lists none. The
validator starts a goroutine for each answer. It measures the time since the start record, keeps the
fastest time, announces the answer in `ProofRequest`, hashes the blocks listed in the validator's
database, compares, writes the status twice (the seed's record, then the node's), and sets
`ProofRequestStatus`. The client's goroutines watch those two maps, or, for a batch, poll the record.
Meanwhile other goroutines of both nodes fetch and save block lists. Everything stored goes through the
store with its spin lock. No lock covers two of these steps.

A node that starts does so in one sequence, `initialize`: it adds up the payments it made, page by page;
fetches the list of videos; starts goroutines that pin and unpin them and that index them; asks for the
files of contracts and indexes those; indexes what is pinned (a storage node) or keeps fetching videos
(a validator); and only then serves clients and obeys a signal. The goroutines it started run on beside
it. They meet in the list of videos, which has no lock, in the pins of the IPFS daemon, in the store, and
at `localdata.Lock`.

Storage nodes keep a WebSocket to the validator open and dial again when it breaks. The goroutine that
serves a connection enters it and its node's name in two tables; requests look the connection up
there. A goroutine per hello lists the node in `PeerNames`. A watchdog pings every connection in the
tables, and takes a node out when its ping fails. Writers of these tables hold `localdata.Lock`; readers do not.

### What is hard

* **Interleaving.** Every message has a goroutine (`messaging.go:73`), and the records of one seed are
  shared by all of them and by the pollers. A client that retries with its salt shares seed, record and
  flags with its earlier request (`handlers.go:194`).
* **Delivery.** Messages may be lost or arrive late, and an answer to an item already given up may
  arrive while a later item is polled.
* **Start.** Three callers may look for the blocks of one file at once; the list of videos is built
  anew while it is read; what was pinned or indexed by an earlier life of the node is found again.
* **Order.** The start time is recorded after the message left; the flag is set after the record;
  the status is two updates.
* **Restart.** The store survives; handlers and flag maps do not.
* **Pages.** A history is read from its end while it grows at its end, by numbers one below the last
  page's, and -1 means the newest page.
* **Locks.** `database.Lock` is tested and then set, may be released by others, and is released before
  `Update` and `Delete` commit. A panic leaves it set.
* **Reconnection.** A node may come back on a new connection before, while or after the watchdog finds
  the old one broken, and its last messages on the old one may still be read afterwards.
* **The walk.** Its loop bound is one too far, its distance may be 0, and each step depends on all
  that was read before.

`PROJECT.json` lists the hazards with their lines and the properties that cover them, or why none does.

### What makes each part correct

* Store: each operation takes effect at one moment of its call; the lock is not left set.
* Exchange: `Valid` only if both nodes had lists over which their walks can come out the same, and an
  answer came in time; a seed left `Pending` has a request that nobody judged; each request is judged at most once.
* Proof hash: the walk stays in the list, ends, reads something of two blocks or more, and two nodes that
  read alike agree.
* Single validation: what the client is told is what is on record; an answered client is told and let go.
* Batch: only an item whose walks can come out the same, in time, is reported valid; a reported `Valid` stands; the batch ends.
* Connections: a reader of the tables meets no nil connection unless a node was dropped; a name stands
  until the watchdog takes it out; only a node that lost a connection is taken out; a synced node is on
  the list, whoever was taken out, unless it was listed while the list was being copied; a broken
  connection does not stay.
* Payments made before: no entry is added up twice, none between two pages is left out, and it ends.
* Videos: the pins stay within the limit; what is left out did not fit; what was found is not unpinned.
* Block lists: a file reported as complete has a list; 100% is not shown too early; the goroutines do
  no more than the proof exchange takes them to do; they all end.
* Links to validators: nothing of their own; a request for a name without a connection leaves
  `localdata.Lock` locked, which the properties of the others except.
* Start: it gets to the point where clients are served.

## 2. Modules

| Module | What it is |
|---|---|
| `KVStore` | abstract: a map whose operations take effect once, between call and return |
| `Database` | `database.go`: lock and transactions, step by step; implements `KVStore` |
| `ProofVerdict` | abstract: what the exchange promises about verdicts |
| `ProofExchange` | requester, storage node, indexers, answer handlers, clock, restart; implements `ProofVerdict` |
| `ExchangeHistory` | `ProofExchange` with a record of real waiting times and of what each verdict rests on |
| `SingleValidation` | `ProofExchange` with the client's three goroutines |
| `BatchValidation` | `ProofExchange` with the batch goroutine |
| `ProofHash` | `CreatProofHash`, run by several nodes on one list of any length |
| `ShortWalk` | what `CreatProofHash` hashes of a list of up to seven blocks, for the instances of the exchange |
| `PeerConnections` | storage nodes that dial, the goroutines that serve them, the watchdog, and their tables |
| `LocalNode` | what the goroutines of one node share: the daemon's pins, and `localdata.Lock` |
| `HiveHistory` | `GetHiveSent`, and the account whose history grows |
| `VideoPins` | `ThreeSpeak` and `PinVideos` |
| `BlockIndex` | abstract: the indexing goroutines as `ProofExchange` has them |
| `BlockLists` | `SaveRefs` and `FetchPins`, a goroutine per file; implements `BlockIndex` |
| `ValidatorLinks` | a storage node's goroutine per validator, and requests to validators |
| `Startup` | `initialize`, `Update`, restarts and clients: composes `HiveHistory`, `VideoPins`, `BlockLists` and `ValidatorLinks` |
| `MC…` | instances for TLC: values of the constants, symmetry |
| `ProofExchangeProofs`, `ExchangeHistoryProofs`, `SingleValidationProofs`, `BatchValidationProofs`, `DatabaseProofs`, `ProofHashProofs`, `PeerConnectionsProofs`, `StartupProofs` | theorems |

### `ProofExchange` and the code

`phase[r]` is how far the requester goroutine of request `r` is, `pc[r]` how far its exchange is (asked,
answered, and the handler's position), `job[r]` the handler's local variables. `refs`, `age`,
`fastest`, `status`, `nodeStatus` are the records in the stores; `age` stands for the start-time
record, by the time since it was written, and is `TooLong` when there is none, since a missing record
reads as the year 1. `received` and `answered` are `ProofRequest` and `ProofRequestStatus`. `best`
and `listed` are history that no action reads.

A step ends where the code reads or writes something another goroutine can write. `HandleProofOfAccess`
is eight steps: `ReceiveProof`, `ReadFastest`, `KeepFastest`, `MarkReceived`, `Judge`, `WriteBase`,
`WriteNode`, `MarkAnswered`. The failure branches of lines 68-94 end in the same three steps
as the success branch, as they do in the code. The check of the record's CID against the seed (lines
54-64) always succeeds, because the record is made under that seed before the message is sent.
Each database call is one step here, which is what `Database` implementing `KVStore` justifies.

A hash is the text it was computed over: what was read, block by block, of those the walk visits, and
nothing else of the list (`validation.go:50-68`). A block whose download fails is in the text as `Unread`
(`validation.go:25`). So two hashes are equal exactly when the texts are, whether or not the lists are: an
empty list and any list of one block leave the same empty text, since block 0 of a list of up to seven is
never visited, and longer lists that differ elsewhere leave the same text too. `NoHash` is the empty string
that a node without a list computes; the empty list is a list (`FetchPins` saves one when IPFS fails,
`peers.go:69-77`). Only collisions of SHA-256 are left out. Which texts a seed can leave of a list is the
constant `Texts`: the proofs need only that there is one, and that none is `NoHash`; for the runs `ShortWalk`
gives it as the code has it for up to seven blocks. `ProofHash` has the walk step by step for all lengths.

Retries under one seed name the same file and node, as the seed contains both. Different requests
without a salt are taken to have different seeds (they are drawn at random).

The clock moves in units, never backwards; `ProofLimit` units stand for 25 seconds.

### Client side

`SingleValidation` adds the connection goroutine (`main`), the announcer and the watcher of
`validation.go:149-186`, and the channel. `Return` keeps the deferred second `close(proofDone)`,
which panics and so skips the reply with the name. `BatchValidation` adds the loop over items: ask,
poll until the record is not `Pending` or ten seconds (`PollLimit`) have passed, enter the result; one
reply at the end. The poll may still read the record after the limit has passed, as its `select`
may have been evaluated before.

### `ProofHash`

Two walkers share a list and a hash function. The function is not computed: `drawn` holds the number
drawn for each text hashed so far, so TLC tries every function. What is read of a block may be its bytes
or nothing, independently at each node (`validation.go:25` ignores the error). `FixedStep` is 7 in the
code.

### `Database`

`Save` and `Read` release the lock after badger commits; `Update` and `Delete` release it inside the
closure, before the commit. Waiting on `Lock` and setting it are two steps, since the code has no atomic
operation there. Badger's own transactions are taken as atomic (external). The accesses to `Lock` are
a data race in Go; the model gives each read the last value written, which is what the build produces
when each access is a load or a store of one byte. A compiler that hoisted the load out of the
loop would make waiting endless; the loop body calls `time.Sleep`, which prevents it.

### `PeerConnections`

`link[c]` is a connection as the network has it, `inbox[c]` what is under way on it, `server[c]` and
`hand[c]` the goroutine of `handleMessaging` that serves it, `greeting[c]` the goroutine of its hello
(`HandleMessage`, then `SyncNode`), `watch` the watchdog's place in `CheckSynced` with its locals, and
`WsPeers`, `WsClients`, `NodesStatus`, `Nodes`, `PeerNames` the tables of those names. A key that a map
does not have reads as the zero value, as in Go (`PeerUnder`, `ClientUnder`); `WsPeers` keeps its set
of keys, since the watchdog ranges over it.

Entering a node is two steps under the lock (`EnterClient`, `EnterName`), because readers take no lock.
Dropping one is one step: a reader that finds the name gone does not look for the connection. The copy of
`PeerNames` and its return are steps of their own (`CopyPeerNames`, `ReplacePeerNames`). The
range over `WsPeers` yields each key once in any order and those entered meanwhile perhaps, and the value
it has at that moment. A node dials when it has no open connection; several of its connections
may be in use at the validator, as an old one ends only when its read fails. `RemoveDuplicates`
makes `PeerNames` a set. One request is looked up and written at a time. A panic of the watchdog ends
the process: `Crashed`; a panic of a request's handler is recovered by gin and entered in `panicked`.
Left out are nodes on publish and subscribe, ping timers, and the ends of the process that the Go
runtime brings about when it notices two accesses to a map or two writers on a connection.

### `Startup` and its parts

`main` is the place in `initialize`: a step per stage, and one for the end of a call that
`initialize` waits for. `launch` holds the flags and what the node finds outside: videos on offer, files of contracts, pins, and
files with a record. Each goroutine it starts has its steps in the module of its part, and `Startup` adds
that the rest is unchanged. `Restart` may come between any two steps; the store and the daemon's pins
stay.

* `HiveHistory`: `paging` is the loop of `GetHiveSent`; `counted` counts how often each entry was added
  up, instead of the amounts. A page is fetched and added up in one step, since only the fetch touches
  what others change. The account may pay between two pages. `newest`, `wrapped` and `failed` are
  history.
* `VideoPins`: `lister` is `ThreeSpeak` with the global list, `pinner` the locals of `PinVideos`. The
  list has the order of a Go map, which is any order, so it is a set; while it is built anew a reader may
  find any part of it (`ListsSeen`). The pins of the daemon are of three kinds (`LocalNode`): `pins` are the
  recursive ones, which the program makes, counts and drops; what lies below them (`Below`) is pinned
  indirectly and goes with them; `Direct` pins are others' and stay. `allPins` has all three
  (`threespeak.go:65-71`, `ReadPins`), the loop at line 75 only the recursive ones. So a video pinned
  only below a pin that is dropped at line 90 is passed over at line 108 and ends unpinned, although it
  fits: `LeftOutDidNotFit` excepts it by name (`Trees(pinner.dropped)`), and the run reaches it. Every
  call of IPFS may fail. `sought`, `grown`, `missed`, `failed` and `dropped` are history.
* `BlockLists`: `indexer[s][c]` is the goroutine of caller `s` for file `c`. Looking for a record, saving
  and reporting are steps of their own; the counter `notFound` is read and written in two, as line 83 of
  `peers.go` holds no lock. Sizes, which only the statistics read, are left out. `ImplementsBlockIndex`
  maps the goroutines between their look and their save to the count `indexing` of `ProofExchange`, and
  so shows that `ProofExchange` did not assume too little of them.
* `ValidatorLinks`: a validator's goroutine dials, enters the connection, listens, and dials again.
  A closed connection stays in the table until it is replaced.
* `LocalNode`: a section under `localdata.Lock` is one step. What remains of the lock is `stuck`: a
  request for a name without a connection panics between Lock and Unlock (`validation.go:123-127`), and
  gin recovers the handler but not the lock. Every step that needs the lock then waits for ever.

## 3. Runs

| Run | Question | Result |
|---|---|---|
| `exchange` | Do verdicts hold with two handlers on one seed, lost answers, three indexers and restarts? | `ValidMeansSameText`, `ValidWithinLimit`, `PendingIsOwed` and the refinement of `ProofVerdict` hold |
| `single` | What is each client told? | on record, and sound |
| `single_live` | Is an answered client told and let go? | yes, under the fairness below |
| `batch` | Are batch results sound, stable, and given? | yes |
| `database` | Is the store linearizable with its lock as it is? | yes, and only a panic leaves the lock set |
| `proofhash` | Do two walks stay in the list, end, and differ only over a block read differently? | yes |
| `connections` | What can readers of the tables rely on while a node comes back? | no nil connection before a drop; names stand; only nodes that lost a connection are dropped; synced nodes are on the list unless listed while it was copied; broken connections go |
| `startup` | What can the goroutines of a starting node rely on, and do they end? | what 1. lists for payments, videos, block lists and the start; the refinement of `BlockIndex` holds |
| `fastest` | Is the fastest time kept (`proofs.go:42`)? | no: finding 1 |
| `slow` | Does "took too long" mean it did? | no: finding 2 |
| `read` | Does `Valid` mean the node read the blocks? | no: findings 3 and 4 |
| `context` | Is the reply with the name sent? | no: finding 5 |

**Bounds.** `exchange`: two requests with one seed, because every race in the handler is between two
answers to one seed, and requests with different seeds share nothing but block lists; one file, one
storage node; lists of one and of two blocks, so that the nodes' lists can differ, hashes agree or not, be
over nothing, and over a block that was not read; `read`, `slow` and `batch` have the empty list too, whose
text is that of the list of one; two
indexers at the validator (it can start two, `main.go:102` and `120`) and one at the node;
`ProofLimit` 1 in `exchange`, 2 where elapsed times must differ within the limit. `single`: as
`exchange`, with the list of two blocks alone, since hashes over it agree or not; `single_live` and `context`: one
request, which is what they are about. `batch`: two items with seeds of their own and a time limit of
one unit, so that the first answer can come while the second item is polled. `database`: three
goroutines, so that two can hold the lock and a third have it released under it; one key, as operations
on two keys do not meet except at the lock; two values. `proofhash`: up to four blocks with
`FixedStep` 2, so that short and long lists both occur. `connections`: one node and two connections, so that a new
one meets the end, the late messages and the drop of the old one; two nodes with the liveness property do
not fit the run, and the theorems cover any number of both. `startup`: five launches, since the parts meet
only in pairs: a node with a history; a validator that pins videos and fetches them again, one of them
pinned and one indexed before; a validator whose video has a direct pin; a storage node with a file that
is both pinned and in a contract; and one with a video that lies below another pin, which is dropped. Of
the three files two have size 1 and one size 3, with limit 2 and slack 1, so that each of "fits", "fits by
the slack" and "does not fit" occurs;
pages of 2 and a history of up to 4 entries, so that a full page begins
at entry 0 and also does not; one restart; one round of `Update`; one validator and one unknown name. There
is one block list, as no step looks at which one it is. `CHECK_DEADLOCK FALSE` everywhere: clients make
finitely many requests, walks end, a panic may stop the store's users, and the watchdog's ends the
process.

**Fairness.** `SingleValidation` assumes weak fairness of the handler's steps and of the client's three
goroutines: Go runs a runnable goroutine, and downloads and database calls return (an endless download
is the IPFS node's failure, which this assumption excludes). Nothing is assumed of messages, clients,
indexers or the validator's staying up: a lost answer leaves the client waiting, and the property speaks
only of answers being handled. `BatchValidation` assumes that the connection's goroutine runs and
that time passes; it needs nothing of the storage nodes. `ProofHash` assumes that each walk runs.
`PeerConnections` assumes that the watchdog and the serving goroutines run and that a serving goroutine
notices the end of its connection (TCP reports it to a read or a write in the end); nodes need not dial,
nor clients ask. `Startup` assumes only that *something* runs as long as anything among `initialize`, the
paging, the lister, the pinner and the indexers can: that is enough because all of them but the paging come to
an end, so none can keep the others waiting. Nothing is assumed of validators, clients, the account,
`Update`, or of the process's staying up.

**Mutants.** For each property of a passing run there is a wrong version of a definition (a dropped
check, a missing reset, swapped arguments), placed before the right one with a comment "A wrong …". No
specification uses them; with one in place of the right version TLC finds the property violated.

## 4. Proofs

* `ProofExchangeProofs`: `TypeCorrect`, then `ValidHasSameText` and `ValidIsWithinLimit`. Neither is
  inductive, since `WriteBase` writes what `Judge` decided from what earlier steps read. `SoundInv`
  adds what each intermediate holder justifies: a recorded list is in the history (`ListsRemembered`),
  a hash in a message is of a text over such a list (`HashesListed`), a recorded fastest time and a handler's
  two times are no shorter than the shortest measured (`RecordsMeasured`, `JobsMeasured`), so a
  handler's reason "match" (`MatchesSound`) and a record of `Valid` (`VerdictsSound`) are justified. The
  history only grows, so other steps keep what a handler already knows.
  `PendingAlwaysOwed` and `ExchangeImplementsVerdict` add `OrderInv`: a request not yet sent has no
  exchange. `SoundInv` supplies the agreement that an abstract judgement of `Valid` needs. `WriteBase` is
  the judgement; `SaveRefs` is `Agree` where it brings two lists whose texts can be the same; `Restart` and `SendFails` are
  `Drop`. `ExchangeIndexesAsBlockIndex` shows that each node of the exchange is a `BlockIndex`, step by
  step (`IndexStepIsBlockIndex`); with `BlockIndexImplemented` below, what is proved of the exchange is
  proved against the same abstract indexer that a starting node implements. `FastestUnlessInterleaved` is
  what finding 1 leaves: with no other handler of the seed between its read and its write
  (`OneAtATime`), what a handler compares with is still on record (`ReadIsFresh`), and the shortest time is
  on record or with a handler about to enter it (`BestIsHeld`).
* `ExchangeHistoryProofs`: what findings 2 to 4 leave. `SlowUnlessOvertaken`: when no answer is handled
  before its start time is on record (`TimedFirst`), a start time is no older than the first request, so a
  measured time is no longer than the wait (`WaitInv`). For `Valid` the invariant is stated for any set G of
  texts: when storage nodes answer only with texts in G (`AnswersFrom`), every verdict of `Valid` rests on one
  (`ReadInv`), whatever the validator lists or fails to read, as it compares for equality. `ValidUnlessShort`
  takes for G the texts that cover a block (`Covering`), which excludes finding 3 and allows failed
  downloads; `ValidUnlessUnread` those in which no block is missing (`Whole`), which excludes finding 4 and
  allows short lists; `ValidUnlessSkipped` puts the two together. These assumptions are about steps, not
  states, and behaviours with and without them exist: the runs show the latter.
* `DatabaseProofs`: `LockAlwaysHasHolder`, and `DatabaseImplementsKVStore`, which needs to know only
  that `Update` and `Delete` alone commit late (`LateInv`). The effect is at the commit, or at the
  read transaction, wherever the lock is. So the lock contributes nothing to it: badger does.
* `ProofHashProofs`: `WalkAlwaysAscends`, with `BehindIndex` (every block hashed lies behind the loop
  index), and `ProofCoversABlock`, with `FirstAhead` (until the first block of a list of two or more is hashed, the index
  has not passed it), for lists of any length. `TextsDifferOverABlock` is about two walks: by `StopsDrawn`, the next
  stop is the last one and the distance drawn for the text so far, so equal texts stop at equal
  blocks (`SameStop`); by `StopAhead`, a walk that has ended has no stop left; and `AgreeOrSplit`
  carries the first difference along, which makes the claim inductive without a least index.
  `WalkAlwaysShortens` is the part of `WalkEnds` that needs no fairness: each step of a walk lowers a
  count that starts at the length of the list and three.
* `SingleValidationProofs`: `ToldStaysOnRecord` and `ToldValidAlwaysSound`, and
  `BatchValidationProofs`: `ValidResultAlwaysSound` and `ValidResultAlwaysStands`. Both rest on
  `SoundInv` and on `RecordInv` of `ProofExchangeProofs`, which ties the record and the flag of
  a seed with one user to the place of that user's exchange: the verdict is on record as soon as it is written
  (`WrittenIsJudged`), no sooner (`JudgedIsWritten`), and a flag is set only by a handler that
  has finished (`AnsweredIsDone`). `WaiterInv` adds what a watcher knows once it saw the flag, `BatchInv`
  that an item is polled only after it was recorded as pending. The parts of two liveness properties that need
  no fairness are `WakeupNeverLost` (of `AnsweredClientIsTold`: the flag of a request that was judged is up, and
  a watcher that found it up signals, so no client waits for a signal that was given before it listened) and
  `BatchAlwaysShortens` (of `BatchEnds`: a batch of n items takes at most 4n + 1 steps of its own, and no step of
  another goroutine adds to them); `ReplyAlwaysComplete` says that the reply has one result per item.
* `PeerConnectionsProofs`: `TablesSound`, and from it `NilAlwaysAfterDrop` and `NameAlwaysStands`. Neither is
  inductive, since a request or the watchdog reads the name first and the connection later. `TableInv`
  says that a name stands until its node is dropped (`NamesStand`), that a node entered and never
  dropped has a connection (`NamedIsConnected`), also in the middle of being entered
  (`EnteringIsConnected`), and what the watchdog and a request may conclude from what they read
  earlier (`WatchSound`, `RequestSound`). `DroppedHasLost` is proved by `LossInv`
  (a node in the middle of being dropped has lost a connection), `SyncedStaysListed` by `ListedInv`: between
  the drop and the return of the copy the node that was dropped is not synced, or was listed again since
  (`late`), and the copy has every other synced node that is not late. What a
  drop may still break is narrowed down by two theorems with an assumption on steps:
  `DropsBrokenUnlessReturned` (a live connection is dropped only when its node was entered between ping
  and drop) and `ListedUnlessMeanwhile` (a synced node is lost from the list only when one was listed while the
  watchdog copied it).
* `StartupProofs`: each part changes by its own steps alone (`HiveAlone` and its like), so its invariant is
  shown of those. `HiveInv` says that what was counted is exactly the stretch from the newest entry
  to the start of the next page, each entry once; `CountedOnce` and `NoneSkipped` follow. `VideoInv` says
  what has been passed over and why (`PassedOver`: what was seen pinned is pinned still or went with a dropped
  pin, what else was passed over did not fit or failed), and that the list is whole when it is
  handed over (`ListIsWhole`). `PinsStayWithinLimit` needs in addition that the pinner's running total covers what
  it pinned (`TotalCovers`), and that the size of a set grows by the size of a file added to it
  (`SizeOfOneMore`). The size is a fold, so this is shown of the library's definition, by taking the
  smallest set of files for which there were no sum (`SmallestFiles`, `SumExists`). `BlockInv` says what the place of a goroutine tells of the store
  (`PassedMeansStored`) and that the counter, read and written apart, never exceeds the goroutines that
  ended (`PinsCounted`), so it may count too few but not too many. `BlockIndexImplemented` is the
  refinement, with the number of goroutines at a place as the abstract counter. `OnlyWholePagesWrap`: payments
  are added up again only when the history was a whole number of pages as the reading began (`WholePages`: a
  page starts whole pages below the newest entry). `WorkAlwaysShortens` is the part of `StartupEnds` and
  `IndexingEnds` that needs no fairness: every step of `main` and of each goroutine it starts lowers one count
  (`WorkLeft`, at most `MaxEntries` + 20 per file + 16), but for the step that has the newest page
  read again. So fairness need not say which goroutine runs, only that one does: `WF_vars(Work)`.

The theorems assume what the modules assume of their constants: seeds determine file and node, `NoList`
is no list, every list leaves some text and none is `NoHash`, the set of files is finite, limits are positive, and for `ProofHash` a positive `FixedStep`. Nothing limits the number
of requests, nodes, files, goroutines or blocks.

Model-checked only: liveness and `ENABLED` (`AnsweredClientIsTold`, `AnnouncedAnswerIsJudged`, `BatchEnds`,
`WalkEnds`, `BrokenConnectionGoes`, `StartupEnds`, `IndexingEnds`), which TLAPS cannot prove; of five of these the well-founded or the safety part is a theorem, as said above. Every
invariant and every refinement that a passing run checks is a theorem.

## 5. Findings

1. `messaging/proofs.go:42-51`: two answers to one seed may lose the fastest time (not without that
   interleaving: `FastestUnlessInterleaved`).
2. `api/validation.go:137`, `handlers.go:307`: the start time is recorded after the message has left,
   so an answer may be measured against no time and be judged too slow (not when the record comes
   first: `SlowUnlessOvertaken`).
3. `proofcrypto/crypto.go:32`, `validation.go:52-68`: of a list of one block or none nothing is read, and all
   these lists have one proof; a node that lists nothing, perhaps as its IPFS failed
   (`peers.go:69-77`), is judged valid by a validator whose list is as short (not when the lists have two blocks or more: `ValidUnlessShort`).
   This is the shortest trace of `read`.
4. `validation/validation.go:25`: an error of the download is hashed as if it were the block, so
   two nodes that read nothing agree (not when the storage node answers only over what it read:
   `ValidUnlessUnread`). This is what `read` finds with the list of two blocks alone.
5. `api/validation.go:165` and `176`: the channel is closed twice, and the handler panics before its
   last reply.

Also met, without a line of the documents that says otherwise: `connection/connection.go:42` (a node found
lost leaves an empty name in `WsPeers`; the next round of the watchdog looks that up, finds a nil
connection and panics, which ends the validator: the model has that step, and `NilOnlyAfterDrop` and
`BrokenConnectionGoes` except it), `connection.go:45` (the drop may take out a connection the node has
just come back on) and `connection.go:50-58` (a node listed while `PeerNames` is copied is lost),
`validation.go:126` (a lock kept, which `IndexingEnds` excepts), `hive.go:184` (after a full page that
begins at entry 0 the newest page is asked for again, payments are added up again, perhaps for ever (only for an account with a whole number of pages:
`OnlyWholePagesWrap`), and
meanwhile no signal is obeyed, which `CountedOnce` and `StartupEnds` except), `threespeak.go:17` (a page
of videos that fails is passed over, and its videos are unpinned), `threespeak.go:65-71` (a video pinned only below
another file counts as pinned after that file was unpinned), `peers.go:69` (after an error the empty list
is saved and never asked for again), and `PeerCids`, which nothing
fills: `RunProofs` therefore never runs a proof, and the counters and payments of `Rewards` stand still.

## 6. Plan

What is left, in this order:

1. A composition of `PeerConnections` with `ProofExchange`, in which a request is sent only to a node
   that is entered.
2. Nodes on publish and subscribe: pings (`Ping`, `ConnectToValidators`) and the sync messages between
   validators.
3. A rank for what `BrokenConnectionGoes` waits for, as `WorkAlwaysShortens` is for a start.

## 7. Not modelled

* Wording, field names and colours of replies; percentages and sizes; the web pages.
* The statistics: `GetStats` and `GetNetwork` read one snapshot of the store without the lock, and format it
  for one reply; a page out of range (`handlers.go:64`) panics in its own request, which gin recovers.
* `splitIntoChunks`: a function on text, and what receives the chunks (`SyncNode`) does not read them.
* Proof counters and payments of `Rewards`: never reached, as nothing fills `PeerCids`.
* Pings over publish and subscribe, and `PeerLastActive`: see the plan.
* The order of shutdown (`main.go:74-80`): between `Close` and the end of `main` any call of the store
  ends the process, which is about to end. That it ends between any two steps is modelled.
* `speak/`, a program of its own; `ipfs.SyncNode`, `IpfsPingNode`, `SelectIPFSRefs`, `GetIpfsID` and other
  code that nothing calls.
* The IPFS library, badger, gin and the WebSocket library are external: modelled by what the code relies
  on, which is that a message may be lost and is delivered at most once, that a transaction is atomic,
  that a call may fail, and that a handler's panic is recovered.
