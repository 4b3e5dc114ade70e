# distri-kv in TLA+

A TLA+ development of distri-kv, the replicated key-value store in `src/`:
modules that model its components, TLC configurations that check them on small
instances, and theorems about them that TLAPS proves for every instance.
Paths below are relative to `src/`.

## The system

One process (`cmd/distri-kv/main.go`) runs one node (`internal/node`) behind an
HTTP API (`internal/api`). Requests come in on goroutines of the HTTP server,
each with a context that ends after ten seconds. The peers of a node are
`MockNodeClient`s: maps inside the same process that fail one call in twenty.
So there is one coordinator, and its replicas are its own storage engine and
these maps.

| Component | State | Operations | Talks to |
|---|---|---|---|
| Request handlers, `node/node.go` | `isRunning` | `Put`, `Get`, `Delete`, `LocalPut/Get/Delete`, `Start`, `Stop` | the storage engine (before the quorum), the coordinator, the detector (by callback) |
| Quorum coordinator, `replication/quorum.go` | the clients; per request: answers, counts | `Put`, `Get`, `Delete`, `resolveReadConflicts` | one goroutine per replica; hinted handoff; conflict sets |
| Hinted handoff, `replication/hinted_handoff.go` | a list of hints per node | `StoreHint`, `DeliverHintsToNode`, the worker, `ClearHints`, `ClearAllHints` | `NodeClient.Put` |
| Storage engine, `storage/engine.go` | `memCache`, `diskIndex`, files | `Put`, `Get`, `Delete`, eviction, `Close`, recovery | the file system |
| Clocks, `versioning/vector_clock.go` | a map and a time stamp per clock | `Increment`, `Update`, `Compare`, `Clone`, `ConflictSet.Resolve` | |
| Failure detector, `failure/detector.go` | a table of peers | `AddNode`, `RemoveNode`, heartbeats, monitor, `UpdateHeartbeat`, `Stop` | callbacks to the node, which start deliveries of hints |
| Partitions, `partition/consistent_hash.go` | the ring | `AddNode`, `RemoveNode`, `GetNodes`, `GetPartitionForKey` | |
| HTTP API, `api/server.go` | the server | `Start`, `Stop`, one handler per request | the node |
| Life cycle, `cmd/distri-kv/main.go`, `node/node.go` | `isRunning`, the clients | start, join the cluster, serve, drain, stop, exit | all of the above |
| Statistics and getters | | read-only | |

What is hard here:

- replica goroutines outlive the request that started them, and write later;
- a request reads and writes the local engine outside of the quorum as well;
- hints come late, and their lists change while deliveries work on copies;
- values live in memory until evicted or closed; files are rewritten in place,
  and the process may die in between;
- heartbeats, the monitor and callbacks run concurrently and out of order, and
  a recovery of a peer must survive all of them until its hints are tried;
- virtual nodes of one node follow each other on the ring, and the ring is
  changed with weights that differ from before;
- a shutdown runs while requests and deliveries are under way.

`PROJECT.json` lists these hazards one by one with their lines and the
properties that cover them.

What makes each component correct: a coordinator's quorums must meet, a client
must read its own put, a replica that missed a successful put must be owed it,
and no replica may go back behind a write it acknowledged; a hint must stay until
it is delivered or given up; the engine must
look like a map whatever it moves between memory and disk, and its files must
stay readable; clocks must tell causality and a resolution must not go back; a
peer's status must say what was heard of it, and end up right; a walk on the
ring must find the nearest different nodes and end, and a membership change must
move the keys of one node only; no recovery of a peer may be missed, and a
shutdown that could wait for the requests must lose nothing it acknowledged.

## Modules

| Module | Models | |
|---|---|---|
| `QuorumManager` | handlers, coordinator, replicas | the core |
| `HintPool` | the promise of hinted handoff | abstract |
| `HintedHandoff` | lists, copies, positions, retries, expiry | implements `HintPool` |
| `DurableMap` | the promise of the storage engine | abstract |
| `StorageEngine` | cache, index, files, eviction, shutdown, crash | implements `DurableMap` |
| `VectorClock` | clocks, versioned values, resolution | |
| `FailureDetector` | the table, workers, heartbeats, callbacks | |
| `ConsistentHash` | the ring, membership, walks | |
| `Node` | one process from start to exit | composes `FailureDetector` and `HintedHandoff` |
| `*Proofs` | the theorems about the module of that name | TLAPS |
| `QuorumSessionProofs` | what clients of `QuorumManager` see | TLAPS |
| `MC*` | what TLC needs besides: symmetries | TLC |

`QuorumManager` takes its handoff steps from `HintPool`, of which it has an
instance, and `HintedHandoff` implements `HintPool`: that is how the two fit
together. The pool makes no promise for unsafe hints, those in a list that was
shortened under a delivery, and both sides have that exception: the coordinator's
properties hold although such hints may leave without being sent, and may be sent
after they left. In the other direction `HintsAreStoredOnce` proves that the
coordinator stores hints as the pool demands. The replica store of
`QuorumManager` is the `view` of `DurableMap`. `Node` puts the detector, the
handoff and the requests into one process, and `NodeProofs` shows that each part
behaves there as its own module says.

An operator with the comment "mutant" is a plausible mistake in the definition
it precedes. It is not part of the model; it documents which mistake each
property would find (`mutants` in `PROJECT.json`).

### QuorumManager

One key, because keys do not interact on this path. A put writes a value of its
own, so what a store holds is the put it came from. `phase[o]` is how far the
handler of request `o` is: `local` (in `Node.Put/Get/Delete`, before the local
engine was asked), `quorum` (in the loop over the answers), `cache` (a get about
to store what it read). `call[o][r]` is the goroutine of `o` for replica `r`;
it stays `sent` after the handler has returned, if the context ended. The loop
over the answers counts at the end and reads as many as there are replicas, so
it is one step once all have answered; `Timeout` may come at any time before,
since `select` chooses at random among ready channels. `GetResolved` picks any
value that was read: each answer carries a clock of one tick of the answering
node, any two of them are concurrent, and the resolver decides by time stamps of
the read. `Stop` lets the local replica refuse.

What the handoff does to the replicas are the pool's actions: `DeliverHint` sends
a hint that is stored, or an unsafe one from a delivery's copy; `ForgetHint`
removes one that was delivered, or an unsafe one whether it was sent or not;
`DropHint` gives one up. `ShortenList` makes the hints of a replica unsafe, as a
second delivery, an expiry or a clearing does; it may come at any time once the
replica has had a hint, because hints for other keys are in the same list.

Assumptions: the replicas of a key are what `GetNodes` returns, at most `N`
distinct nodes and at least one (`ReplicasAssumption`); the data directory is
empty at the start; the local disk does not fail (that is `StorageEngine`'s
subject). `preceding`, `stored`, `delivered`, `dropped` and `unsafe` are history.

### HintedHandoff

A hint is a pair of a write and the node it is for. A delivery is a process:
`StartDelivery` copies the list under the lock, `Accepted` and `Failed` send one
hint, `CountRetry` is the second half of the unsynchronised `RetryCount++`,
`RemoveDelivered` applies positions of the copy to the list as it is then. `old`
abstracts time: the hints older than their TTL. `unsafe` is history: the nodes
whose list got shorter under a delivery, by another one, by expiry or by
clearing. For these nodes the code's positions are wrong, and `ImplementsPool`
promises nothing; for the others it holds, also with hints stored behind a
delivery. `Stop`, `SetMaxHints`, `SetRetryInterval` and `SetHintTTL` have no
caller and are left out.

### StorageEngine

`lock` says what the operation that holds `mu` is at, because evictions and
shutdown write files one after the other (`BeginWrite`, then `EndWrite` or
`WriteFails`) and `Restart` may come in between. A file that was truncated and
not finished is `Torn`: it does not decode. `OpenFails` also stands for keys
that are no file names (those with a `/`). `old` abstracts the five minutes
after which an entry may go; ageing during an operation is left out. Access
counts stop at `HotCount`, from where on they make no difference. Compression
is left out, and with it that `Get` of a compressed value fails after `Close`.
A file that was written well is always read well: a read error that passes is
left out. `Get` would then return an error and change nothing (`engine.go:130`),
but recovery skips a file it cannot read (`engine.go:263`), so its key would be
missing from the index until the next start or put.
`doubtful` is history: keys whose last writing or removal failed, or that were
put after `Close`.

### VectorClock

One versioned value per node, copies of it that have left the node, and updates
from the copies. `past` is history: the events that led to a value. All stamps
come from one process whose time advances. `LatestBy` is the loop that both
resolvers have, over pairs of values of which the first is the better one. `String`, `FromString` and
`ClientSideResolver` are left out, as they have no state and no caller.

### FailureDetector

Every access to the table holds the lock, so each handler is a step.
`pings[p]` counts the goroutines that wait for `p`, `pending[p][s]` the
callbacks still to run. Whether the last heartbeat is longer ago than the
threshold is a flag, `silent[p]`. The setters have no caller and are left out;
`Stop` is final.

### ConsistentHash

A hash is a position on a ring, and SHA-256, cut to 64 bits, is an injective
function of the virtual node that `Init` leaves open: with 150 virtual nodes
per unit of weight two of them do not meet. A key is known by its position,
which may be that of a virtual node. `Points(n, w)` are the positions that
`AddNode` writes and `RemoveNode` takes off for weight `w`. A member that is
added again with a smaller weight leaves points behind (`shrunk`, history);
`AddNode` does not look whether the node is there, and the properties say what
holds for the others. `GetNodes` is a walk, one turn of its loop per step.
Writers hold `mu` and readers share it, so a walk sees no membership change, and
walks do not see each other: one walk at a time is enough. `PartitionManager`
passes its calls on.

### Node

`main` says how far the process is: it joins the cluster (`WatchPeer` and
`RegisterClient`, peer by peer), serves, drains (`Shutdown` waits for the
handlers, or gives up after thirty seconds), stops the detector, closes the
storage, sets `isRunning` to false and exits. The detector runs from the
beginning, so peers are heard of while the cluster is still being joined.
`OnNodeStatusChange` is the callback of the detector; it starts a goroutine,
counted in `spawned[p]`, that calls `DeliverHintsToNode`, which copies the list
of that peer. `MapRace` is the unsynchronised access of the callback to
`nodeClients`: the runtime may end the process.

Each put has a key of its own, and what the storage engine holds of it is
whether it is in memory and on disk. `QuorumPut` sums up what `QuorumManager`
does in detail: any list of failed replicas that leaves `W` of them gets hints.
Every node is a replica, as with the default replication factor in a small
cluster. `isRunning` is read without the lock; a stale read equals an earlier
one, and the test is a step of its own. `owed` is history: the hints that were
listed when their peer was found healthy again and have not been tried or taken
away since. Hints live in memory and are gone at the exit, as in the code.

A hint that is stored while its peer counts as healthy is not owed: nothing
delivers it until the peer has failed and recovered, because the worker only
expires hints. `UpdateHeartbeat`, `RemoveNode` of the detector, `ClearHints` and
a second `Start` or `Stop` have no caller in the running program and are not
part of `Node`.

## What TLC checks

A run takes between seconds and two minutes on two cores. In the runs of
`QuorumManager`, `HintedHandoff` and `VectorClock` deadlock is not checked: the
requests, hints and operations of a run are finite, and when they are done the
system stops. In `Node` the process exits. The storage engine, the detector and
the ring never stop.

| Run | Bounds | Shows |
|---|---|---|
| `quorumWrites` | 2 puts, 1 get, 3 replicas, R = W = 2, 1 hint, 2 clients | `QuorumsIntersect`, `PutThenGet`, `AckedPutIsOwed`, `AckedWriteStays` |
| `quorumDeletes` | 1 put, 1 get, 1 delete, 2 replicas other than this node, R = 2, W = 1 | `QuorumReadSeesDelete`, `DeletedComesFrom`, `EveryRequestReturns` |
| `handoff` | 3 writes, 1 node, 2 deliveries, 2 hints, 2 retries | `ImplementsPool`, `DeliveredHintsLeave`, `ExhaustedHintsLeave` |
| `storage` | 2 keys, 2 values, room for 1, hot from 2 | `IndexIsReadable`, `EvictionIsThorough`, `ImplementsMap`, `ShutdownKeepsData` |
| `clock` | 3 nodes, 5 operations | `CompareIsCausality`, `ResolveKeepsNewest`, `ResolveIgnoresOrder` |
| `detector` | 1 peer, failed after 3, 2 heartbeats and 2 callbacks under way | `StatusMatchesEvidence`, `FailedUntilHeard`, `DeadPeersFail`, `AnsweringPeersAreHealthy`, `StopEnds` |
| `ring` | 3 nodes of weight 1 or 2, 1 virtual node per unit, 6 positions, up to 3 nodes asked for | `RingIsExact`, `PreferenceList`, `MinimalMovement`, `NoSecondRound` |
| `node` | 1 put, 1 peer, W = 1, failed after 1, 1 hint, 2 retries, 1 delivery, 1 heartbeat and 1 callback under way | `RecoveryIsSeenTo`, `RecoveredPeersGetHints`, `DrainedShutdownKeepsPuts` |

Every passing run but `quorumDeletes`, which has the module of `quorumWrites`, checks
the types as well.

Why these bounds: two puts are enough for one to be overtaken, three replicas
for a quorum to be a majority that leaves one out, one hint of room for a hint
to be refused. With R = 2 and W = 1 of two replicas a successful delete misses
one, and the read quorum meets the other; this node is not one of them there,
so that no local copy helps. Two deliveries of lists of two hints
are the least in which positions go wrong, and the third write is stored behind
them or refused. Two keys with room for one make an eviction choose and move;
two values make an older file differ from a newer cache. Three nodes are needed
for two concurrent values and one that knows both, and five operations let each
node have an event and two updates follow. Peers are rows of a table that no
handler relates to each other; the theorems are for any number of them. On the
ring, weight two gives a node two points that may follow each other, lie apart
or be left behind when the weight is lowered, and every placement on six
positions is an initial state: all positions taken, or gaps for keys to fall in.
The process with one put and one peer goes through start, failure, recovery,
delivery and shutdown in every order; what more puts, peers and deliveries could
add is covered by the theorems of `NodeProofs`, but for liveness.

### Fairness

`QuorumManager!FairSpec`: the handler of a request goes on when it can, which is
the Go scheduler, and a context ends after ten seconds. Nothing is assumed of
the replicas. `FailureDetector!FairSpec`: tickers tick, a heartbeat ends after
two seconds at the latest, callbacks run, a closed channel is noticed. It does
not assume that a heartbeat is answered, nor that anybody calls `Stop`. Fairness
of the tickers and of the heartbeats is strong because `MaxPings` and
`MaxPending`, which bound the model and not the code, may disable them now and
then. `Node!FairSpec`: callbacks about a healthy peer run, the goroutines they
start run, and a delivery goes on, each hint it sends being answered or given up
within five seconds, as long as `main` has not returned. Nothing is assumed of
the requests, the heartbeats and their answers, or of `main`.

### Where the code differs from its documents

Four runs end in a counterexample to what a document or comment says:

- `quorumDeleteThenGet`: a deleted key comes back, without any other request,
  from a replica that missed the delete; no tombstone is kept.
  `OnlyMissedDeletesReturn` proves that it comes from nowhere else, but for a
  replica that a hint gave it back to.
- `quorumLatestPut`: with R + W > N a get that is still on its way stores an
  older value over a newer put (`node.go:255`), and later gets return it.
  `ReadersSeePut` proves that, without deletes, it takes such a get: when only
  gets come after a put they all return it, however they overlap.
- `handoffLost`: the positions of one delivery, applied to a list that another
  one has shortened, remove hints that were never sent
  (`hinted_handoff.go:196`). The locked part would have to name hints, not
  positions. `NoLossWithoutOverlap` proves that nothing else loses hints: with
  one delivery to a node at a time, and no expiry or clearing, all are kept.
- `storageTorn`: a crash while a file is rewritten in place leaves no version of
  its key. `OnlyTornFilesAreLost` proves that a crash costs no other file, and
  that it is the one being written or one whose writing had failed.

Other differences follow from reading a single function and have no run: two
overlapping puts that succeed everywhere may leave the replicas with different
values for ever, as nothing compares them (`quorum.go:157`); a put
fails if the slowest replica does not answer in time although `W` have
(`quorum.go:200`); a put writes the local engine twice, so overlapping puts can
make reads go back and forth (`node.go:217`); hints are written to a replica
whatever it has by then (`hinted_handoff.go:176`); the delivery worker only
expires hints (`hinted_handoff.go:108`); acknowledged values that were not
evicted are lost in a crash (`engine.go:94`); eviction candidates are not sorted
(`engine.go:196`); every put starts a new clock, so clocks do not order the puts
of the coordinator (`quorum.go:143`); `StatusRecovered` is never set
(`detector.go:229`); the callback that starts a delivery may run when its peer
has failed again (`detector.go:257`), and reads `nodeClients` while the cluster
is being joined (`node.go:194`); a put may be acknowledged and not be on disk
after an orderly exit if `Shutdown` gave up waiting for it, as puts are accepted
after the storage was closed (`engine.go:277`); hints are lost at every exit;
`RemoveNode` of the ring leaves points behind for a node whose weight was lowered
(`consistent_hash.go:77`), and `GetNodes` may then return a nil node for them.

## What TLAPS proves

For every value of the constants that satisfies the assumptions the modules
name. `PROJECT.json` lists the theorems.

- `QuorumManagerProofs`: types and the cap on hints (`TypeCorrect`);
  `QuorumOverlap`; `NoReplicaForgotten`; `HintsAreStoredOnce`. The inductive
  invariant `RequestInv` says how the answers, the phase and the result of a
  request belong together: none before it asks, complete once it has counted,
  frozen from then on, and `R` or `W` of them if it succeeded. Two sets of
  replicas whose sizes add up to more than there are have a member in common,
  which gives `QuorumOverlap`. `HintsInv` adds to `AckedPutIsOwed` that a hint the
  store has ever had is one that a successful put left there: an unsafe hint may
  be sent after it was forgotten, and the put must still have been one that the
  replica missed. That the code can lose hints is an exception of the statement:
  where a list was shortened under a delivery nothing is said of the owed put.
- `QuorumSessionProofs`: `WritesStay`, `ReadersSeePut` and with it `PutIsRead`,
  `DeleteIsSeen` and `OnlyMissedDeletesReturn`, for any requests, replicas and
  quorums, from `SessionInv`: a request that others came
  after is over (`OrderOK`); a write from its first step on is what the local
  store has until a later get caches another value (`LocalOK`, `PutOK`), and what
  every replica that acknowledged it has, or else a hint was delivered there
  (`PeerOK`); a later get has seen the same on the replicas that served both
  (`SeenOK`) and returned it (`ReadOK`), and a value that is returned after a
  delete was told by a replica that answered (`ToldOK`). Quorums that meet, from
  `QuorumManagerProofs`, do the rest. These are about requests that no others
  disturb; `WritesStay` is not. `AckedWriteStays` is inductive with `OrderInv`:
  whatever a step puts into a store was left by a request that is not over
  (`StoredBy`), and so is not one that was over when the acknowledged write began.
- `StorageEngineProofs`: `IndexReadable`, `ShutdownIsDurable` and
  `EngineImplementsMap`, from `EngineInv`. It adds to the types that a file is
  written only under the lock and for an entry still in memory (`WritingOK`),
  that a file without an index entry is one whose removal failed
  (`NoStrayFile`), and that what the shutdown has come by is on disk and stays
  there (`SavedSoFar`). The refinement maps each step to a step of `DurableMap`
  or to a stutter, with `busy` standing for a lock that is held: work under the
  lock may persist values, and never changes what readers get. `EvictionDoesAll`
  says that an eviction moves all that may go before it ends.
  `OnlyTornFilesAreLost` and `OrderlyRestartIsUnseen` are about what a restart
  finds: a file that does not decode is the one being written or one whose
  writing failed (`TornIsKnown`), and readers see no difference across an
  orderly shutdown.
- `VectorClockProofs`: `ClocksTrackCausality`, from `ClockInv`: the entries of a
  clock count the events of each node in the past of its value, that past has no
  gaps, and no copy knows more of a node than its own value does. The lemmas
  `TickedIs`, `MergedIs`, `EqualIs` and `CompareIs` say what the operators on
  clocks do entry by entry; `EqualIs` needs that no entry is zero.
  `ResolvedIsNewest` and `ResolvedAlike` are about the loops of the two
  resolvers, for lists of any length. `LatestByIsBest` says what such a loop ends
  with when it compares by a strict order: a value of the list that none is better
  than. It is proved by induction over positions, as a least position that is not
  as it should be (`LeastNumber`). The comparison of clocks is such an order,
  and `StampsFollow`, a part of `ClockInv`, says that time stamps agree with it and
  that no two values share one, so either loop comes to the value that was stamped
  last. This needs one process whose time advances between updates, which is how
  distri-kv runs; with equal stamps the order of the list would decide.
- `FailureDetectorProofs`: `StatusIsExplained` and `NoRecoveryUnheard`.
  `StatusMatchesEvidence` is inductive with the types.
- `HintedHandoffProofs`: `TypeCorrect` with the cap, `DeliveredLeave`,
  `ExhaustedLeave` and `HandoffImplementsPool`, from `HandoffInv`: no list has a
  hint twice, what is listed was stored, a delivery is at a hint of its copy and
  counts as delivered only what is. `CopiesMatch` is why positions work at all: as
  long as nobody else shortens a list, every place in the copy of a delivery is
  the same place in the list.
  The lemma `WithoutList` says what removing positions leaves, and rests on
  counting: in a finite set of positions every rank is taken once. The cap is
  proved by counting places in lists, and compared with the size of the pool by
  a bijection. `LossNeedsShortening` and `NoLossWithoutOverlap` say when hints
  are lost: only from a list that was shortened under a delivery, and without
  expiry and clearing only when two deliveries to a node overlap.
- `ConsistentHashProofs`: `RingExact` and `FewKeysMove` from the invariant of
  membership (`RingInvariant`), `WalkFindsReplicas` and `WalkGoesRoundOnce` from
  that of a walk (`WalkInvariant`): what was found are the owners of all points
  between the key and where the walk is, ordered by their distance, so the next
  owner that is new is the next nearest. The ring may have any size, the nodes
  any weights.
- `NodeProofs`: `ShutdownKeepsPuts` from `LifeInv`, which says what the progress
  of `main` means for handlers and disk. `RecoveriesAreSeenTo` from
  `RecoveryInv`: every peer has a client before the first hint, a callback
  leaves a goroutine behind, its copy has all that is listed, and a delivery has
  sent what it has come by. `PartsAsSpecified` shows that every behaviour of the
  process is one of `HintedHandoff` and one of `FailureDetector`, so their
  theorems hold inside of it; `ProcessImplementsPool` states this for the pool
  with its unsafe hints, the one `QuorumManager` has an instance of,
  `ProcessHintFates` for what becomes of hints, and `ProcessPeerStatus` for what
  the process believes of its peers.

Assumptions are those the modules name: finite sets of processes and nodes,
positive bounds, quorums of at least one and at most all replicas. TLC evaluates
them in every run.

Only model-checked: liveness (`EveryRequestReturns`, `DeadPeersFail`,
`AnsweringPeersAreHealthy`, `StopEnds`, `RecoveredPeersGetHints`), which is out
of the prover's reach. Every invariant, action property and refinement that a
passing run checks is also a theorem.

## Not modelled

- Parsing and formatting of requests, flags and configuration, and encodings
  (JSON, gob, compression): they keep no state. `handleBatch` is not routed.
- Read errors of the disk that pass: see `StorageEngine` above.
- Statistics and getters: read-only.
- `GetKeyDistribution` and `GetRebalanceInfo` of the ring: read-only, with no
  caller. The former takes the read lock and takes it again in `GetNode`; nothing
  runs it next to a writer.
- `createTimeoutContext`: its cancel function looks whether a channel is closed
  and closes it, from the delivery and from a timer. If both look at the same
  time, the second close ends the process (`hinted_handoff.go:320`). The context
  does not change what a delivery does otherwise.
- Setters, `UpdateHeartbeat` within a process, `Stop` of the handoff, a second
  `Start` or `Stop`: no caller.
- `ClientSideResolver`: nothing installs it.
