# TLA+ models of the FS-Tree Manager

These modules model the Go service in `src/src/fs_tree_manager`: a gRPC server
that keeps one Merkle tree per user in memory, built from the `fsentries`
table and kept current by the upstream writer's `NewFSEntry`/`RemoveFSEntry`
calls, so that clients can fetch a replica (`FetchReplica`) and ask for the
differences from their own copy (`PullDiff`).

## The system

| Part | Code | State | Operations |
|---|---|---|---|
| Hasher | `merkle/tree.go` `CalculateHash` | none | xxhash of the metadata JSON followed by the sorted child hashes |
| Tree algorithms | `merkle/tree.go` | one tree's `Nodes` map | `CalculateTreeHashes`: bottom-up fixed point. `RecalculateAncestorHashes`: walk up the parent links. `GetAllDescendants` |
| Loader | `server.go` `buildUserFSTree` | none (reads the database) | one query of the user's rows; root choice; children grouped by `parent_uid`; hashing |
| Row metadata conversion | `server.go` row loop of `buildUserFSTree`, `buildMetadata`, `get*Value` | none | scan a row (skip it on a Scan error); NULL `parent_uid` to ""; NULL `accessed` to the current time; the metadata map |
| Mutation API | `server.go` `NewFSEntry`, `getParentUUID`, `pathToUUID`, `RemoveFSEntry` | the tree, under its write lock | insert or replace a node; remove a subtree; rehash the ancestors |
| Tenant registry | `server.go` `globalTrees`, `getReadableTree`, `getWritableTree`, `FetchReplica`, `PurgeReplica`; `merkle.Tree` | `globalTrees` under `globalTreesLock`; each tree's `RWMutex`, `LastRead`, `LastSynced` | lazy load on a miss; read lock and `LastRead` update on a hit; write lock for writers; explicit purge |
| Diff API | `server.go` `PullDiff` | none | under the read lock, one item per requested node whose hash differs, with one level of children |
| Eviction loop | `server.go` `purgeOldTrees`, the ticker goroutine in `runServer` | the ticker | every minute, drop trees unread for 1 min or unsynced for 5 min |
| Memory guard | `server.go` `checkMemoryUsage` | heap size | refuse a load above 2 GiB (checked before the load, with no lock held) |
| Integrity check | `merkle/debug.go` `IntegrityCheck` | none | panic on a malformed tree (debug builds only) |

**How the parts interact.**
- Every RPC runs in its own goroutine.
- Readers look a user up in `globalTrees`. On a miss they load the tree with no lock held and install it, overwriting the slot. Then they take the tree's read lock.
- Writers look the user up and take the write lock. If nothing is cached they fail.
- The ticker goroutine deletes map entries under `globalTreesLock` and takes no tree lock. A tree object dropped from the map stays in use by every request that already holds it.
- The database is written by the upstream writer, which is not in this repository. That writer updates the database and then sends the RPC.

**Hard behaviours.**
- Lazy load racing with another load, with writes, and with eviction.
- The response of `FetchReplica` is serialised after `RUnlock`.
- `LastRead` starts at the zero time.
- A retried `NewFSEntry` replaces an existing node.
- `log.Panicf` in `RemoveFSEntry`.
- Loops with no bound: the parent walk and the descendant recursion on cycles.
- The loader accepts rows that are not a tree.
- The loader fills a NULL `accessed` with the load time.
- Writer preference and fairness of `sync.RWMutex`.

## Modules

### `MerkleTree`: one tenant's tree (Hasher, Tree algorithms, Loader, Mutation API)

The state is `nodes` (the `Nodes` map: a function from uid to the record
`[parent, children, meta, hash]`) and `status` (`"serving"`, or `"panicked"`,
`"hung"` or `"crashed"` once a handler never returns: a `log.Panicf`, an
ancestor walk that never ends, or `GetAllDescendants` overflowing the stack on
a cycle of child links, `DescendantsOverflow`). `NewFSEntry` and `RemoveFSEntry` each run under
the tenant's write lock, so each is one atomic action. Each action includes the
whole handler:
- the parent lookup;
- the insert or delete;
- the leaf hash;
- the ancestor walk;
- the `log.Panicf` branch.

Data abstraction:
- A uid is a model value and also serves as the entry's name. A path is the sequence of names from the root.
- The metadata keeps the four keys the code reads: `uid`, `parent_uid`, `dirpath` and `path`.
- The hash is an injective constructor: a record of the metadata and the *set* of child hashes. Go sorts the child hashes, and no two children share one.
- `pathToUUID`'s scan in random map order is a nondeterministic choice among the nodes with that path.
- `RecalculateAncestorHashes` is a walk with fuel `|Uids|`. Running out of fuel means the Go loop never ends, and the model records it as `status = "hung"`.

`Init` is a snapshot loaded by `BuildUserFSTree`. The load fails, and nothing
is cached, when no row has a path with one `/` (`RootCandidates`). Otherwise the
last such row in row order becomes `RootUuid`; any candidate may come last, and
the model names the chosen one `RootUid`. The constant `Snapshot`
selects which: `"tree"` gives every well-formed snapshot of up to five rows;
`"any"` gives every set of rows the loader accepts (one root row, any other
`parent_uid`, so cycles, dangling parents and several roots).
`Next` is:
- `NewFSEntry` with any uid and `parent_uid`, and a `dirpath` that is the path of some cached node (so both the mismatch branch and the normal branch of `getParentUUID` happen);
- `RemoveFSEntry` of any cached non-root uid.

The constant `Resend` selects the caller contract:
- `"none"`: creates are sent for fresh uids only;
- `"retry"`: an identical create may be sent again, as after a lost reply;
- `"any"`: any create may be sent.

### `LoaderHashes`: the loader on every small snapshot

This module uses `INSTANCE MerkleTree` to run `BuildUserFSTree` on rows. It has
no state of its own.
- `Snapshots` are all the snapshots of up to four rows. Each row's `parent_uid` is NULL, another row, a missing row, or a value that closes a cycle.
- `RefHash` is a reference Merkle hash defined by plain recursion. `SweepMatchesReference` compares it with the fixed-point loop of `CalculateTreeHashes`.
- `WalksAgree` compares the incremental walk with that loop.
- `SweepOK` and `WalksOK` hold each check's verdict on every snapshot, and TLC computes them once.

`MC_MerkleTree` instantiates this module. Its invariants apply the checks to every snapshot and to the rows of each tree the merkle_ops run reaches.

### `RowMetadata`: a row's metadata across reloads (Row metadata conversion)

This module models one row of the record, the clock (`now`) and the metadata of each load so far (`loads`).
- `Load` is one iteration of `buildUserFSTree`'s row loop (`ScanRow`): a Scan error (a NULL `name`) skips the row; a NULL `parent_uid` becomes ""; a NULL `accessed` becomes `now`.
- `BuildMetadata` is `buildMetadata` with the `get*Value` accessors. `is_empty` is true for files and for directories whose size is NULL or 0. `dirname` and `dirpath` are `filepath.Dir` of the path.
- Columns handled alike are represented by one of them: `symlink_path` and `metadata` for the string columns, `is_public` for `getBoolValue`, and `is_shortcut` for `getIntValue`. Keys whose value is the same on every load (owner, layout, shares, ...) are left out.
- `Tick` moves the clock on by a minute.

### `FileTree`: what the Mutation API promises (abstract)

This module has one variable, `fs`, which maps each entry to its parent. `Create(uid, p)` adds a
fresh leaf under an existing entry. `Remove(uid)` deletes a non-root entry and
every entry below it, found by following parent links. `Init` is any tree under the root.
The module is written from spec §3 and §4.5. `MerkleTree` maps onto it:
`FT == INSTANCE FileTree WITH fs <- [u \in DOMAIN nodes |-> nodes[u].parent]`.
`ImplementsFileTree == FT!Spec` is checked as a property. This compares the
code's child-link descendant walk, used in `RemoveFSEntry`, with a removal defined by
parent links. It also checks that each `NewFSEntry`, whichever parent `getParentUUID`
resolves, adds exactly one leaf.

### `DiffSync`: one tenant end to end (Diff API, registry cache, eviction)

This module composes four parts for one tenant:
- the source of record, `db` (the user's rows);
- an upstream writer;
- the registry's cached tree: `cached`, `age`, and `MerkleTree`'s `nodes` and `status` through an `INSTANCE`;
- a client that keeps a `replica` (uid to hash and child ids) in sync.

The actions:
- `StartCreate` and `StartRemove` are the writer. It changes the record (a new row under an existing one, or a row with its whole subtree removed), then sends the request (`wreq`), at most `MaxWrites` times. Uuids are never reused (`used`). The writer is not in this repository and is modelled from spec §1 and §9.
- `WriteRPC` is `getWritableTree` followed by `NewFSEntry` or `RemoveFSEntry`. The handler is `MerkleTree`'s action. It runs when a tree is cached and holds the parent (or the entry); otherwise the request fails with NOT_FOUND and the cache is unchanged (`Handles`).
- `ReadHit`, `ReadMiss`, `Load` and `Install` are `getReadableTree`, taken together as `Client`.
  - A hit sets `LastRead` and answers under the read lock in one step.
  - A miss builds the tree from the rows outside every lock (`Load`), then installs it with `LastSynced` now and `LastRead` zero (`Install`).
  - A write can therefore land between load and install, so the installed tree misses it.
  - `Built` is `buildUserFSTree` over every record the writer can reach, computed once.
  - Every row of the record has `accessed` set. For a NULL `accessed` the loader substitutes the load's `time.Now()` (`server.go:540-543`), so every reload would hash the row differently (run row_metadata). The convergence claim below is made for records without such rows.
- `Respond` is `FetchReplica` on first contact and `PullDiff` afterwards.
  - `PushItem` and `PullDiff` translate `PullDiff`'s loop: skip unknown uuids and equal hashes; otherwise return the node with its existing children, each with its hash.
  - `View` is what `GetTree` shows a client.
- The client is modelled from spec §1 and §4.6 (`Observations`, `ApplyPush`). It sends every (uuid, hash) it holds and takes each item's hash and child list. It adds children it lacks with no hash, so the next pull asks for them. It keeps its own hash for children it already has. It prunes nodes not reachable from the root.
- `Tick` is `purgeOldTrees`. Ages saturate past the TTLs, as in `Registry`.
- The memory guard always passes here; it is `Registry`'s subject.
- The lock interleavings of several readers are also `Registry`'s subject.

### `Registry`: the tenant registry, the locks and the eviction loop

Variables:
- `globalTrees`: the map slot of each user;
- `tree`: the content of each tree object;
- `rlocks` and `wlock`: each object's `RWMutex`;
- `age`: ticks since `LastRead` and `LastSynced`, saturated just past the TTLs;
- `pc`, `ref`, `req` and `loaded`: each goroutine's position, the object it holds, its request, and the rows it read;
- `db`: the source of record;
- history: `acked` (entries of writes that returned OK) and `owed`, which is `acked ∩ db` when a reader starts, minus entries written since.

Modelling choices:
- `globalTreesLock` needs no variable, because each of its critical sections is one map access and so one step.
- Tree objects are ids from `Inst`. An object that neither the map nor any request refers to is collected (`Reclaim`).
- A tree's content is a set of entries. The constant `Parent` places each entry in a directory, or in the root when `Parent[e] = None`. How entries are hashed is `MerkleTree`'s subject.

Actions:

| Action | Code |
|---|---|
| `StartRead` | the RPC arrives (`FetchReplica` or `PullDiff`) |
| `Lookup` | `getReadableTree` |
| `RLockHit` | `getReadableTree` hit path: the read lock |
| `Touch` | `getReadableTree` hit path: `LastRead = time.Now()`, still under the read lock only |
| `MemCheck` | `checkMemoryUsage`: `runtime.MemStats.Alloc` against the threshold, holding no lock; the heap is not modelled, so it passes or refuses nondeterministically |
| `Load` | `buildUserFSTree` (with its DB-error return) |
| `Install` | `NewTree` and the map write |
| `RLockNew` | `getReadableTree` after the install |
| `Read` | the handler body and the deferred `RUnlock`: `PullDiff` returns; `FetchReplica` goes on to `Marshal` |
| `Marshal` | gRPC serialising `FetchReplica`'s response |
| `StartWrite` | the upstream writer, modelled from the spec: it creates an entry only in a directory the record holds, and removes a directory with its content |
| `WLookup` | `getWritableTree` |
| `WLock` | `getWritableTree` taking the write lock |
| `WApply` | the write handler and the deferred `Unlock`. A create fails with NOT_FOUND when the held tree lacks the parent (`WriteOk`). A remove fails when the tree lacks the entry, and otherwise deletes the entry's whole subtree (`WriteResult`). |
| `PurgeReplica` | `PurgeReplica` |
| `PurgeOldTrees` | one tick and `purgeOldTrees` |

Whether `RLock` is enabled follows Go's writer preference: new readers wait while a writer waits.

## Runs

| Run | Config | Expect | What it shows |
|---|---|---|---|
| merkle_ops | `MC_MerkleTree.cfg` | pass (1.6k states) | From every tree of ≤5 nodes, creates of fresh uids and removes keep `IntegrityCheck`, translated as the operator `IntegrityCheck` (`Integrity`). Every hash stays equal to a full bottom-up recompute (`HashesMatchFullRecompute`), so incremental rehashing never drifts. Creating a fresh entry and then removing it gives back the same tree, hashes included (`CreateThenRemoveRestores`, spec §8 scenario 3). Every step implements `FileTree` (`ImplementsFileTree`). On every snapshot of ≤4 rows, well-formed or not, and on the rows of every reached tree, the fixed-point loop gives the recursive Merkle hash and leaves exactly the nodes on or above a cycle unhashed (`BottomUpHashMatchesReference`). On acyclic rows, hashing the leaves and then running `RecalculateAncestorHashes` from every node, in every order, gives the same hashes (`WalksMatchBottomUp`, spec §8). |
| merkle_retry | `MC_MerkleTree_retry.cfg` | violation of `Integrity` | A retried `NewFSEntry` of a cached directory gives it an empty `ChildrenUuids`, so its children become orphans. |
| merkle_retry_panic | `MC_MerkleTree_retry_panic.cfg` | violation of `NoStuckRequest` | Removing such an orphan reaches `log.Panicf` and kills the server. |
| merkle_selfparent_hang | `MC_MerkleTree_selfparent.cfg` | violation of `NoStuckRequest` | Well-formed trees only. On the tree `r → a`, one `NewFSEntry` with `uid = parent_uid = r` and `dirpath` r's own path replaces `r` by a node that is its own parent, and `RecalculateAncestorHashes` then loops from `r` to `r` forever, holding the write lock. |
| merkle_loader_cycle_hang | `MC_MerkleTree_cycle.cfg` | violation of `NoStuckRequest` | Any rows the loader accepts, and creates of fresh uids only. The loader caches a row `a` whose `parent_uid` is `a`, leaving it unhashed. A `NewFSEntry` for a fresh `b` whose `dirpath` is `a`'s path resolves its parent to `a`, and the ancestor walk from `b` loops on `a` forever. |
| registry_liveness | `MC_Registry_live.cfg` | pass (34k states) | With one reader, the writer, purges and ticks, a request never holds a collected object or none at all (`TypeOK`). Every request returns (`RequestsComplete`). A cached tree that disagrees with the database is dropped eventually (`StaleTreeEventuallyDropped`). |
| registry_touch | `MC_Registry_touch.cfg` | violation of `LastReadExclusive` | Two readers of the same tree both reach the `LastRead` write together, each holding only the shared read lock: a Go data race, which `purgeOldTrees`' unlocked read of the field joins. |
| diff_sync | `MC_DiffSync.cfg` | pass (48k states, 1 min) | After any write to the cached tree, a pull with the pre-write hashes returns exactly the surviving nodes whose subtree changed: the parent and its ancestors (`DiffIsExactChange`, spec §8 scenario 2). Once writes stop, the client's replica comes to match the tree the record defines (`ConvergesToRecord`), for records whose rows all have `accessed` set. This holds even when a load read the rows before a write whose request found no cached tree: TLC reaches such a stale tree, and only the sync cutoff of `purgeOldTrees` drops it. A purge on the read cutoff alone (mutant `ExpiredReadOnly`) lets a client that keeps reading hold the stale tree forever. |
| row_metadata | `RowMetadata.cfg` | violation (`MetadataStable`) | A row whose `accessed` is NULL, loaded at minute 1 and again at minute 2, gives two different metadata maps, so its hash and its ancestors' hashes change on every reload. |
| registry_ryw | `MC_Registry_ryw.cfg` | violation of `ReadYourWrites` | Two misses both load. The second install replaces the tree that had received an acknowledged write, and a later read misses that write. |
| registry_marshal | `MC_Registry_marshal.cfg` | violation of `NoUnlockedTreeRead` | `FetchReplica`'s response is serialised while a writer holds the write lock. |
| registry_evict | `MC_Registry_evict.cfg` | violation of `EvictOnlyIdle` | A tree loaded just before a tick is dropped at that tick, because `LastRead` starts at the zero time. TLC labels the purging step `PurgeReplica`, because the two actions coincide on that step. |

Each property of a passing run has a mutant in `PROJECT.json`: a plausible bug
in the mapped definition that TLC catches under the same configuration. The
mutants are:
- `ParentUuid` filled with the path;
- only direct children removed (breaks `Integrity` and the refinement);
- the ancestor walk stopping below the root;
- a single hash pass;
- a miss taken for a hit;
- the write handler's error path keeping the lock;
- reads refreshing `LastSynced`;
- a remove that does not rehash the ancestors;
- push items without children.

## Findings

1. `NewFSEntry` on a cached uid (`server.go:243`) replaces the node and drops its children. Spec §8 claims the overwrite keeps the invariants.
2. After that, `RemoveFSEntry` of an orphan panics the process (`server.go:344`).
3. `CalculateTreeHashes` stops silently when a pass makes no progress (`merkle/tree.go:129`), and `buildUserFSTree` caches the tree anyway. Spec §4.2 says leftover nodes indicate a cycle and the loader must reject the input. Run merkle_loader_cycle_hang shows the consequence: a create under a self-parented row hangs in the ancestor walk.
4. `getReadableTree` installs without re-checking (`server.go:107`), so acknowledged writes can vanish from the cache until the next eviction. Spec §4.3 requires the re-check.
5. `FetchReplica` returns the live tree after `RUnlock` (`server.go:138`). A concurrent write then races with serialisation, and Go aborts on a concurrent map read and write.
6. `NewTree` leaves `LastRead` zero (`merkle/tree.go:28`), so each fresh tree is purged at the next tick. Spec §4.4 says `last_read = now`.
7. A single `NewFSEntry` with `uid = parent_uid`, sent against a well-formed tree, makes the cached node its own parent (`server.go:238`), since `getParentUUID` does not reject it. `RecalculateAncestorHashes` (`merkle/tree.go:139`) then never ends, holding the write lock, so every later request of the tenant blocks. Spec §7 treats a cycle as a fatal corruption, not a hang.
8. `LastRead` is written under the shared read lock (`server.go:92`) and read by `purgeOldTrees` under `globalTreesLock` alone (`server.go:605`). Spec §4.3 step 3 prescribes the write under the read lock; the code adds no synchronisation for the field, so two readers of a tenant race on it.
9. `buildUserFSTree` fills a NULL `accessed` with `time.Now()` (`server.go:540`). Spec §4.4 keeps NULLs as NULL so that the serialisation is stable. As written, every reload of an unchanged record changes the hashes of these nodes and of all their ancestors, so the client's next `PullDiff` reports them as changed. `getIntValue` also maps NULL flags to 0 rather than NULL; that is stable, but it is not what §4.4 says.

## Bounds and why they suffice

- **MerkleTree**: 5 uids (the root and four others).
  - This allows depth 4 and a directory with children to be re-created or removed.
  - The uids other than the root are symmetric (`SYMMETRY`), which is sound because the properties never single one out.
- **LoaderHashes** (in merkle_ops): 4 rows, each with every possible `parent_uid`.
  - This includes two-cycles, three-cycles and self-loops, with rows above them.
  - Well-formed trees of 5 nodes come from the states of the run.
- **RowMetadata**: one name, one string value, sizes 0 and 1, one time value, two minutes and two loads.
  - Every column is NULL or not in some initial row.
  - Two loads at different minutes are all that the reload case needs.
- **DiffSync**: 4 uids, 2 writes, and TTLs of 1 and 2 ticks.
  - The initial records are every tree of up to 4 nodes.
  - Two writes cover: a create or remove between a load and its install; a create under an entry the stale tree lacks; a create and a remove between two pulls; and removal of a subtree.
  - A third write took the run (with liveness) past the time its mutants may take.
  - No symmetry, because `ConvergesToRecord` is a liveness property.
- **Registry**:
  - 1 user: every race in the registry is per user.
  - A directory `e1` and a file `e2` in it for the passing run. With these, a create can fail on a stale tree that lacks its parent, and a remove can take a subtree. The violation runs use `e1` alone.
  - 2 readers in the violation runs: the double load and the `LastRead` race each need two.
  - 1 reader for the passing run: the state graph stays small enough for fairness checking.
  - 1 writer: the spec gives one writer per tenant.
  - `Inst`: one object per request plus the map's.
  - TTLs of 1 and 2 ticks: they keep "read TTL < sync TTL" and allow a tick before the read TTL expires.

## Fairness

- Each goroutine is weakly fair on its non-lock steps: a runnable goroutine runs.
- Lock acquisition is strongly fair. Go's `sync.RWMutex` blocks new readers behind a waiting writer. It also switches to FIFO hand-off once a waiter has starved, so a lock that keeps becoming free is eventually granted.
- The ticker is weakly fair.
- Clients and the upstream writer are not obliged to send anything.
- In `DiffSync`:
  - the client's steps are weakly fair: spec §4.6 has the client sync periodically. Its steps are taken together, since one request runs at a time and exactly one of them is enabled.
  - The writer's pending request is weakly fair (a sent RPC is served), and so is the ticker.
  - The writer itself is not obliged to write.

## Not modelled

- `PrintTree` and the debug helpers: output only.
- `mayCrash`: `chaos` is `false` in the build.
- The `debug` build (`debug = false`): `NewFSEntry` and `RemoveFSEntry` would call `IntegrityCheck` over every user's tree without the map lock or other trees' locks. Its checks on one tree are modelled as the operator `IntegrityCheck`.
- Configuration, DB and listener setup, and `main`: one-shot I/O.
- `structpb.NewStruct`'s conversion of the map: it cannot fail on these values, and it is the same on every load. The float-to-`int64` truncation of the times is also left out, for the same reason.
- Heap size in bytes: `checkMemoryUsage` passes or refuses nondeterministically. The spec promises only this pre-check, which even a serial load may overshoot, so no bound on the live trees is claimed.
- A torn `time.Time` from the `LastRead` race: the model shows the two writes overlap, not the value that results.
- `FsEntry` payloads of push items: the client's sync depends only on hashes and child ids.

## Plan for later work

1. `DiffSync` composes the cache, the record and the client for one reader. Several concurrent readers (the double install) with node records and hashes would join it with `Registry`, at a much larger state space.
2. A process restart (after `log.Panicf` or Go's concurrent-map abort) empties `globalTrees`. Nothing is persisted, so the only thing to check would be that reloads start from the database.
3. Larger bounds for `DiffSync` (five entries) need the client's replica to be summarised to keep the state space small.
