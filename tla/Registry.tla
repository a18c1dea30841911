------------------------------ MODULE Registry ------------------------------
(***************************************************************************)
(* The tenant registry of server.go: globalTrees with globalTreesLock, the *)
(* per-tree RWMutex of merkle.Tree, the lazy load of getReadableTree, the  *)
(* writers' getWritableTree, PurgeReplica, and the purgeOldTrees ticker.   *)
(*                                                                         *)
(* Every critical section of globalTreesLock is one O(1) map access, so it *)
(* is one atomic step and the lock needs no variable.  A tree object is an *)
(* instance id; a request keeps the id it looked up even after the map     *)
(* drops it, and an id that neither the map nor a request holds is         *)
(* garbage-collected.  A tree's content is the set of entries it caches;   *)
(* how entries are hashed is the subject of MerkleTree.  Time is counted   *)
(* in ticks of the one-minute ticker; the cached tree of a user keeps the  *)
(* ticks since its LastRead and LastSynced, saturated past the TTLs (the   *)
(* timestamps of a tree the map no longer holds are never read again).     *)
(*                                                                         *)
(* The source of record and its writers are outside the repository: here  *)
(* the upstream caller updates db before sending NewFSEntry or             *)
(* RemoveFSEntry, one writer per tenant (spec 1, 9).                       *)
(***************************************************************************)
EXTENDS Naturals, FiniteSets, Functions

CONSTANTS
    Users,       \* user ids
    Entries,     \* entries a user's tree may hold
    Parent,      \* Parent[e]: the directory entry e lives in, None for the root
    Readers,     \* goroutines serving FetchReplica / PullDiff
    Writers,     \* the upstream writer of each tenant and its requests
    Inst,        \* tree objects that can be alive at once
    ReadTTL,     \* purge when LastRead is older than this many ticks (1 min)
    SyncTTL,     \* purge when LastSynced is older than this (5 min)
    None

VARIABLES
    db,          \* db[u]: the user's rows in the source of record
    globalTrees, \* globalTrees[u]: the cached tree object, or None
    tree,        \* tree[i]: the entries object i caches, or None when collected
    rlocks,      \* rlocks[i]: goroutines holding i's read lock
    wlock,       \* wlock[i]: goroutine holding i's write lock, or None
    age,         \* age[u]: ticks since LastRead / LastSynced of u's cached tree
    pc,          \* pc[p]: where request p is
    ref,         \* ref[p]: the tree object request p holds, or None
    req,         \* req[p]: [user, kind, entry] of p's current request, or None
    loaded,      \* loaded[p]: the rows buildUserFSTree read for p
    acked,       \* history: acked[u] entries present after the last OK write
    owed         \* history: entries acked before reader p began, unchanged since

vars == <<db, globalTrees, tree, rlocks, wlock, age, pc, ref, req, loaded, acked, owed>>

Procs == Readers \cup Writers
Age(ttl) == 0..ttl + 1
NeverRead == ReadTTL + 1            \* the read age of LastRead's zero time
NoAge == [read |-> 0, sync |-> 0]   \* the ages kept for a user with no cached tree

ASSUME Parent \in [Entries -> Entries \cup {None}]

\* e and every entry below it.
RECURSIVE Ancestors(_)
Ancestors(e) == IF Parent[e] = None THEN {} ELSE {Parent[e]} \cup Ancestors(Parent[e])
Subtree(e) == { x \in Entries : x = e \/ e \in Ancestors(x) }

-----------------------------------------------------------------------------

\* Objects no map slot and no request refer to are collected.
Reclaim(t, m, r) == [i \in Inst |-> IF i \in Range(m) \/ \E q \in Procs : r[q] = i
                                    THEN t[i] ELSE None]

\* sync.RWMutex: RLock waits while a writer holds or waits for the lock.
CanRLock(i) == wlock[i] = None /\ \A q \in Writers : ~(pc[q] = "w_lock" /\ ref[q] = i)
CanLock(i)  == wlock[i] = None /\ rlocks[i] = {}

\* Request p returns (an error, or its response) and drops its tree, whose
\* content is then t.
Finish(p, t) ==
    /\ pc' = [pc EXCEPT ![p] = "idle"]
    /\ ref' = [ref EXCEPT ![p] = None]
    /\ req' = [req EXCEPT ![p] = None]
    /\ loaded' = [loaded EXCEPT ![p] = {}]
    /\ owed' = [owed EXCEPT ![p] = {}]
    /\ tree' = Reclaim(t, globalTrees, ref')

Return(p) == Finish(p, tree)

-----------------------------------------------------------------------------
(* getReadableTree, FetchReplica, PullDiff                                 *)

StartRead(p, u, kind) ==
    /\ pc[p] = "idle"
    /\ pc' = [pc EXCEPT ![p] = "lookup"]
    /\ req' = [req EXCEPT ![p] = [user |-> u, kind |-> kind]]
    /\ owed' = [owed EXCEPT ![p] = acked[u] \cap db[u]]
    /\ UNCHANGED <<db, globalTrees, tree, rlocks, wlock, age, ref, loaded, acked>>

\* Mutant: a cache miss taken for a hit.
LookupNoNilCheck(p) ==
    LET i == globalTrees[req[p].user] IN
    /\ pc[p] = "lookup"
    /\ pc' = [pc EXCEPT ![p] = "rlock_hit"]
    /\ ref' = [ref EXCEPT ![p] = i]
    /\ UNCHANGED <<db, globalTrees, tree, rlocks, wlock, age, req, loaded, acked, owed>>

\* Lookup under globalTreesLock.RLock.
Lookup(p) ==
    LET i == globalTrees[req[p].user] IN
    /\ pc[p] = "lookup"
    /\ pc' = [pc EXCEPT ![p] = IF i = None THEN "memcheck" ELSE "rlock_hit"]
    /\ ref' = [ref EXCEPT ![p] = i]
    /\ UNCHANGED <<db, globalTrees, tree, rlocks, wlock, age, req, loaded, acked, owed>>

\* Cached: RLock on the object it holds.
RLockHit(p) ==
    LET i == ref[p] IN
    /\ pc[p] = "rlock_hit"
    /\ CanRLock(i)
    /\ rlocks' = [rlocks EXCEPT ![i] = @ \cup {p}]
    /\ pc' = [pc EXCEPT ![p] = "touch"]
    /\ UNCHANGED <<db, globalTrees, tree, wlock, age, ref, req, loaded, acked, owed>>

\* Mutant: a read also refreshes LastSynced.
TouchSync(p) ==
    LET u == req[p].user IN
    /\ pc[p] = "touch"
    /\ age' = IF globalTrees[u] = ref[p] THEN [age EXCEPT ![u] = NoAge] ELSE age
    /\ pc' = [pc EXCEPT ![p] = "read"]
    /\ UNCHANGED <<db, globalTrees, tree, rlocks, wlock, ref, req, loaded, acked, owed>>

\* LastRead = time.Now(), holding only the read lock; on an object the map
\* has dropped the write is lost with the object.
Touch(p) ==
    LET u == req[p].user IN
    /\ pc[p] = "touch"
    /\ age' = IF globalTrees[u] = ref[p] THEN [age EXCEPT ![u].read = 0] ELSE age
    /\ pc' = [pc EXCEPT ![p] = "read"]
    /\ UNCHANGED <<db, globalTrees, tree, rlocks, wlock, ref, req, loaded, acked, owed>>

\* checkMemoryUsage compares runtime.MemStats.Alloc, which counts every
\* allocation not yet swept and not only the cached trees, with
\* memoryThresholdBytes, holding no lock: the heap is not modelled, so the
\* check may pass or refuse (RESOURCE_EXHAUSTED) at any time.
MemCheck(p) ==
    /\ pc[p] = "memcheck"
    /\ \/ /\ pc' = [pc EXCEPT ![p] = "load"]
          /\ UNCHANGED <<tree, ref, req, loaded, owed>>
       \/ Return(p)
    /\ UNCHANGED <<db, globalTrees, rlocks, wlock, age, acked>>

\* buildUserFSTree outside every lock: one query of the user's rows, or a
\* database error.
Load(p) ==
    /\ pc[p] = "load"
    /\ \/ /\ loaded' = [loaded EXCEPT ![p] = db[req[p].user]]
          /\ pc' = [pc EXCEPT ![p] = "install"]
          /\ UNCHANGED <<tree, ref, req, owed>>
       \/ Return(p)
    /\ UNCHANGED <<db, globalTrees, rlocks, wlock, age, acked>>

\* merkle.NewTree (LastSynced = now, LastRead left at its zero value), then
\* globalTrees[userID] = lockedTree under globalTreesLock.Lock, replacing
\* whatever another request installed meanwhile.
Install(p) ==
    LET u == req[p].user
        i == CHOOSE i \in Inst : tree[i] = None
        m == [globalTrees EXCEPT ![u] = i]
        r == [ref EXCEPT ![p] = i]
    IN
    /\ pc[p] = "install"
    /\ \E j \in Inst : tree[j] = None
    /\ globalTrees' = m
    /\ ref' = r
    /\ tree' = Reclaim([tree EXCEPT ![i] = loaded[p]], m, r)
    /\ age' = [age EXCEPT ![u] = [read |-> NeverRead, sync |-> 0]]
    /\ loaded' = [loaded EXCEPT ![p] = {}]
    /\ pc' = [pc EXCEPT ![p] = "rlock_new"]
    /\ UNCHANGED <<db, rlocks, wlock, req, acked, owed>>

RLockNew(p) ==
    LET i == ref[p] IN
    /\ pc[p] = "rlock_new"
    /\ CanRLock(i)
    /\ rlocks' = [rlocks EXCEPT ![i] = @ \cup {p}]
    /\ pc' = [pc EXCEPT ![p] = "read"]
    /\ UNCHANGED <<db, globalTrees, tree, wlock, age, ref, req, loaded, acked, owed>>

\* PullDiff builds its response under the read lock and returns; FetchReplica
\* returns the tree itself and the deferred RUnlock runs before gRPC
\* marshals it.
Read(p) ==
    /\ pc[p] = "read"
    /\ rlocks' = [rlocks EXCEPT ![ref[p]] = @ \ {p}]
    /\ \/ /\ req[p].kind = "pull"
          /\ Return(p)
       \/ /\ req[p].kind = "fetch"
          /\ pc' = [pc EXCEPT ![p] = "marshal"]
          /\ UNCHANGED <<tree, ref, req, loaded, owed>>
    /\ UNCHANGED <<db, globalTrees, wlock, age, acked>>

\* gRPC serialises the MerkleTree message, holding no lock.
Marshal(p) ==
    /\ pc[p] = "marshal"
    /\ Return(p)
    /\ UNCHANGED <<db, globalTrees, rlocks, wlock, age, acked>>

-----------------------------------------------------------------------------
(* getWritableTree, NewFSEntry, RemoveFSEntry                              *)

\* The upstream writer updates the source of record, then sends the entry's
\* creation (in a directory the record holds) or its removal (with all
\* that is below it).
StartWrite(p, u, e) ==
    /\ pc[p] = "idle"
    /\ e \in db[u] \/ Parent[e] \in db[u] \cup {None}
    /\ db' = [db EXCEPT ![u] = IF e \in @ THEN @ \ Subtree(e) ELSE @ \cup {e}]
    /\ req' = [req EXCEPT ![p] = [user |-> u, entry |-> e,
                                  kind |-> IF e \in db[u] THEN "remove" ELSE "create"]]
    /\ owed' = [q \in Procs |-> IF req[q] # None /\ req[q].user = u THEN owed[q] \ Subtree(e)
                                                                  ELSE owed[q]]
    /\ pc' = [pc EXCEPT ![p] = "w_lookup"]
    /\ UNCHANGED <<globalTrees, tree, rlocks, wlock, age, ref, loaded, acked>>

\* Lookup under globalTreesLock.RLock; no cached tree is an error.
WLookup(p) ==
    LET i == globalTrees[req[p].user] IN
    /\ pc[p] = "w_lookup"
    /\ \/ /\ i # None
          /\ ref' = [ref EXCEPT ![p] = i]
          /\ pc' = [pc EXCEPT ![p] = "w_lock"]
          /\ UNCHANGED <<tree, req, loaded, owed>>
       \/ /\ i = None
          /\ Return(p)
    /\ UNCHANGED <<db, globalTrees, rlocks, wlock, age, acked>>

WLock(p) ==
    LET i == ref[p] IN
    /\ pc[p] = "w_lock"
    /\ CanLock(i)
    /\ wlock' = [wlock EXCEPT ![i] = p]
    /\ pc' = [pc EXCEPT ![p] = "w_apply"]
    /\ UNCHANGED <<db, globalTrees, tree, rlocks, age, ref, req, loaded, acked, owed>>

\* NewFSEntry needs the parent in the tree it holds (getParentUUID: "parent
\* node not found"); RemoveFSEntry needs the entry ("entry not found").
WriteOk(i, r) ==
    IF r.kind = "create" THEN Parent[r.entry] \in tree[i] \cup {None} ELSE r.entry \in tree[i]

\* A create inserts the entry; a remove deletes it with its descendants.
WriteResult(s, r) == IF r.kind = "create" THEN s \cup {r.entry} ELSE s \ Subtree(r.entry)

\* Mutant: the error path returns without unlocking.
WApplyKeepLock(p) ==
    LET i == ref[p]
        u == req[p].user
    IN
    /\ pc[p] = "w_apply"
    /\ \/ /\ WriteOk(i, req[p])
          /\ wlock' = [wlock EXCEPT ![i] = None]
          /\ acked' = [acked EXCEPT ![u] = WriteResult(@, req[p])]
          /\ Finish(p, [tree EXCEPT ![i] = WriteResult(@, req[p])])
       \/ /\ ~WriteOk(i, req[p])
          /\ Return(p)
          /\ UNCHANGED <<acked, wlock>>
    /\ UNCHANGED <<db, globalTrees, rlocks, age>>

\* The handler body, then the deferred Unlock.
WApply(p) ==
    LET i == ref[p]
        u == req[p].user
    IN
    /\ pc[p] = "w_apply"
    /\ wlock' = [wlock EXCEPT ![i] = None]
    /\ \/ /\ WriteOk(i, req[p])
          /\ acked' = [acked EXCEPT ![u] = WriteResult(@, req[p])]
          /\ Finish(p, [tree EXCEPT ![i] = WriteResult(@, req[p])])
       \/ /\ ~WriteOk(i, req[p])
          /\ Return(p)
          /\ UNCHANGED acked
    /\ UNCHANGED <<db, globalTrees, rlocks, age>>

-----------------------------------------------------------------------------
(* PurgeReplica and purgeOldTrees                                          *)

PurgeReplica(u) ==
    LET m == [globalTrees EXCEPT ![u] = None] IN
    /\ globalTrees' = m
    /\ tree' = Reclaim(tree, m, ref)
    /\ age' = [age EXCEPT ![u] = NoAge]
    /\ UNCHANGED <<db, rlocks, wlock, pc, ref, req, loaded, acked, owed>>

\* The ages of u's cached tree one tick later.
Aged(u) == [read |-> IF age[u].read > ReadTTL THEN age[u].read ELSE age[u].read + 1,
            sync |-> IF age[u].sync > SyncTTL THEN age[u].sync ELSE age[u].sync + 1]

\* A tree last read before now - 1 min or last synced before now - 5 min.
Expired(u) ==
    /\ globalTrees[u] # None
    /\ Aged(u).read > ReadTTL \/ Aged(u).sync > SyncTTL

\* The ticker fires, a minute after the last time, and purgeOldTrees drops
\* every expired tree under globalTreesLock.Lock, taking no tree's lock.
PurgeOldTrees ==
    LET m == [u \in Users |-> IF Expired(u) THEN None ELSE globalTrees[u]] IN
    /\ globalTrees' = m
    /\ age' = [u \in Users |-> IF m[u] = None THEN NoAge ELSE Aged(u)]
    /\ tree' = Reclaim(tree, m, ref)
    /\ UNCHANGED <<db, rlocks, wlock, pc, ref, req, loaded, acked, owed>>

-----------------------------------------------------------------------------

Init ==
    /\ db = [u \in Users |-> {}]
    /\ globalTrees = [u \in Users |-> None]
    /\ tree = [i \in Inst |-> None]
    /\ rlocks = [i \in Inst |-> {}]
    /\ wlock = [i \in Inst |-> None]
    /\ age = [u \in Users |-> NoAge]
    /\ pc = [p \in Procs |-> "idle"]
    /\ ref = [p \in Procs |-> None]
    /\ req = [p \in Procs |-> None]
    /\ loaded = [p \in Procs |-> {}]
    /\ acked = [u \in Users |-> {}]
    /\ owed = [p \in Procs |-> {}]

ReaderStep(p) ==
    \/ Lookup(p) \/ Touch(p) \/ MemCheck(p) \/ Load(p) \/ Install(p) \/ Read(p) \/ Marshal(p)
ReaderLock(p) == RLockHit(p) \/ RLockNew(p)
WriterStep(p) == WLookup(p) \/ WApply(p)

Next ==
    \/ \E p \in Readers, u \in Users, k \in {"fetch", "pull"} : StartRead(p, u, k)
    \/ \E p \in Readers : ReaderStep(p) \/ ReaderLock(p)
    \/ \E p \in Writers, u \in Users, e \in Entries : StartWrite(p, u, e)
    \/ \E p \in Writers : WriterStep(p) \/ WLock(p)
    \/ \E u \in Users : PurgeReplica(u)
    \/ PurgeOldTrees

\* Runnable goroutines run and the ticker keeps firing; clients need not
\* send requests.  A lock that keeps becoming free is eventually granted:
\* sync.RWMutex blocks new readers behind a waiting writer and hands the
\* mutex over in FIFO order once a waiter has starved.
Fairness ==
    /\ \A p \in Readers : WF_vars(ReaderStep(p)) /\ SF_vars(ReaderLock(p))
    /\ \A p \in Writers : WF_vars(WriterStep(p)) /\ SF_vars(WLock(p))
    /\ WF_vars(PurgeOldTrees)

Spec == Init /\ [][Next]_vars /\ Fairness

-----------------------------------------------------------------------------
(* Properties                                                              *)

HoldsTree == {"rlock_hit", "touch", "rlock_new", "read", "marshal", "w_lock", "w_apply"}

TypeOK ==
    /\ db \in [Users -> SUBSET Entries]
    /\ globalTrees \in [Users -> Inst \cup {None}]
    /\ \A i \in Inst : tree[i] = None \/ tree[i] \subseteq Entries
    /\ age \in [Users -> [read : Age(ReadTTL), sync : Age(SyncTTL)]]
    /\ \A p \in Procs : pc[p] \in HoldsTree => ref[p] \in Inst /\ tree[ref[p]] # None

\* Every request returns: no goroutine waits forever on a tree lock, however
\* readers, writers, loads, purges and the ticker interleave.
RequestsComplete == \A p \in Procs : pc[p] # "idle" ~> pc[p] = "idle"

\* A cached tree that disagrees with the source of record (a load that read
\* the rows before a write whose NewFSEntry found no tree, then installed)
\* is dropped eventually: nothing refreshes LastSynced, so the ticker's
\* five-minute cutoff bounds how long clients are served the stale tree.
StaleTreeEventuallyDropped ==
    \A u \in Users, i \in Inst :
        (globalTrees[u] = i /\ tree[i] # db[u]) ~> globalTrees[u] # i

\* Spec 5: a write that returned OK happens-before every later read of the
\* tenant: a reader holding the read lock sees every entry acknowledged
\* before its request began, unless the writer has changed it since (a
\* write in flight may be seen or not).
ReadYourWrites ==
    \A p \in Readers : pc[p] = "read" => owed[p] \subseteq tree[ref[p]]

\* No goroutine reads a tree while another writes it: Go aborts the process
\* on a map read concurrent with a map write.  FetchReplica's response is
\* marshalled after its deferred RUnlock.
NoUnlockedTreeRead ==
    \A p \in Readers : pc[p] = "marshal" => wlock[ref[p]] = None

\* Spec 4.4 and 4.7: a loaded tree starts with last_read = now, and the
\* ticker drops only trees unread for a minute or unsynced for five.
EvictOnlyIdle ==
    [][PurgeOldTrees =>
        \A u \in Users :
            Expired(u) => \/ Aged(u).read > ReadTTL /\ Aged(u).sync > ReadTTL
                          \/ Aged(u).sync > SyncTTL]_vars

\* No two goroutines write a tree's LastRead at once.  getReadableTree
\* assigns the time.Time holding only the tree's read lock, which any
\* number of readers share, as spec 4.3 step 3 prescribes; two readers of
\* one tenant then write it concurrently, and purgeOldTrees reads it under
\* globalTreesLock alone: a data race in the Go memory model, whose result
\* (a torn time.Time) the language leaves undefined.
LastReadExclusive ==
    \A p, q \in Readers :
        p # q /\ pc[p] = "touch" /\ pc[q] = "touch" => ref[p] # ref[q]

=============================================================================
