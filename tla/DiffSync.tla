------------------------------ MODULE DiffSync ------------------------------
(***************************************************************************)
(* One tenant end to end: the source of record, the cached tree of the     *)
(* registry, the tenant's writer, and a client that keeps a replica in     *)
(* sync through FetchReplica and PullDiff (server.go).                     *)
(*                                                                         *)
(* The record is the user's fsentries rows.  The upstream writer changes   *)
(* them, then sends NewFSEntry or RemoveFSEntry, which MerkleTree's        *)
(* actions apply to the cached tree when there is one.  A client request   *)
(* on a cached tree runs under its read lock (one step, which also sets    *)
(* LastRead); on a miss it loads the rows outside every lock and installs  *)
(* the tree later, with LastRead left at zero, so a write can fall between *)
(* the two and the installed tree miss it.  The ticker drops trees past    *)
(* the read or sync TTL.  The interleavings of several readers and the     *)
(* locks are Registry's subject; here there is one client.                 *)
(*                                                                         *)
(* The client is not in this repository; it follows spec 1 and 4.6: it     *)
(* fetches the full replica on first contact, then sends a (uuid, hash)    *)
(* pair for every node it holds, takes each push item's hash and one level *)
(* of children, pulls again against children it has not yet caught up,     *)
(* and prunes nodes no longer reachable from the root.                     *)
(*                                                                         *)
(* Every row of the record here has its accessed column set.  For a NULL   *)
(* accessed buildUserFSTree substitutes the load's time.Now() (server.go   *)
(* 540-543), so each reload hashes an unchanged row differently (module    *)
(* RowMetadata); the claims below are about records without such rows.     *)
(***************************************************************************)
EXTENDS Naturals, FiniteSets, Sequences

CONSTANTS Uids, RootUid, NoParent, NoHash,
          MaxWrites,   \* writes the upstream writer makes
          ReadTTL,     \* ticks after LastRead before a purge (1 min)
          SyncTTL      \* ticks after LastSynced before a purge (5 min)

VARIABLES
    nodes, status,   \* the cached tree (MerkleTree's variables)
    cached,          \* globalTrees holds the user's tree
    age,             \* ticks since LastRead / LastSynced, saturated
    db,              \* the user's fsentries rows
    wreq,            \* the writer's request in flight, or NoReq
    writes,          \* writes made so far
    used,            \* uuids the record ever held (uuids are never reused)
    cpc,             \* the client request: "idle", "load" or "install"
    loaded,          \* the tree its buildUserFSTree built from the rows
    replica          \* the client's replica: uid -> [hash, children]

vars == <<nodes, status, cached, age, db, wreq, writes, used, cpc, loaded, replica>>

\* The request contract of NewFSEntry is "any": a create may reach a tree
\* loaded after the record already had the entry.
M == INSTANCE MerkleTree WITH Resend <- "any", Snapshot <- "tree"

\* buildUserFSTree on each record the writer can reach: the record is a
\* tree under the root in every state (creates go under an existing row
\* with its path, removals take a row's whole subtree).  With accessed set
\* in every row, the metadata, and so the tree, depends on the rows alone.
Built == [rows \in M!TreeSnapshots |-> M!BuildUserFSTree(rows)]

NoReq == [kind |-> "none"]
NeverRead == ReadTTL + 1

\* What a client learns of a node: its hash and its children's ids.
View(t) == [u \in DOMAIN t |-> [hash |-> t[u].hash, children |-> t[u].children]]

-----------------------------------------------------------------------------
(* server.go: PullDiff                                                     *)

\* Mutant: the push item carries no children.
PushItemNoChildren(t, u) == [uuid |-> u, hash |-> t[u].hash, children |-> {}]

\* The node with one level of children, each with its hash and no
\* grandchildren; children missing from the tree are left out.
PushItem(t, u) ==
    [uuid |-> u, hash |-> t[u].hash,
     children |-> { [uuid |-> c, hash |-> t[c].hash] : c \in t[u].children \cap DOMAIN t }]

\* An item for every observed uuid the tree holds with another hash;
\* unknown uuids are skipped.
PullDiff(t, obs) ==
    { PushItem(t, o.uuid) : o \in { o \in obs : o.uuid \in DOMAIN t /\ t[o.uuid].hash # o.hash } }

-----------------------------------------------------------------------------
(* The client (spec 4.6)                                                   *)

Observations(rep) == { [uuid |-> u, hash |-> rep[u].hash] : u \in DOMAIN rep }

\* Apply a response: an item's node takes the server's hash and children;
\* a child the client lacks is added with no hash, so that the next pull
\* asks for it; a child it has keeps its own hash until it is pulled.  Then
\* nodes unreachable from the root are dropped.
ApplyPush(rep, resp) ==
    LET ids  == { it.uuid : it \in resp }
        item(u) == CHOOSE it \in resp : it.uuid = u
        kids == UNION { { c.uuid : c \in it.children } : it \in resp } \ DOMAIN rep
        rep2 == [u \in DOMAIN rep \cup kids |->
                    IF u \in ids THEN [hash |-> item(u).hash,
                                       children |-> { c.uuid : c \in item(u).children }]
                    ELSE IF u \in DOMAIN rep THEN rep[u]
                    ELSE [hash |-> NoHash, children |-> {}]]
        reach == {RootUid} \cup M!GetAllDescendants(rep2, rep2[RootUid].children)
    IN  [u \in DOMAIN rep2 \cap reach |-> rep2[u]]

-----------------------------------------------------------------------------
(* The source of record and the upstream writer (spec 1, 9)                *)

PathIn(rows, u) == (CHOOSE r \in rows : r.uuid = u).path

\* The writer adds an entry under a directory the record holds, or deletes
\* an entry with every row below it, then sends the request.
StartCreate(u, p) ==
    /\ wreq = NoReq /\ writes < MaxWrites
    /\ u \notin used /\ p \in { r.uuid : r \in db }
    /\ db' = db \cup {[uuid |-> u, parent_uid |-> p, path |-> Append(PathIn(db, p), u)]}
    /\ wreq' = [kind |-> "create", uid |-> u, parent |-> p, dirpath |-> PathIn(db, p)]
    /\ writes' = writes + 1
    /\ used' = used \cup {u}
    /\ UNCHANGED <<nodes, status, cached, age, cpc, loaded, replica>>

StartRemove(u) ==
    /\ wreq = NoReq /\ writes < MaxWrites
    /\ u \in { r.uuid : r \in db } \ {RootUid}
    /\ db' = { r \in db : \A i \in 1..Len(r.path) : r.path[i] # u }
    /\ wreq' = [kind |-> "remove", uid |-> u]
    /\ writes' = writes + 1
    /\ UNCHANGED <<nodes, status, cached, age, used, cpc, loaded, replica>>

\* getWritableTree, then the handler under the write lock.  With no cached
\* tree, or a parent or entry the cached tree lacks, the request fails and
\* the cache keeps what it had.
\* The handler runs on a cached tree unless getParentUUID finds no parent or
\* the entry to remove is missing (NOT_FOUND).
Handles(w) ==
    /\ cached /\ status = "serving"
    /\ IF w.kind = "create"
       THEN M!GetParentUUID(nodes, [parent_uid |-> w.parent, dirpath |-> w.dirpath]) # {}
       ELSE w.uid \in DOMAIN nodes \ {RootUid}

WriteRPC ==
    /\ wreq # NoReq
    /\ IF Handles(wreq)
       THEN IF wreq.kind = "create"
            THEN M!NewFSEntry(wreq.uid, wreq.parent, wreq.dirpath)
            ELSE M!RemoveFSEntry(wreq.uid)
       ELSE UNCHANGED <<nodes, status>>
    /\ wreq' = NoReq
    /\ UNCHANGED <<cached, age, db, writes, used, cpc, loaded, replica>>

-----------------------------------------------------------------------------
(* The client's requests through getReadableTree                           *)

\* FetchReplica on first contact, PullDiff afterwards, on tree t.
Respond(t) ==
    IF DOMAIN replica = {} THEN View(t)
    ELSE ApplyPush(replica, PullDiff(t, Observations(replica)))

\* A hit: RLock, LastRead = now, the response, RUnlock.
ReadHit ==
    /\ cpc = "idle" /\ cached
    /\ age' = [age EXCEPT !.read = 0]
    /\ replica' = Respond(nodes)
    /\ UNCHANGED <<nodes, status, cached, db, wreq, writes, used, cpc, loaded>>

\* A miss: checkMemoryUsage passes; then buildUserFSTree reads the rows and
\* builds the tree, outside every lock.
ReadMiss ==
    /\ cpc = "idle" /\ ~cached
    /\ cpc' = "load"
    /\ UNCHANGED <<nodes, status, cached, age, db, wreq, writes, used, loaded, replica>>

Load ==
    /\ cpc = "load"
    /\ loaded' = Built[db]
    /\ cpc' = "install"
    /\ UNCHANGED <<nodes, status, cached, age, db, wreq, writes, used, replica>>

\* NewTree (LastSynced = now, LastRead zero), the map write, RLock and the
\* response on the new tree.
Install ==
    /\ cpc = "install"
    /\ nodes' = loaded
    /\ cached' = TRUE
    /\ age' = [read |-> NeverRead, sync |-> 0]
    /\ replica' = Respond(loaded)
    /\ cpc' = "idle"
    /\ loaded' = <<>>
    /\ UNCHANGED <<status, db, wreq, writes, used>>

\* The client is one sequential process with one step enabled at a time,
\* so weak fairness of its steps taken together carries each request
\* through load and install.
Client == ReadHit \/ ReadMiss \/ Load \/ Install

-----------------------------------------------------------------------------
(* purgeOldTrees on the one-minute ticker                                  *)

Aged == [read |-> IF age.read > ReadTTL THEN age.read ELSE age.read + 1,
         sync |-> IF age.sync > SyncTTL THEN age.sync ELSE age.sync + 1]

\* Mutant: only LastRead is compared with its cutoff.
ExpiredReadOnly == cached /\ Aged.read > ReadTTL

Expired == cached /\ (Aged.read > ReadTTL \/ Aged.sync > SyncTTL)

Tick ==
    /\ cached' = (cached /\ ~Expired)
    /\ age' = IF Expired THEN [read |-> 0, sync |-> 0] ELSE Aged
    /\ nodes' = IF Expired THEN <<>> ELSE nodes
    /\ UNCHANGED <<status, db, wreq, writes, used, cpc, loaded, replica>>

-----------------------------------------------------------------------------

Init ==
    /\ \E rows \in M!TreeSnapshots : db = rows
    /\ nodes = <<>>
    /\ status = "serving"
    /\ cached = FALSE
    /\ age = [read |-> 0, sync |-> 0]
    /\ wreq = NoReq
    /\ writes = 0
    /\ used = { r.uuid : r \in db }
    /\ cpc = "idle"
    /\ loaded = <<>>
    /\ replica = <<>>

Next ==
    \/ \E u, p \in Uids : StartCreate(u, p)
    \/ \E u \in Uids : StartRemove(u)
    \/ WriteRPC
    \/ Client
    \/ Tick

\* The writer's requests are served and the ticker fires; the client syncs
\* periodically (spec 4.6); the writer need not write.
Spec == Init /\ [][Next]_vars /\ WF_vars(WriteRPC) /\ WF_vars(Tick) /\ WF_vars(Client)

-----------------------------------------------------------------------------
(* Properties                                                              *)

\* A node's content below it: metadata and child links, no hashes.
Subtree(t, u) ==
    [n \in ({u} \cup M!Descendants(t, u)) \cap DOMAIN t |->
        [meta |-> t[n].meta, children |-> t[n].children]]

\* Spec 8 (scenario 2): whenever the cached tree changes in place (a
\* NewFSEntry or RemoveFSEntry), a PullDiff with the client's hashes from
\* before returns exactly the nodes still present whose subtree changed:
\* the node written under and its ancestors up to the root, nothing else.
DiffIsExactChange ==
    [][cached /\ cached' =>
        { it.uuid : it \in PullDiff(nodes', Observations(View(nodes))) }
          = { u \in DOMAIN nodes \cap DOMAIN nodes' : Subtree(nodes, u) # Subtree(nodes', u) }
      ]_vars

\* Spec 1 and 4.6: once the writer stops, the client's replica comes to
\* match the tree the record defines, every node, hash and child link, for
\* a record whose rows all have accessed set (with a NULL one every reload
\* rehashes the row, and the ticker reloads at least once per sync TTL):
\* even when a load read the rows before a write whose request found no
\* cached tree and installed a tree without it, the ticker's sync cutoff
\* drops that tree and a later request loads the record again.
ConvergesToRecord == <>[](replica = View(Built[db]))

=============================================================================
