----------------------------- MODULE MerkleTree -----------------------------
(***************************************************************************)
(* One tenant's cached Merkle tree (merkle/tree.go, server.go): the loader *)
(* buildUserFSTree with the bottom-up hash CalculateTreeHashes, and the    *)
(* two mutations NewFSEntry and RemoveFSEntry with the ancestor walk       *)
(* RecalculateAncestorHashes.  Both mutations run under the tenant's write *)
(* lock, so each is one atomic step here; the concurrency around the lock  *)
(* is the subject of module Registry.                                      *)
(*                                                                         *)
(* Data abstraction.  A node id is a model value and doubles as the entry's*)
(* name, so a path is the sequence of names from the user's root ("/admin" *)
(* is <<admin>>, "/" is <<>>).  An entry's metadata keeps the four keys the*)
(* code interprets: uid, parent_uid, dirpath, path.  The 64-bit xxhash is  *)
(* modelled as an injective constructor: CalculateHash(m, hs) is the pair  *)
(* of the metadata and the set of child hashes.  Go sorts the child hash   *)
(* strings before feeding them, so only their multiset matters; it is a set*)
(* because two children never share a hash (each hash covers its own uid). *)
(***************************************************************************)
EXTENDS Naturals, FiniteSets, Sequences, TLC
LOCAL INSTANCE SequencesExt

CONSTANTS
    Uids,            \* node ids of this tenant (and the names in its paths)
    RootUid,         \* the user's root directory, path "/<RootUid>"
    NoParent,        \* the empty string "" stored as ParentUuid / parent_uid
    NoHash,          \* the empty string "" stored as MerkleHash
    Resend,          \* which cached uids NewFSEntry may be sent again:
                     \* "none", "retry" (the identical request, as a caller
                     \* retrying after a lost reply sends it) or "any"
    Snapshot         \* the rows the tree is loaded from: "tree" (one tree
                     \* under RootUid) or "any" (whatever the loader accepts)

ASSUME /\ RootUid \in Uids /\ NoParent \notin Uids
       /\ Resend \in {"none", "retry", "any"} /\ Snapshot \in {"tree", "any"}

VARIABLES
    nodes,   \* tree.Nodes: DOMAIN nodes is the set of cached uids
    status   \* "serving", or "panicked"/"crashed"/"hung" once a handler never returns

vars == <<nodes, status>>

Path == Seq(Uids)
Meta == [uid : Uids, parent_uid : Uids \cup {NoParent}, dirpath : Path, path : Path]

\* xxhash of the JSON metadata followed by the sorted child hash strings.
CalculateHash(meta, childrenHashes) == [meta |-> meta, kids |-> childrenHashes]

-----------------------------------------------------------------------------
(* merkle/tree.go                                                          *)

\* The hashes that a rehash of n feeds: existing children with a hash.
ChildHashes(t, n) ==
    { t[c].hash : c \in { c \in t[n].children \cap DOMAIN t : t[c].hash # NoHash } }

Rehash(t, n) == [t EXCEPT ![n].hash = CalculateHash(t[n].meta, ChildHashes(t, n))]

\* The fixed-point loop of CalculateTreeHashes.  A pass hashes every node
\* whose existing children are all processed; Go may also pick up, in the
\* same pass, a node whose children were hashed earlier in that pass, which
\* changes the number of passes but not a single hash.
\* Mutant: a single pass over the non-leaves, no loop to a fixed point.
HashPassesOnce(t, processed) ==
    LET ready == { n \in DOMAIN t \ processed : t[n].children \cap DOMAIN t \subseteq processed }
    IN  [n \in DOMAIN t |-> IF n \in ready THEN Rehash(t, n)[n] ELSE t[n]]

RECURSIVE HashPasses(_, _)
HashPasses(t, processed) ==
    LET ready == { n \in DOMAIN t \ processed : t[n].children \cap DOMAIN t \subseteq processed }
    IN  IF ready = {} THEN t
        ELSE HashPasses([n \in DOMAIN t |-> IF n \in ready THEN Rehash(t, n)[n] ELSE t[n]],
                        processed \cup ready)

CalculateTreeHashes(t) ==
    LET leaves == { n \in DOMAIN t : t[n].children = {} }
    IN  HashPasses([n \in DOMAIN t |->
                        IF n \in leaves THEN [t[n] EXCEPT !.hash = CalculateHash(t[n].meta, {})]
                                        ELSE t[n]],
                   leaves)

\* Walk ParentUuid links from nodeID, rehashing each node, until the parent
\* id is empty or unknown.  On a cycle of parent links the Go loop never
\* ends; a walk that visits more than |Uids| nodes has met one, and the
\* result says so with done = FALSE.
\* Mutant: the loop runs while the parent id is non-empty, so the root is
\* never rehashed.
RECURSIVE AncestorWalkSkipRoot(_, _, _)
AncestorWalkSkipRoot(t, cur, fuel) ==
    IF cur = NoParent \/ cur \notin DOMAIN t \/ t[cur].parent = NoParent
    THEN [tree |-> t, done |-> TRUE]
    ELSE IF fuel = 0 THEN [tree |-> t, done |-> FALSE]
    ELSE AncestorWalkSkipRoot(Rehash(t, cur), t[cur].parent, fuel - 1)

RECURSIVE AncestorWalk(_, _, _)
AncestorWalk(t, cur, fuel) ==
    IF cur = NoParent \/ cur \notin DOMAIN t THEN [tree |-> t, done |-> TRUE]
    ELSE IF fuel = 0 THEN [tree |-> t, done |-> FALSE]
    ELSE AncestorWalk(Rehash(t, cur), t[cur].parent, fuel - 1)

RecalculateAncestorHashes(t, nodeID) == AncestorWalk(t, nodeID, Cardinality(Uids))

\* GetAllDescendants: every id reachable through ChildrenUuids, including
\* listed children that are not in the tree (the recursion stops there).
RECURSIVE GetAllDescendants(_, _)
GetAllDescendants(t, frontier) ==
    LET next == frontier \cup UNION { t[n].children : n \in frontier \cap DOMAIN t }
    IN  IF next = frontier THEN frontier ELSE GetAllDescendants(t, next)

\* Mutant: only the direct children are collected.
DescendantsDirect(t, u) == t[u].children

Descendants(t, u) == GetAllDescendants(t, t[u].children)

\* The Go recursion has no visited set: a cycle of child links below u
\* makes it recurse until the goroutine's stack limit kills the process.
DescendantsOverflow(t, u) ==
    \E d \in Descendants(t, u) \cap DOMAIN t : d \in Descendants(t, d)

-----------------------------------------------------------------------------
(* server.go: buildUserFSTree                                              *)

\* A row of fsentries: uuid, parent_uid (NULL read as ""), path.
Row == [uuid : Uids, parent_uid : Uids \cup {NoParent}, path : Path]

\* buildMetadata: dirpath is filepath.Dir(path).
RowMeta(r) == [uid |-> r.uuid, parent_uid |-> r.parent_uid,
               dirpath |-> Front(r.path), path |-> r.path]

\* The root is the row whose path holds exactly one "/"; rows arrive in the
\* database's order and the last candidate wins, so any candidate may.
RootCandidates(rows) == { r.uuid : r \in { r \in rows : Len(r.path) = 1 } }

\* Nodes with children grouped by parent_uid (parents that are not rows of
\* the user get none), hashed bottom-up.  The choice of RootUuid among
\* RootCandidates, and the error when there is none, are in Init.
BuildUserFSTree(rows) ==
    CalculateTreeHashes(
        [u \in { r.uuid : r \in rows } |->
            LET r == CHOOSE r \in rows : r.uuid = u
            IN  [parent   |-> r.parent_uid,
                 children |-> { c.uuid : c \in { c \in rows : c.parent_uid = u } },
                 meta     |-> RowMeta(r),
                 hash     |-> NoHash]])

-----------------------------------------------------------------------------
(* server.go: NewFSEntry with getParentUUID and pathToUUID                 *)

\* pathToUUID scans the map in Go's random order: any node with that path.
PathToUUID(t, path) == { n \in DOMAIN t : t[n].meta.path = path }

\* getParentUUID: the set of parents the request may resolve to; empty is
\* an error ("parent_uuid is empty", "parent node not found", path lookup
\* failing).  On a dirpath/parent_uid mismatch dirpath is preferred.
GetParentUUID(t, meta) ==
    IF meta.parent_uid = NoParent \/ meta.parent_uid \notin DOMAIN t THEN {}
    ELSE IF meta.dirpath # t[meta.parent_uid].meta.path THEN PathToUUID(t, meta.dirpath)
    ELSE {meta.parent_uid}

\* Insert the node (replacing one with the same uid), add it to the parent
\* object fetched before the insert, hash it as a leaf, walk to the root.
\* When uid is its own parent the ChildrenUuids update lands on the old
\* object, which is no longer in the map.
\* Mutant: ParentUuid is filled with the parent's path (both are strings).
InsertNodeParentPath(t, uid, p, meta) ==
    LET newNode == [parent |-> meta.dirpath, children |-> {}, meta |-> meta,
                    hash |-> CalculateHash(meta, {})]
    IN  RecalculateAncestorHashes([((uid :> newNode) @@ t) EXCEPT ![p].children = @ \cup {uid}], uid)

InsertNode(t, uid, p, meta) ==
    LET newNode == [parent |-> p, children |-> {}, meta |-> meta,
                    hash |-> CalculateHash(meta, {})]
        t1 == (uid :> newNode) @@ t
        t2 == IF p = uid THEN t1 ELSE [t1 EXCEPT ![p].children = @ \cup {uid}]
    IN  RecalculateAncestorHashes(t2, uid)

\* The request's entry: uid, parent_uid and dirpath, and path = dirpath/uid.
NewFSEntry(uid, parentUid, dirpath) ==
    LET meta == [uid |-> uid, parent_uid |-> parentUid, dirpath |-> dirpath,
                 path |-> Append(dirpath, uid)]
    IN  /\ status = "serving"
        /\ \/ uid \notin DOMAIN nodes
           \/ Resend = "any"
           \/ Resend = "retry" /\ uid \in DOMAIN nodes /\ nodes[uid].meta = meta
        /\ \E p \in GetParentUUID(nodes, meta) :
              LET r == InsertNode(nodes, uid, p, meta)
              IN  /\ nodes' = r.tree
                  /\ status' = IF r.done THEN "serving" ELSE "hung"

-----------------------------------------------------------------------------
(* server.go: RemoveFSEntry                                                *)

\* The removal on tree t: the result's tree, and how the request ends:
\* "ok", "panicked" when the parent does not list the node (log.Panicf),
\* "crashed" when collecting the descendants overflows the stack, "hung"
\* when the ancestor walk meets a parent cycle.
RemoveNodeNoRecalc(t, uid) ==
    LET target == t[uid]
        t1 == [t EXCEPT ![target.parent].children = @ \ {uid}]
    IN  IF DescendantsOverflow(t, uid) THEN [tree |-> t, end |-> "crashed"]
        ELSE IF ~(target.parent \in DOMAIN t /\ uid \in t[target.parent].children)
        THEN [tree |-> t, end |-> "panicked"]
        ELSE [tree |-> [n \in DOMAIN t1 \ (Descendants(t, uid) \cup {uid}) |-> t1[n]],
              end |-> "ok"]

RemoveNode(t, uid) ==
    LET target == t[uid]
        t1 == [t EXCEPT ![target.parent].children = @ \ {uid}]
        t2 == [n \in DOMAIN t1 \ (Descendants(t, uid) \cup {uid}) |-> t1[n]]
        r == RecalculateAncestorHashes(t2, target.parent)
    IN  IF DescendantsOverflow(t, uid) THEN [tree |-> t, end |-> "crashed"]
        ELSE IF ~(target.parent \in DOMAIN t /\ uid \in t[target.parent].children)
        THEN [tree |-> t, end |-> "panicked"]
        ELSE [tree |-> r.tree, end |-> IF r.done THEN "ok" ELSE "hung"]

RemoveFSEntry(uid) ==
    /\ status = "serving"
    /\ uid \in DOMAIN nodes
    /\ uid # RootUid       \* callers never remove the user's root (spec 8)
    /\ LET r == RemoveNode(nodes, uid)
       IN  /\ nodes' = r.tree
           /\ status' = IF r.end = "ok" THEN "serving" ELSE r.end

-----------------------------------------------------------------------------

\* Well-formed snapshots of the user's rows: a tree of some of the Uids
\* under RootUid, every path the chain of names from the root.
RECURSIVE PathOf(_, _)
PathOf(par, u) == IF u = RootUid THEN <<RootUid>> ELSE Append(PathOf(par, par[u]), u)

ReachesRoot(par, u) ==
    \E k \in 0..Cardinality(DOMAIN par) :
        LET RECURSIVE Up(_, _)
            Up(x, i) == IF i = 0 THEN x ELSE IF x = RootUid THEN x ELSE Up(par[x], i - 1)
        IN  Up(u, k) = RootUid

TreeSnapshots ==
    UNION { { { [uuid |-> u,
                 parent_uid |-> IF u = RootUid THEN NoParent ELSE par[u],
                 path |-> PathOf(par, u)] : u \in S }
              : par \in { par \in [S \ {RootUid} -> S] :
                            \A u \in S \ {RootUid} : ReachesRoot(par, u) } }
            : S \in { S \in SUBSET Uids : RootUid \in S } }

\* Every snapshot the loader accepts: RootUid is a root candidate and any
\* other row's parent_uid is NULL or any uid, so rows may form cycles,
\* several roots or dangling parents; a row's path names its parent only.
AnySnapshots ==
    UNION { { { [uuid |-> u, parent_uid |-> par[u],
                 path |-> IF par[u] = NoParent THEN <<u>> ELSE <<par[u], u>>] : u \in S }
              : par \in { par \in [S -> Uids \cup {NoParent}] : par[RootUid] = NoParent } }
            : S \in { S \in SUBSET Uids : RootUid \in S } }

\* The tree getReadableTree caches: buildUserFSTree returns "root directory
\* not found" (nothing is cached) for rows without a root candidate, and
\* otherwise takes the last candidate in row order as RootUuid.  Any
\* candidate may come last; the model calls the chosen one RootUid.
Init ==
    /\ \E rows \in IF Snapshot = "tree" THEN TreeSnapshots ELSE AnySnapshots :
          /\ RootUid \in RootCandidates(rows)
          /\ nodes = BuildUserFSTree(rows)
    /\ status = "serving"

Next ==
    \/ \E uid, parentUid \in Uids, dirpath \in { nodes[n].meta.path : n \in DOMAIN nodes } :
          NewFSEntry(uid, parentUid, dirpath)
    \/ \E uid \in Uids : RemoveFSEntry(uid)

Spec == Init /\ [][Next]_vars

-----------------------------------------------------------------------------
(* merkle/debug.go                                                         *)

\* IntegrityCheck (merkle/debug.go) on one tree: TRUE when none of its
\* log.Panicf checks fires.  The root is cached; every other node has a
\* non-empty ParentUuid naming a cached node that lists it as a child and
\* whose path starts with the root's; every listed child is cached.  (Its
\* check that a node's Uuid equals its key holds by construction here: the
\* model keys nodes by uid.)
IntegrityCheck(t) ==
    /\ RootUid \in DOMAIN t
    /\ \A n \in DOMAIN t :
          /\ n # RootUid =>
                LET p == t[n].parent
                IN  /\ p # NoParent
                    /\ p \in DOMAIN t
                    /\ n \in t[p].children
                    /\ IsPrefix(t[RootUid].meta.path, t[p].meta.path)
          /\ t[n].children \subseteq DOMAIN t

-----------------------------------------------------------------------------
(* Properties                                                              *)

TypeOK ==
    /\ DOMAIN nodes \subseteq Uids
    /\ \A n \in DOMAIN nodes :
          /\ nodes[n].parent \in Uids \cup {NoParent}
          /\ nodes[n].children \subseteq Uids
          /\ nodes[n].meta \in Meta
    /\ status \in {"serving", "panicked", "crashed", "hung"}

\* The server's own IntegrityCheck, which debug builds run after every
\* NewFSEntry and RemoveFSEntry, passes in every reachable state.
Integrity == IntegrityCheck(nodes)

\* The hashes kept up by the incremental walks of NewFSEntry and
\* RemoveFSEntry are exactly those that a fresh bottom-up pass of
\* CalculateTreeHashes over the current structure would give (spec 8), so a
\* client comparing hashes sees a difference exactly where content differs.
HashesMatchFullRecompute ==
    nodes = CalculateTreeHashes([n \in DOMAIN nodes |-> [nodes[n] EXCEPT !.hash = NoHash]])

\* Spec 8 (scenario 3): creating a fresh entry under any cached directory
\* with NewFSEntry's insert and walk, then removing it with RemoveFSEntry's
\* delete and walk, gives back the same tree, structure and every hash.
CreateThenRemoveRestores ==
    status = "serving" =>
        \A uid \in Uids \ DOMAIN nodes, p \in DOMAIN nodes :
            LET meta == [uid |-> uid, parent_uid |-> p, dirpath |-> nodes[p].meta.path,
                         path |-> Append(nodes[p].meta.path, uid)]
            IN  RemoveNode(InsertNode(nodes, uid, p, meta).tree, uid).tree = nodes

\* NewFSEntry and RemoveFSEntry implement the entry tree of FileTree (spec
\* 4.5): read through the parent links of the cached nodes, every step adds
\* one leaf under a cached entry or deletes an entry with all the entries
\* below it, and the loaded tree is one tree under the root.
FT == INSTANCE FileTree WITH fs <- [u \in DOMAIN nodes |-> nodes[u].parent]

ImplementsFileTree == FT!Spec

\* No request leaves the tenant stuck: RemoveFSEntry never reaches its
\* log.Panicf, GetAllDescendants never recurses without end, and
\* RecalculateAncestorHashes never loops on a parent cycle.
NoStuckRequest == status = "serving"

=============================================================================
