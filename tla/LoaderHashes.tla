--------------------------- MODULE LoaderHashes ---------------------------
(***************************************************************************)
(* buildUserFSTree and CalculateTreeHashes (server.go, merkle/tree.go) run *)
(* on every snapshot of a small user's fsentries rows, well-formed or not: *)
(* rows whose parent_uid is NULL, names a row of the user, names none, or  *)
(* closes a cycle.  The module has no state: its checks quantify over     *)
(* every snapshot, and MC_MerkleTree states them as invariants.            *)
(***************************************************************************)
EXTENDS Naturals, FiniteSets, Sequences

CONSTANTS r, a, b, c, NoParent, NoHash,
          TreeUids   \* the uids of the trees checked besides the snapshots

ASSUME {r, a, b, c} \subseteq TreeUids

Ids == {r, a, b, c}

Seqs == INSTANCE SequencesExt

T == INSTANCE MerkleTree WITH Uids <- TreeUids, RootUid <- r, Resend <- "none", Snapshot <- "tree",
                              nodes <- <<>>, status <- "serving"

\* A row's path has one "/" exactly when its parent_uid is NULL.
RowOf(u, p) == [uuid |-> u, parent_uid |-> p,
                path |-> IF p = NoParent THEN <<u>> ELSE <<p, u>>]

Snapshots ==
    UNION { { { RowOf(u, par[u]) : u \in S } : par \in [S -> Ids \cup {NoParent}] }
            : S \in SUBSET Ids }

Loaded(rows) == T!BuildUserFSTree(rows)

-----------------------------------------------------------------------------
(* Reference: the Merkle hash of spec 4.1 defined by recursion on the tree *)

Below(t, n) == T!Descendants(t, n) \cap DOMAIN t

\* n lies on a cycle of child links or above one.
AboveCycle(t, n) == \E m \in Below(t, n) \cup {n} : m \in Below(t, m)

RECURSIVE RefHash(_, _)
RefHash(t, n) == T!CalculateHash(t[n].meta, { RefHash(t, k) : k \in t[n].children \cap DOMAIN t })

\* The fixed-point sweep of CalculateTreeHashes gives every node the hash
\* that the recursive definition gives, and leaves exactly the nodes on or
\* above a cycle without a hash, whatever the shape of the rows.
SweepMatchesReference(rows) ==
    LET t == Loaded(rows)
    IN  \A n \in DOMAIN t :
            t[n].hash = IF AboveCycle(t, n) THEN NoHash ELSE RefHash(t, n)

\* The tree with only the leaves hashed, as before any ancestor walk.
LeafHashed(t) ==
    [n \in DOMAIN t |-> [t[n] EXCEPT !.hash = IF t[n].children = {}
                                              THEN T!CalculateHash(t[n].meta, {}) ELSE NoHash]]

WalkFrom(t, n) == T!RecalculateAncestorHashes(t, n).tree

\* Spec 8: on a tree without cycles, hashing the leaves and then running
\* RecalculateAncestorHashes from every node, in any order (a topological
\* one among them), gives the hashes of CalculateTreeHashes' full pass:
\* the incremental walk and the bottom-up sweep agree.
WalksAgree(rows) ==
    LET t == Loaded(rows)
    IN  (\A n \in DOMAIN t : ~AboveCycle(t, n)) =>
            \A order \in Seqs!SetToSeqs(DOMAIN t) :
                Seqs!FoldLeft(WalkFrom, LeafHashed(t), order) = t


\* Each check's verdict on every snapshot, computed once.
SweepOK == [rows \in Snapshots |-> SweepMatchesReference(rows)]
WalksOK == [rows \in Snapshots |-> WalksAgree(rows)]

=============================================================================
