--------------------------- MODULE MC_MerkleTree ---------------------------
(* Model-checking instance of MerkleTree: a root and four other entries.  *)
EXTENDS MerkleTree

CONSTANTS r, a, b, c, d

MCUids == {r, a, b, c, d}

\* The loader's checks, on every snapshot of rows of r, a, b and c.
LH == INSTANCE LoaderHashes WITH TreeUids <- MCUids

\* The rows the current tree stands for.
TreeRows == { [uuid |-> u, parent_uid |-> nodes[u].parent, path |-> nodes[u].meta.path]
              : u \in DOMAIN nodes }

\* buildUserFSTree's fixed-point sweep gives every node the recursive
\* Merkle hash, and no hash to a node on or above a cycle
\* (CalculateTreeHashes): on every snapshot of four rows, malformed ones
\* included, and on the rows of every tree the creates and removes reach.
BottomUpHashMatchesReference ==
    /\ \A rows \in LH!Snapshots : LH!SweepOK[rows]
    /\ LH!SweepMatchesReference(TreeRows)

\* RecalculateAncestorHashes run from every node, in any order, after the
\* leaves are hashed, agrees with CalculateTreeHashes on the same rows.
WalksMatchBottomUp ==
    /\ \A rows \in LH!Snapshots : LH!WalksOK[rows]
    /\ LH!WalksAgree(TreeRows)

\* The non-root ids play interchangeable roles in every definition.
MCSymmetry == Permutations({a, b, c, d})
=============================================================================
