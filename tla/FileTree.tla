------------------------------ MODULE FileTree ------------------------------
(***************************************************************************)
(* What the Mutation API promises (spec 3 and 4.5): a tenant's entries     *)
(* form one tree under the root, linked by parent_uid; creating an entry   *)
(* adds a leaf under an existing entry, removing one deletes it with       *)
(* everything below it.  Hashes, paths and locks are left out: this is the *)
(* tree that the cached Merkle tree must always stand for.                 *)
(***************************************************************************)
EXTENDS Naturals, FiniteSets

CONSTANTS Uids, RootUid, NoParent

VARIABLE fs     \* entry -> its parent entry, NoParent for the root

\* u reaches the root by following parent links, in at most |Uids| steps.
RECURSIVE Climbs(_, _, _)
Climbs(f, u, k) ==
    \/ u = RootUid
    \/ k > 0 /\ f[u] \in DOMAIN f /\ Climbs(f, f[u], k - 1)

IsTree(f) ==
    /\ RootUid \in DOMAIN f
    /\ f[RootUid] = NoParent
    /\ \A u \in DOMAIN f : Climbs(f, u, Cardinality(Uids))

\* The entries strictly below u, by parent links.
Below(f, u) == { v \in DOMAIN f \ {u} : \E k \in 0..Cardinality(Uids) :
                    LET RECURSIVE Up(_, _)
                        Up(x, i) == IF i = 0 \/ x \notin DOMAIN f THEN x ELSE Up(f[x], i - 1)
                    IN  Up(v, k) = u }

Init == fs \in { f \in UNION { [S -> Uids \cup {NoParent}] : S \in SUBSET Uids } : IsTree(f) }

Create(uid, p) ==
    /\ uid \notin DOMAIN fs
    /\ p \in DOMAIN fs
    /\ fs' = [v \in DOMAIN fs \cup {uid} |-> IF v = uid THEN p ELSE fs[v]]

Remove(uid) ==
    /\ uid \in DOMAIN fs \ {RootUid}
    /\ fs' = [v \in DOMAIN fs \ (Below(fs, uid) \cup {uid}) |-> fs[v]]

Next == \/ \E uid, p \in Uids : Create(uid, p)
        \/ \E uid \in Uids : Remove(uid)

Spec == Init /\ [][Next]_fs

\* The entries always form one tree under the root.
AlwaysTree == IsTree(fs)
=============================================================================
