--------------------------- MODULE MC_Registry ---------------------------
(* Model-checking instance of Registry: one user, a directory e1 and a    *)
(* file e2 in it, reader goroutines and the user's writer.                 *)
EXTENDS Registry

CONSTANTS u1, e1, e2, r1, r2, w1

\* Objects alive at once: the cached one and one per request.
\* e1 lives in the root, e2 in e1.
MCParent == [e \in {e1, e2} |-> IF e = e2 THEN e1 ELSE None]

\* The runs with the directory e1 alone.
MCParentOne == [e \in {e1} |-> None]

MCInst == 1..4

\* With one reader and the writer, at most three objects are alive.
MCInstSmall == 1..3
=============================================================================
