--------------------------- MODULE MC_DiffSync ---------------------------
(* Model-checking instance of DiffSync: a root and three other entries.   *)
EXTENDS DiffSync

CONSTANTS r, a, b, c

MCUids == {r, a, b, c}
=============================================================================
