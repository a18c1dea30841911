\* One tenant under the caller contract: NewFSEntry is sent fresh uids.
CONSTANTS
    r = r
    a = a
    b = b
    c = c
    d = d
    Uids <- MCUids
    RootUid = r
    NoParent = NoParent
    NoHash = NoHash
    Resend = "none"
    Snapshot = "tree"
SYMMETRY MCSymmetry
SPECIFICATION Spec
INVARIANT TypeOK
INVARIANT Integrity
INVARIANT HashesMatchFullRecompute
INVARIANT CreateThenRemoveRestores
INVARIANT BottomUpHashMatchesReference
INVARIANT WalksMatchBottomUp
PROPERTY ImplementsFileTree
