\* A caller retries a NewFSEntry that had already been applied (an overwrite, spec 8).
CONSTANTS
    r = r
    a = a
    b = b
    c = c
    d = d
    Uids <- MCUids
    RootUid = r
    NoParent = NoParent
    NoHash = NoHash
    Resend = "retry"
    Snapshot = "tree"
SYMMETRY MCSymmetry
SPECIFICATION Spec
INVARIANT NoStuckRequest
