\* One tree under the root, as a well-formed record loads, and any NewFSEntry
\* request for a cached uid, one that names the uid as its own parent included.
CONSTANTS
    r = r
    a = a
    b = b
    c = c
    d = d
    Uids <- MCUids
    RootUid = r
    NoParent = NoParent
    NoHash = NoHash
    Resend = "any"
    Snapshot = "tree"
SPECIFICATION Spec
INVARIANT NoStuckRequest
