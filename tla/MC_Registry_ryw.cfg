\* Two readers load the same tenant's tree at once while its writer writes.
CONSTANTS
    u1 = u1
    e1 = e1
    e2 = e2
    r1 = r1
    r2 = r2
    w1 = w1
    None = None
    Users = {u1}
    Entries = {e1}
    Parent <- MCParentOne
    Readers = {r1, r2}
    Writers = {w1}
    Inst <- MCInst
    ReadTTL = 1
    SyncTTL = 2
SPECIFICATION Spec
INVARIANT ReadYourWrites
