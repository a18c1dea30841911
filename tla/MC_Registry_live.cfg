\* One reader goroutine and the tenant's writer, under the fairness of
\* Registry!Fairness; TTLs of 1 and 2 ticks.
CONSTANTS
    u1 = u1
    e1 = e1
    e2 = e2
    r1 = r1
    r2 = r2
    w1 = w1
    None = None
    Users = {u1}
    Entries = {e1, e2}
    Parent <- MCParent
    Readers = {r1}
    Writers = {w1}
    Inst <- MCInstSmall
    ReadTTL = 1
    SyncTTL = 2
SPECIFICATION Spec
INVARIANT TypeOK
PROPERTY RequestsComplete
PROPERTY StaleTreeEventuallyDropped
