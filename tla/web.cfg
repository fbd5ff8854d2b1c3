SPECIFICATION Spec
SYMMETRY Symmetry
CONSTANTS
    u1 = u1
    u2 = u2
    u3 = u3
    Users = {u1, u2, u3}
    Accounts = {u1, u2}
    MaxChanges = 2
    FetchSlots = {f1, f2}
    MaxPushes = 2
    Null = Null
INVARIANTS
    TypeOK
    StorageIsSession
    ShownIsOwn
    RequestsCarryToken
    ListIsServers
CHECK_DEADLOCK FALSE
