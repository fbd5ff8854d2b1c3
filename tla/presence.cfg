\* Two stations, two tabs of one user, connections lost and made again.
SPECIFICATION Spec
CONSTANTS
    m1 = m1
    m2 = m2
    t1 = t1
    t2 = t2
    u1 = u1
    Macs = {m1, m2}
    Verifiers = {m2}
    Tabs = {t1, t2}
    Users = {u1}
    Account <- MCAccount
    MaxSockets = 3
    MaxTasks = 1
    Null = Null
CHECK_DEADLOCK FALSE
INVARIANTS TypeOK LastRegistrationWins OnlineIsTrue StationReachable
