\* One door, three codes; the cache and the queue hold two entries and an
\* answer of the server may have one more.  No symmetry: liveness is checked.
CONSTANTS
    Pins = {d1}
    Codes = {k1, k2, k3}
    MAX_SYNC_ENTRIES = 2
    MAX_LOG_QUEUE = 2
    MaxAnswer = 3
    Null = Null
SPECIFICATION FairSpec
INVARIANTS TypeOK OfflineOnce
PROPERTIES ReturnsToLoop LogsDrained
