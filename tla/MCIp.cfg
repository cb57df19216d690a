SPECIFICATION MCSpec
CONSTANTS
    v4 = v4
    w4 = w4
    v6 = v6
    Keys <- BothFamilies
    Ipv6Keys <- OnlyV6
    Lengths = {1, 2}
    Unit = 2
    kMaxFragmentsPerEntry = 3
    max_payload_bytes = 5
    max_entries_ = 2
    max_total_bytes_ = 8
    expires_ms = 2
    MaxPause = 1
    MaxTime = 2
SYMMETRY Symmetric
CHECK_DEADLOCK FALSE
INVARIANTS ReassemblyExact  ReportsRespected
PROPERTY DiscardedStays
