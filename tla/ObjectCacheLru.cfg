SPECIFICATION HSpec
CONSTANTS
    Key = {k1, k2, k3}
    Value = {v1, v2}
    Capacities <- MCCapacities
    Failed = Failed
PROPERTY EvictsLeastRecentlyUsed
