SPECIFICATION Spec
CONSTANTS
    Domains <- MCDomains
    Thresholds <- MCThresholds
    Netlists <- MCTwoClocks
INVARIANT NeverAborts
CHECK_DEADLOCK FALSE
