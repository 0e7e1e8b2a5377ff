SPECIFICATION Spec
CONSTANTS
    Domains <- MCDomains
    Thresholds <- MCThresholds
    Netlists <- MCNetlists
INVARIANTS TypeOK FaninIsExact LevelsAreTopological LevelsAreDepths LayoutIsRenaming
           StoredInTraversalOrder TimesMatchPaths LaunchExplainsArrival AbortsForCause
PROPERTIES NoDataRaces Terminates
CHECK_DEADLOCK FALSE
