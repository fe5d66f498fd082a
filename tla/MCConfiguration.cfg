\* The deliveries are bounded.
SPECIFICATION FairSpec
CONSTANTS
    Messages <- MCMessages
    Periods <- MCPeriods
    MaxDeliveries = 4
    Nothing = Nothing
INVARIANTS TypeOK NoDanglingTree AppliedInOrder
PROPERTIES ParsesWhatArrived LastIsApplied MeasuresForever
CHECK_DEADLOCK FALSE
