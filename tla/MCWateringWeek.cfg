\* 21 weeks minute by minute; they end, so the deadlock check is off.
CONSTANTS
    LastYear = 2101
    Days = 8
    Scenarios <- MCScenarios
SPECIFICATION WeekSpec
INVARIANTS WeekTypeOK WeekdayCorrect WateredAsPromised
PROPERTY SwitchesAtBoundaries
CHECK_DEADLOCK FALSE
