SPECIFICATION Spec
CONSTANTS
    LINES = 2
    CHANNELS = 2
    p1 = p1
    p2 = p2
    Probes <- MCProbes
    ONE_WIRE_MAX_SENSORS_COUNT = 2
    MaxTriggers = 3
    Bounds <- ReadBounds
    Garbage = Garbage
INVARIANTS TemperatureAsDocumented
CHECK_DEADLOCK FALSE
