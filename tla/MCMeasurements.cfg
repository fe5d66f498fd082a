\* The triggers are bounded, and a round after a broken search may halt the CPU.
SPECIFICATION FairSpec
CONSTANTS
    LINES = 2
    CHANNELS = 2
    p1 = p1
    p2 = p2
    Probes <- MCProbes
    ONE_WIRE_MAX_SENSORS_COUNT = 2
    MaxTriggers = 3
    Bounds <- MCBounds
    Garbage = Garbage
INVARIANTS TypeOK AnalogOwn Dht11Own TemperatureOwn ReadingsInBlock
PROPERTIES MuxStable RoundsComplete
CHECK_DEADLOCK FALSE
