\* The search is over when the worker has its probes.
CONSTANTS
    BITS = 4
    Buses <- MCBuses
    Supported <- MCSupported
    ONE_WIRE_MAX_SENSORS_COUNT = 3
    MaxBusErrors = 1
    MaxMisreads = 1
SPECIFICATION FairSpec
INVARIANTS TypeOK FoundOnce AllFound
PROPERTIES SearchEnds
CHECK_DEADLOCK FALSE
