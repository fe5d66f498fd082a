\* Devices of two families that differ in the lowest bit.
CONSTANTS
    BITS = 4
    Buses <- MCBuses
    Supported <- MCSupported
    ONE_WIRE_MAX_SENSORS_COUNT = 4
    MaxBusErrors = 0
    MaxMisreads = 0
SPECIFICATION Spec
INVARIANT NotFoundIsTheEnd
CHECK_DEADLOCK FALSE
