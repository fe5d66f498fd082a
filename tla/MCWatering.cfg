\* The task may abort at its start, and a behaviour ends with its messages.
CONSTANTS
    VALVES_NUM = 2
    Instants <- MCInstants
    Messages <- MCMessages
    MaxMessages = 2
    MaxBusErrors = 1
    HeapSuffices = FALSE
    NULL = NULL
    Garbage = Garbage
SPECIFICATION FairSpec
INVARIANTS TypeOK MutualExclusion MemorySafe InstalledValid SnapshotConsistent
PROPERTIES SettledOutputs MessagesFinish ImplementsIrrigation
CHECK_DEADLOCK FALSE
