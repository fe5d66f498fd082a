\* The faults are bounded, and a start that failed is final without a restart.
SPECIFICATION FairSpec
CONSTANTS
    WIFI_RECONNECT_ATTEMPTS = 2
    Macs = {"hyphens", "digits"}
    MaxWifiFailures = 4
    MaxMqttFailures = 2
    MaxChipFailures = 1
    MaxRestarts = 2
    MaxServerCrashes = 1
INVARIANTS TypeOK FailureExplained StartedIsKnown
PROPERTIES StartsUnlessFailed
CHECK_DEADLOCK FALSE
