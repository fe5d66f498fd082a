SPECIFICATION FairSpec
CONSTANTS
    WIFI_RECONNECT_ATTEMPTS = 2
    Macs = {"digits"}
    MaxWifiFailures = 0
    MaxMqttFailures = 0
    MaxChipFailures = 1
    MaxRestarts = 1
    MaxServerCrashes = 0
PROPERTIES RegistrationAnswered
CHECK_DEADLOCK FALSE
