\* A byte of two bits, and one of them at most, so that a recording of a byte
\* can be taken for that of a bit and the other way round.
SPECIFICATION FairSpec
CONSTANTS
    BYTE = 2
    MAX_RX_BYTES = 1
    ONEWIRE_RMT_DEFAULT_TRANS_QUEUE_SIZE = 2
INVARIANTS TypeOK Truthful
PROPERTIES CallsReturn
