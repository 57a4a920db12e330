SPECIFICATION MCSpec
CONSTANTS
    NUM_SENSORS = 3
    MSG_QUEUE_SIZE = 2
    NS_PER_SEC = 2
    LONG_MAX = 1
    MaxSec = 1
INVARIANTS
    LatencyExact
    NoLostWakeup
    IInv
PROPERTIES
    ImplementsFifo
    MessagesReceived
    SleepersWoken
