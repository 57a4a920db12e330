SPECIFICATION Spec
CONSTANTS
    NUM_SENSORS = 2
    BUFFER_SIZE = 2
    MaxFailures = 1
INVARIANTS
    SocketsBounded
    LossNeedsRace
    IInv
PROPERTIES
    ImplementsStack
    DashboardSettles
    ReadingsPopped
