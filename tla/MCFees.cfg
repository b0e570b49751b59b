SPECIFICATION Spec
CONSTANTS
    MaxPrice = 60
    SampleBps = {0, 1, 250, 3333, 9999, 10000}
    SampleFlat = {0, 1, 5}
    SampleMinimum = {0, 1, 4}
INVARIANT
    FeeRoundsDown
PROPERTIES
    AcceptanceIsUpward
CHECK_DEADLOCK FALSE
