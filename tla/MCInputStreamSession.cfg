SPECIFICATION Spec
CONSTANTS
    Pads <- SomePads
    Files <- SomeFiles
    Missing = Missing
    MaxQueue = 2
INVARIANTS
    ControllerShowsInput
    SticksMonotone
PROPERTIES
    InputArrives
CHECK_DEADLOCK FALSE
