CONSTANTS
    Byte = 4
    CtrlSize = 2
    FcsSize = 1
    HandlerMax = 3
    PayloadMax = 7
    Callbacks = {"number", "log", "trim", "grow"}
    Blocks <- MCBlocks
    Settings <- MCSettings
    MaxFrames = 6
    MaxChanges = 4
SPECIFICATION Spec
INVARIANTS ReceivedAsAttached KindsKnown FieldsControlled
