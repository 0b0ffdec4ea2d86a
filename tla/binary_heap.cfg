SPECIFICATION Spec
CONSTANTS
    Elements <- SixElements
    Capacity = 5
    NoElement <- None
INVARIANTS
    TypeOK
PROPERTIES
    ImplementsQueue
