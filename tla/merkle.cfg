CONSTANT EXPONENT = 3
SPECIFICATION Spec
INVARIANTS TypeOK LayersAreTheTree VerifyDetects
PROPERTY CountsIntact
CHECK_DEADLOCK FALSE
