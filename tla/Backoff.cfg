CONSTANT MaxTry = 70
SPECIFICATION Spec
INVARIANT WaitsWithinBounds
