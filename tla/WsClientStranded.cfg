CONSTANT MaxTry = 1
SPECIFICATION Spec
INVARIANT NeverStranded
