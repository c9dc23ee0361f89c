\* A rebuilt entry while a call refreshes the schema.
CONSTANTS
    Callers = {c1, c2}
    MaxVersion = 2
    MaxRebuilds = 1
    MaxFailures = 0
SPECIFICATION Spec
SYMMETRY CallerSymmetry
INVARIANTS
    ReturnedPopulated
CHECK_DEADLOCK FALSE
