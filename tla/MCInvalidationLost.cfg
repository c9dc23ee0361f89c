\* A schema change while a call refreshes the schema.
CONSTANTS
    Callers = {c1, c2}
    MaxVersion = 2
    MaxRebuilds = 0
    MaxFailures = 0
SPECIFICATION Spec
SYMMETRY CallerSymmetry
INVARIANTS
    InvalidationHonoured
CHECK_DEADLOCK FALSE
