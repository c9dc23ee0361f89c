\* Two concurrent calls, one schema change, one rebuild.
CONSTANTS
    Callers = {c1, c2}
    MaxVersion = 2
    MaxRebuilds = 1
    MaxFailures = 1
SPECIFICATION FairSpec
INVARIANTS
    TypeOK
    NoMixedSchema
PROPERTIES
    SchemaConverges
CHECK_DEADLOCK FALSE
