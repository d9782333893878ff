\* Two processes that start, fail and start again.
CONSTANTS
    a = a
    b = b
    edited = edited
    Processes = {p1, p2}
    Nobody = Nobody
    Versions = {1, 2}
    Bodies = {a, b, edited}
    None = None
    Builds <- MCBuilds
    MaxTroubles = 2
SPECIFICATION FairSpec
INVARIANTS ServedSchema Serialized
PROPERTIES ImplementsSchemaHistory Deployed
