\* Six lines, skip nodes two apart, a threshold of two, nine moves.
SPECIFICATION Spec
CONSTANTS
    NULL = NULL
    Tag = {a, b, c, d, e, f}
    SkipDistance = 2
    Threshold = 2
    MaxTime = 9
INVARIANTS
    TypeOK
    LinksConsistent
    DepthsTrue
    SkipsSpaced
    GateAtThreshold
PROPERTIES
    Refinement
