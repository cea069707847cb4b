\* any process may be removed at any time, the current one included
CONSTANTS
    Procs = {p1, p2, p3, p4}
    NULL = NULL
SPECIFICATION Spec
INVARIANTS
    NoCycle
PROPERTIES
    RoundRobinUntilStrayed
    EveryoneRuns
    FindsList
