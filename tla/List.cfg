SPECIFICATION Spec
CONSTANTS
    Heads = {h1, h2}
    Items = {a, b, c}
    Wild = Wild
INVARIANTS Linked QueriesAgree VisitsAll
PROPERTIES LoopEnds
