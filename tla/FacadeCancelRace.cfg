CONSTANTS
    None = None
    a = a
    b = b
    k = k
    l = l
    Callers = {a, b, k, l}
    Edges = {1, 2}
    MaxHandles = 3
    MaxId = 2
    MaxPathSteps = 1
    FacadeHandles = 4
    MaxSubgraphNodes = 3
    MaxSubgraphEdges = 2
    Limits <- MCLimits
SPECIFICATION Spec
INVARIANT CompletedWonTheRace
