CONSTANTS
    None = None
    Callers = {c1, c2}
    Images = {1, 2}
    Runtimes = {1, 2}
    Partitions = {1, 2}
    SizeOf <- MCSizeOf
    Limits <- MCLimits
    MaxLanes = 2
    SearchBytes <- MCSearchBytes
    MaximumSearches = 2
    MaximumSearchBytes = 2
SPECIFICATION Spec
PROPERTIES
    RoutesReturnAfterAnyPanic
