CONSTANTS
    Uuids = {u1}
    Specs <- SpecsCount
    Phases = {"Pending", "Running", "Failed"}
    RSIds <- RSIdsOne
    MaxEnv = 0
    MaxFaults = 1
    MaxRestarts = 1
    None = None
SPECIFICATION Spec
PROPERTIES
    EventuallyConverged
