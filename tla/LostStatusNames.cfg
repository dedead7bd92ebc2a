CONSTANTS
    Uuids = {u1}
    Specs <- SpecsOne
    Phases = {"Pending", "Running", "Failed"}
    RSIds <- RSIdsOne
    MaxEnv = 0
    MaxFaults = 0
    MaxRestarts = 0
    None = None
SPECIFICATION Spec
PROPERTIES
    StatusNamesResources
