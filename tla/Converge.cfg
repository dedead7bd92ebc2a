CONSTANTS
    Uuids = {u1}
    Specs <- SpecsCore
    Phases = {"Pending", "Running", "Failed"}
    RSIds <- RSIdsOne
    MaxEnv = 1
    MaxFaults = 0
    MaxRestarts = 0
    None = None
SPECIFICATION Spec
INVARIANTS
    TypeOK
PROPERTIES
    EventuallyConverged
