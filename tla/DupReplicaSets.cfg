CONSTANTS
    Uuids = {u1}
    Specs <- SpecsOne
    Phases = {"Pending", "Running", "Failed"}
    RSIds <- RSIdsTwo
    MaxEnv = 0
    MaxFaults = 0
    MaxRestarts = 0
    None = None
SPECIFICATION Spec
INVARIANTS
    AtMostOneReplicaSetEach
