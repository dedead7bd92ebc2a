CONSTANTS
    None = None
    Unparseable = Unparseable
    OperatorError = OperatorError
    Specs <- SpecsAll
INIT Init
NEXT Next
INVARIANT HeapWithinContainerLimit
CHECK_DEADLOCK FALSE
