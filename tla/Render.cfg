CONSTANTS
    None = None
    Unparseable = Unparseable
    OperatorError = OperatorError
    Specs <- SpecsAll
INIT Init
NEXT Next
INVARIANTS
    TypeOK
    SystemPropertiesWin
    
    DiscoveryReachesCoordinator
    JvmHeapFlag
    DefaultCatalogsUnlessClaimed
    PodFilesResolve
    SelectorsFindOwnPods
    NamesCollideOnlyOnSharedPrefix
CHECK_DEADLOCK FALSE
