CONSTANTS
    None = None
    Unparseable = Unparseable
    Sidecar = Sidecar
    WorkerPods = {w1, w2}
    Limits <- LimitsEdit
    Requests <- RequestsSet
    Usages <- UsagesAll
    Uuid <- UuidVal
    MaxEdits = 1
    WebhookRegistered = FALSE
INIT Init
NEXT Next
INVARIANT TypeOK
PROPERTY CpuUsageMatchesReference
