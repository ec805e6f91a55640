SPECIFICATION Spec
CONSTANTS
    MaxU32 = 1000
    MaxI32 = 1000
    MaxU64 = 2147483646
    Buckets = 2
    Envs <- MCEnvs
    ServedEnvs <- MCServedEnvs
    Calls <- MCCalls
    Failures <- MCFailures
    MaxRequests = 2
    MaxEvents = 1
CHECK_DEADLOCK FALSE
INVARIANTS
    TypeOK
    ServesSoundly
    CountedOnce
    ScrapeCoherent
    AccessLogged
    EventsExplained
PROPERTIES
    SeriesGrow
    RequestsEnd
    Stops
