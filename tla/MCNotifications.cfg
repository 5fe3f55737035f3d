SPECIFICATION Spec
CONSTANTS
    None = None
    d1 = d1
    d2 = d2
    Runs <- MCRuns
    Workers <- MCWorkers
    MaxChanges = 2
    MaxFaults = 1
CHECK_DEADLOCK FALSE
INVARIANTS
    OccurrenceNotifiedOnce
    CompletedRunMissesNobody
PROPERTIES
    ConsentGuardsMarketing
    PushOnlyWhileWanted
    RegistrationKept
    EverythingEnds
