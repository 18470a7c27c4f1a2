SPECIFICATION Spec
CONSTANTS
    ConnIds <- MCConnIds
    SupportsCaptureExclusion = TRUE
    WindowCanBeClosed = FALSE
    MaxOps = 4
    QueueLimit = 3
    EmergencyCleanupCalled = FALSE
INVARIANT SingleZOrderWatchdog
