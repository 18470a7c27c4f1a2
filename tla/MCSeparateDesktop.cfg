SPECIFICATION Spec
CONSTANTS
    ConnIds <- MCConnIds
    MaxOps = 6
    EmergencyCleanupCalled = TRUE
INVARIANT NoOrphanShell
INVARIANT OnMeansAgentDesktop
