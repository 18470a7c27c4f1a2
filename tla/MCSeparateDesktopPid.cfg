SPECIFICATION Spec
CONSTANTS
    ConnIds <- MCConnIds
    MaxOps = 4
    EmergencyCleanupCalled = FALSE
INVARIANT NoForeignProcessKilled
