\* Safety, liveness of the join, and the PrivacyMode contract of the direct
\* overlay, with the window also closed from outside (WM_CLOSE) at any moment.
CONSTANTS
    ConnIds <- MCConnIds
    MaxOps = 8
    SupportsCaptureExclusion = TRUE
    WindowCanBeClosed = TRUE

SPECIFICATION Spec

INVARIANT InputBlockedOnlyWhilePrivate
INVARIANT HookHandlesConsistent
INVARIANT OffMeansClean

PROPERTY DropReturns
PROPERTY PrivacyModeSpec
