\* Safety and the PrivacyMode contract of the GIF overlay, with the window
\* also closed from outside (WM_CLOSE) and emergency_cleanup called from
\* another thread at any moment.
SPECIFICATION Spec
CONSTANTS
    ConnIds <- MCConnIds
    MaxOps = 5
    QueueLimit = 3
    SupportsCaptureExclusion = TRUE
    WindowCanBeClosed = TRUE
    EmergencyCleanupCalled = TRUE
INVARIANT InputBlockedOnlyWhilePrivate
INVARIANT OverlayVisibleOnlyWhilePrivate
INVARIANT ZOrderEnforcedWhileActive

PROPERTY PrivacyModeSpec
