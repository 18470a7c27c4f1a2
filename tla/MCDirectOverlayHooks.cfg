\* A low-level hook that cannot be installed during SHOW.
CONSTANTS
    ConnIds <- MCConnIds
    MaxOps = 4
    SupportsCaptureExclusion = TRUE
    WindowCanBeClosed = FALSE

SPECIFICATION Spec

INVARIANT InputBlockedWhileActive
