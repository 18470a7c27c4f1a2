\* A turn_off followed quickly by a turn_on, racing an exiting enforcer.
CONSTANTS
    ConnIds <- MCConnIds
    MaxOps = 6
    SupportsCaptureExclusion = TRUE
    WindowCanBeClosed = FALSE

SPECIFICATION Spec

INVARIANT CursorEnforcedWhileActive
