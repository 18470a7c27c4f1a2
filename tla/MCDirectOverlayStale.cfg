\* A connection accepted by turn_on_privacy whose window is then closed
\* from outside, and a turn_off of that connection.
CONSTANTS
    ConnIds <- MCConnIds
    MaxOps = 6
    SupportsCaptureExclusion = TRUE
    WindowCanBeClosed = TRUE

SPECIFICATION Spec

PROPERTY TurnOnPossibleAfterOff
