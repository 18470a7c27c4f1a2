SPECIFICATION Spec
CONSTANTS
    Declared <- MCDeclared
    Horizon = 1000
    Jitter = 4
INVARIANT OneSecondAdvances
