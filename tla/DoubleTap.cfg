SPECIFICATION TapSpec

CONSTANTS
    Keys = {scene1}
    Values = {run1}
    None = None
    MinInterval = 3

INVARIANT
    PlayedOnce

CHECK_DEADLOCK FALSE
