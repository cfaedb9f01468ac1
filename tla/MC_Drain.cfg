\* One thread; up to 5 events and 7 frames (three nested drains).
CONSTANTS
    MaxEvents = 5
    MaxDepth = 7
SPECIFICATION Spec
INVARIANT TypeOK
