CONSTANTS
    MaxPolls = 1
    MaxControls = 2
SPECIFICATION Spec
INVARIANTS StreamInOrder 
