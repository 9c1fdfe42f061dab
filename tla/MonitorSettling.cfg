CONSTANTS
    MaxPolls = 1
    MaxControls = 1
SPECIFICATION FairSpec
PROPERTIES CompleteSeen MonitorSettles
