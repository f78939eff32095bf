\* Three pods, one failure.
CONSTANTS
    a = a
    b = b
    c = c
    Pods <- MCPods
    MaxAttempts = 2
    MaxFailures = 1
SPECIFICATION FairSpec
INVARIANTS
    ServingIsReady
    OneRowPerVersion
    StartupInv
PROPERTIES
    EveryPodServes
CHECK_DEADLOCK FALSE
