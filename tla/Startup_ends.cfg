CONSTANTS
    MaxTests = 3
    MaxCrashes = 1
    None = None
SPECIFICATION FairSpec
CHECK_DEADLOCK FALSE
INVARIANTS TypeOK OneConnection CalledWhenReady
PROPERTIES StartupEnds ShutdownEnds
