CONSTANTS
    MaxTests = 3
    MaxCrashes = 0
    None = None
SPECIFICATION FairSpec
CHECK_DEADLOCK FALSE
PROPERTIES ServingConsumes
