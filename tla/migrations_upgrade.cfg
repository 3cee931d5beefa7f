CONSTANTS
    Replica = {r1}
    Releases = {15}
    Attempts = 1
    MaxFaults = 0
    TornStarts = FALSE
SPECIFICATION MigrationsSpec
PROPERTY StartsSucceed
CHECK_DEADLOCK FALSE
