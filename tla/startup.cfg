SPECIFICATION FairSpec
CONSTANTS
    MaxLines = 2
    MaxSignals = 2
    MaxRestarts = 2
    Files <- SomeFiles
    Envs <- SomeEnvs
    PortFlags = {"", "50", "x"}
    Atoi <- Numbers
    Schema <- Tables
CHECK_DEADLOCK FALSE
INVARIANT SettingsAddUp
INVARIANT MigrationResumes
PROPERTY ServingStops
