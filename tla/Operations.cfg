SPECIFICATION OperationsSpec
CONSTANTS
    Procs = {p, q}
    Commands <- MCCommands
    Entities <- MCEntities
    Databases <- MCDatabases
    StartFiles <- MCStartFiles
    StartTables = {"author"}
    MaxCommands = 2
    MaxFaults = 1
    MaxFiles = 3
    None = None
    Runs = {"s1", "s2"}
    SeedFiles <- MCSeedFiles
    Lower <- MCLower
    Signups = {"A@x"}
    MaxSeedFaults = 2
    NoKey = NoKey
    NoCommand = NoCommand
INVARIANT EffectRecorded
INVARIANT InFileOrder
INVARIANT BootReady
INVARIANT SeedsRight
PROPERTY CommandsEnd
\* A behaviour ends when the commands or the seed runs have.
CHECK_DEADLOCK FALSE
