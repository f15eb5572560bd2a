CONSTANTS
    None = None
    NoLimit = 99
    Threads = {t1, t2}
    Requests <- MCRequests
    Paths <- MCPaths
    Precompressed <- MCPrecompressed
    Directories <- MCDirectories
    Outside <- MCOutside
    InitialSizes <- MCInitialSizes
    Rewritten <- MCRewritten
    Hidden = {".git"}
    Dotted = {"index.html", "shell.html", "away.html"}
    Fallback <- MCFallback
    Indexes <- MCIndexes
    MetadataEntries = 1
    MemoryMaxFile = 1
    MemoryMaxTotal = 1
    RevalidateAfter = 1
    MaxRanges = 2
    OverwrittenSizes = {1}
    ReplacedSizes = {3}
    MaxTime = 1
    MaxChanges = 2
    MaxRequests = 2
    MaxFaults = 1
SYMMETRY ThreadSymmetry
SPECIFICATION Spec
INVARIANTS
    StalenessIsBounded
    NeverOlderThanTheTag
    SentWhole
CHECK_DEADLOCK FALSE
