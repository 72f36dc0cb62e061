CONSTANTS
    w1 = w1
    w2 = w2
    w3 = w3
    u1 = u1
    u2 = u2
    p1 = p1
    p2 = p2
    x = x
    y = y
    MissingFile = MissingFile
    Missing = Missing
    UnreadableFile = UnreadableFile
    UserCmds = {u1, u2}
    UserSesameCmds = {u2}
    Absent = Absent
    NoCmd = NoCmd
    MaxSteps = 5
    Windows = {w1, w2, w3}
    Order <- MCOrder
    None = None
    CrashPoints = {"activated", "truncated"}
    MaxSessions = 4
    MaxExternal = 1
    MaxCloses = 1
    MaxCrashes = 2
SPECIFICATION MCSpec
INVARIANT MruTracksFocus
INVARIANT SpawnLiteralRoundTrips
INVARIANT KeybindingFileIntact
INVARIANT LaunchedAsConfigured
PROPERTY KeybindingRefinesShortcuts
INVARIANT ColorRoundTrips
INVARIANT ThemeLayering
