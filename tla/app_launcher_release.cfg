\* Launcher mode: a release of Alt before keyboard enter.
CONSTANTS
    WindowChoices <- MCWindowChoices
    KeyFor <- MCKeyFor
    IpcCommands <- MCIpcCommands
    LaunchKeys = {"h"}
    LauncherModes = {TRUE}
    Keys = {"Tab", "Escape", "f", "h"}
    QuickSwitchThreshold = 1
    OverlayDelay = 2
    ActivationDelay = 1
    MaxFrames = 2
    MaxUserEvents = 1
    MaxIpcCommands = 0
    ReadMayFail = FALSE
SPECIFICATION AppSpec

PROPERTIES AltReleaseEndsSession
