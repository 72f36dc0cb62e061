\* The event loop in both modes: keys, Shift, Alt, IPC cycles and close.
CONSTANTS
    WindowChoices <- MCWindowChoices
    KeyFor <- MCKeyFor
    IpcCommands <- MCIpcCommands
    LaunchKeys = {"h"}
    LauncherModes = {TRUE, FALSE}
    Keys = {"Tab", "Escape", "f", "h"}
    QuickSwitchThreshold = 1
    OverlayDelay = 2
    ActivationDelay = 1
    MaxFrames = 2
    MaxUserEvents = 2
    MaxIpcCommands = 1
    ReadMayFail = TRUE
SPECIFICATION AppSpec
INVARIANT DisplayCurrentWhenIdle
PROPERTIES SwitcherEndsOnAltRelease
