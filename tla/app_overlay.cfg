\* Switcher mode with Alt held and no other input.
CONSTANTS
    WindowChoices <- MCWindowChoices
    KeyFor <- MCKeyFor
    IpcCommands <- MCIpcCommands
    LaunchKeys = {"h"}
    LauncherModes = {FALSE}
    Keys = {"Tab", "Escape", "f", "h"}
    QuickSwitchThreshold = 1
    OverlayDelay = 2
    ActivationDelay = 1
    MaxFrames = 2
    MaxUserEvents = 1
    MaxIpcCommands = 1
    ReadMayFail = FALSE
SPECIFICATION AppSpec

PROPERTIES OverlayAppears
