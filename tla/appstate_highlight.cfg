\* The highlighted row of the card against the window an activation picks.
CONSTANTS
    WindowChoices <- MCWindowChoices
    KeyFor <- MCKeyFor
    LaunchKeys = {"h"}
    LauncherModes = {TRUE, FALSE}
    Keys = {"Tab", "Escape", "Return", "BackSpace", "Down", "Up", "Shift_L",
            "f", "g", "2", "h"}
    QuickSwitchThreshold = 1
    OverlayDelay = 2
    ActivationDelay = 1
    MaxFrames = 2
SPECIFICATION Spec
INVARIANT HighlightIsTarget
