\* The state machine over every window list of up to three windows of two
\* apps, every previous_window_id (none, each window, a stale id), both
\* launcher modes, and every key kind the handlers tell apart.
CONSTANTS
    WindowChoices <- MCWindowChoices
    KeyFor <- MCKeyFor
    LaunchKeys = {"h"}
    LauncherModes = {TRUE, FALSE}
    Keys = {"Tab", "Escape", "Return", "BackSpace", "Down", "Up", "Shift_L",
            "f", "g", "2", "h"}
    QuickSwitchThreshold = 1
    OverlayDelay = 2
    ActivationDelay = 1
    MaxFrames = 2
SPECIFICATION FairSpec
INVARIANT TypeOK
INVARIANT InputLive
INVARIANT SelectionInBounds
INVARIANT PendingRowMatched
INVARIANT CardInsideOutput
INVARIANT TextFitsColumn
PROPERTY RedrawOnVisibleChange
PROPERTY PendingResolves
