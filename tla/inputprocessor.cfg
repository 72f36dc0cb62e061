CONSTANTS
    HintChoices <- MCHintChoices
    LaunchKeys = {"h"}
    Keys = {"Escape", "BackSpace", "Return", "Up", "Shift_L", "f", "F", "g", "2", "h"}
    ActivationDelay = 1
    MaxInputLength = 64
    MaxKeys = 4
SPECIFICATION Spec
INVARIANT ProcessorInputLive
