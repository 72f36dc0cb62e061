\* normalize_input against the expansion rule over every typed string of up
\* to four characters (enough for "g" "0" "2" "7" and "gg27") with one-window
\* lists; hint assignment and matching over every window list of up to
\* three windows drawn from four app ids under every user config file and
\* every iteration order; and load_config and key_for_app over every
\* combination of the system file, the user file and three config.d
\* entries (two toml, one not) and every read_dir and HashMap order.
CONSTANTS
    InputChars = {"g", "G", "f", "0", "2", "7", "-"}
    MaxInputLen = 4
    AppIds <- AppIdValues
    MaxWindows = 3
    InputWindows = 1
    SettingNames <- MCSettingNames
    DefaultSettings <- MCDefaultSettings
    DefaultKeys <- MCDefaultKeys
    DirNames = {1, 2, 3}
    TomlNames = {1, 2}
    Absent = Absent
    Invalid = Invalid
    SystemChoices <- MCSystemChoices
    UserChoices <- MCUserChoices
    DirChoices <- MCDirChoices
    Handles = {1, 2, 3}
    AppChoices <- MCAppChoices
    NoAppId = NoAppId
    NoWindow = NoWindow
    MaxChanges = 2
SPECIFICATION Spec
INVARIANT NormalizeMatchesReference
INVARIANT AssignMatchesReference
INVARIANT EveryHintReachable
INVARIANT LoadOrderFree
INVARIANT KeyForAppSound
INVARIANT ValidatedKeysOrderFree
INVARIANT EnumerationListsOpenWindows
INVARIANT FocusedWindowLast
INVARIANT NotFoundOnlyWhenClosed
INVARIANT ActivateOkFocusesTarget
