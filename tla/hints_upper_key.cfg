\* Hint reachability when the user config binds an upper-case key.
CONSTANTS
    InputChars = {"f"}
    MaxInputLen = 0
    AppIds <- AppIdValues
    MaxWindows = 2
    InputWindows = 2
    SettingNames <- MCSettingNames
    DefaultSettings <- MCDefaultSettings
    DefaultKeys <- MCDefaultKeys
    DirNames = {1}
    TomlNames = {1}
    Absent = Absent
    Invalid = Invalid
    SystemChoices = {Absent}
    UserChoices <- UpperUserChoices
    DirChoices = {Absent}
    Handles = {1, 2, 3}
    AppChoices <- MCAppChoices
    NoAppId = NoAppId
    NoWindow = NoWindow
    MaxChanges = 2
SPECIFICATION Spec
INVARIANT EveryHintReachable
