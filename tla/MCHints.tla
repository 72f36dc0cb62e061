------------------------------- MODULE MCHints -------------------------------
(***************************************************************************)
(* Bounded check of the hint and configuration algorithms of Hints and    *)
(* Config against reference definitions.  Every state is one input to the *)
(* algorithms: a typed string, a window list, the config files, and the   *)
(* iteration orders of read_dir and of the two HashMaps involved; the     *)
(* key_for_app closure assign receives comes from the loaded config.      *)
(* Nothing of these changes after Init.  A fourth family of initial       *)
(* states runs the window enumeration of Toplevels, the producer of the   *)
(* window lists, and the activation of a listed window, against a         *)
(* changing compositor.                                                    *)
(***************************************************************************)
EXTENDS Config, Toplevels

CONSTANTS
    InputChars,     \* characters a typed string is made of
    MaxInputLen,    \* longest typed string
    AppIds,         \* app ids (sequences of characters) of the windows
    MaxWindows,     \* longest window list
    InputWindows,   \* longest window list combined with a non-empty input
    SystemChoices,  \* contents of /etc/open-sesame/config.toml
    UserChoices,    \* contents of the user config.toml
    DirNames,       \* names of config.d entries, in path order
    DirChoices      \* contents of a config.d entry

VARIABLES
    input,      \* the typed string
    windows,    \* the enumerated window list, as app ids
    system,     \* the system config file
    user,       \* the user config file
    configD,    \* configD[n]: the config.d entry named n
    dirOrder,   \* the order read_dir lists the existing config.d entries
    keyOrder,   \* iteration order of the loaded keys HashMap
    order       \* iteration order of the by_base HashMap of assign

hintVars == <<input, windows, system, user, configD, dirOrder, keyOrder, order>>
vars == <<hintVars, toplevelVars>>

WindowLists(max) == UNION {[1..n -> AppIds] : n \in 1..max}

Loaded == LoadConfig(system, user, configD, dirOrder)

\* The key_for_app closure run_launcher passes to assign.
keyFor ==
    IF Loaded = LoadError THEN [a \in AppIds |-> NoKey]
    ELSE [a \in AppIds |-> KeyForApp(Loaded.keys, keyOrder, a)]

NoConfigD == [n \in DirNames |-> Absent]

\* Three families of inputs: typed strings with short window lists and no
\* config files; window lists with every user config file (hint
\* assignment under the keys the user configured); and every combination
\* of system, user and config.d files (loading), without windows.
\* The enumeration in the other families: it has ended, as it does on an
\* empty desktop, with a roundtrip timeout.
EnumerationEnded ==
    /\ open = {} /\ appOf = [h \in Handles |-> NoAppId] /\ focus = NoWindow
    /\ cosmicOf = {} /\ bound = TRUE /\ infoBurst = FALSE /\ chan = <<>>
    /\ changes = 0 /\ epc = "failed"
    /\ pending = <<>> /\ toplevels = <<>> /\ cosmicPending = {}
    /\ listing = <<>> /\ born = {} /\ gone = {} /\ focusMoved = FALSE
    /\ apc = "bind" /\ apending = {} /\ atoplevels = <<>>
    /\ target = NoWindow /\ cosmicHandle = NoWindow /\ activated = FALSE
    /\ activateAt = 0

HintInit ==
    /\ \/ /\ input \in BoundedSeq(InputChars, MaxInputLen)
          /\ windows \in WindowLists(InputWindows)
          /\ system = Absent /\ user = Absent /\ configD = NoConfigD
       \/ /\ input = <<>>
          /\ windows \in WindowLists(MaxWindows)
          /\ system = Absent /\ user \in UserChoices /\ configD = NoConfigD
       \/ /\ input = <<>>
          /\ windows = <<>>
          /\ system \in SystemChoices /\ user \in UserChoices
          /\ configD \in [DirNames -> DirChoices]
    /\ dirOrder \in SetToSeqs({n \in DirNames : configD[n] # Absent})
    /\ keyOrder \in IF Loaded = LoadError THEN {<<>>}
                    ELSE SetToSeqs(DOMAIN Loaded.keys)
    /\ order \in SetToSeqs(Bases(windows, keyFor))

Init ==
    \/ HintInit /\ ~(input = <<>> /\ windows = <<>> /\ system = Absent /\ user = Absent
                     /\ configD = NoConfigD) /\ EnumerationEnded
    \/ HintInit /\ input = <<>> /\ windows = <<>> /\ system = Absent /\ user = Absent
                /\ configD = NoConfigD /\ ToplevelInit

\* The enumeration steps; an ended enumeration, and the other families,
\* stay as they are.
Next ==
    \/ ToplevelNext /\ UNCHANGED hintVars
    \/ Ended /\ UNCHANGED vars

\* App ids of the checked window lists: "ff" (auto key f), "o.Fx" (auto
\* key f from the last segment), "9" (no letter: base x) and "g".
AppIdValues == {<<"f","f">>, <<"o",".","F","x">>, <<"9">>, <<"g">>}

\* One scalar setting stands for the eleven deep_merge treats alike.
MCSettingNames == {"activation_delay"}
MCDefaultSettings == [s \in MCSettingNames |-> 200]

Binding(apps) == [apps |-> apps, launch |-> TRUE]
Overlay(delay, env, keys) ==
    [settings |-> [s \in MCSettingNames |-> delay], envFiles |-> env, keys |-> keys]
NoKeys == <<>>

\* default_keys, with the app id "g" standing for ghostty under key g.
MCDefaultKeys == <<"g">> :> Binding(<<<<"g">>>>)

\* A system file that only changes a setting; a user file that sets the
\* setting back to its default, lists an env file and binds f to "fx";
\* a user file that rebinds g to the app "9"; two config.d files that
\* set the setting differently and bind x to "ff" and f to "o.fx".
SysDelay    == Overlay(100, <<>>, NoKeys)
UserFx      == Overlay(200, <<"env">>, <<"f">> :> Binding(<<<<"f","x">>>>))
UserRemapG  == Overlay(300, <<>>, <<"g">> :> Binding(<<<<"9">>>>))
DirX        == Overlay(300, <<>>, <<"x">> :> Binding(<<<<"f","f">>>>))
DirF        == Overlay(400, <<>>, <<"f">> :> Binding(<<<<"o",".","f","x">>>>))
\* A config.d file that binds h to "G", the default app of g in capitals.
DirDupG     == Overlay(200, <<>>, <<"h">> :> Binding(<<<<"G">>>>))

MCSystemChoices == {Absent, SysDelay}
MCUserChoices == {Absent, UserFx, UserRemapG}
MCDirChoices == {Absent, Invalid, DirX, DirF, DirDupG}

\* A user file that binds the upper-case key F to the app "9".
UserUpperF == Overlay(200, <<>>, <<"F">> :> Binding(<<<<"9">>>>))
UpperUserChoices == {Absent, UserUpperF}

\* Windows 1 and 2 have the app id "a"; window 3 has "a", an empty app id
\* or none.
MCAppChoices ==
    {[h \in Handles |-> IF h = 3 THEN a ELSE "a"] : a \in {"a", "", NoAppId}}

Spec == Init /\ [][Next]_vars

Assigned == Assign(windows, keyFor, order)

-----------------------------------------------------------------------------
(* Reference definitions                                                   *)

\* Decimal representation of a positive number, most significant first.
RECURSIVE Decimal(_)
Decimal(n) ==
    IF n < 10 THEN <<DecimalDigits[n + 1]>>
    ELSE Decimal(n \div 10) \o <<DecimalDigits[(n % 10) + 1]>>

\* The spec's expansion rule read as a grammar: a run of one non-digit
\* character followed by the decimal form of 1..26, possibly zero-padded.
NormalizeRef(in) ==
    LET s == LowerSeq(in)
        Expands(k, n) ==
            /\ ~IsAsciiDigit(s[1])
            /\ \A i \in 1..k : s[i] = s[1]
            /\ \E z \in 0..Len(s) :
                  SubSeq(s, k + 1, Len(s)) = [i \in 1..z |-> "0"] \o Decimal(n)
    IN  IF \E k \in 1..Len(s), n \in 1..MaxRepeat : Expands(k, n)
        THEN LET n == CHOOSE n \in 1..MaxRepeat :
                          \E k \in 1..Len(s) : Expands(k, n)
             IN  [i \in 1..n |-> s[1]]
        ELSE s

\* The window at position i gets its base repeated once per window up to
\* and including it that has the same base.
AssignRef(ws, kf) ==
    LET B(i) == BaseFor(ws[i], kf) IN
    [i \in DOMAIN ws |->
        [hint |-> NewHint(B(i), Cardinality({j \in 1..i : B(j) = B(i)})),
         window |-> i - 1,
         index |-> i - 1]]

\* The keys whose binding lists a pattern equal, ignoring case, to the app
\* id or to its last segment.
MatchingKeys(keys, a) ==
    {k \in DOMAIN keys :
        \E p \in Range(keys[k].apps) :
            LowerSeq(p) \in {LowerSeq(a), LowerSeq(LastSegment(a))}}

-----------------------------------------------------------------------------
(* Properties                                                              *)

\* normalize_input agrees with the expansion rule of the spec (section 4.1)
\* for every typed string: digit suffixes expand only in 1..26 and only
\* after a run of one repeated character.
NormalizeMatchesReference == Normalize(input) = NormalizeRef(input)

\* HintAssignment::assign gives the n-th window of each base group the
\* base repeated n times, in window order, whatever the iteration order of
\* the by_base HashMap.
AssignMatchesReference == Assigned = AssignRef(windows, keyFor)

\* Every assigned window can be selected by typing: its hint string, and
\* its base followed by its count in digits, both match it exactly.
EveryHintReachable ==
    \A k \in DOMAIN Assigned :
        LET h == Assigned[k].hint IN
        /\ MatchInput(Assigned, AsString(h)) = Exact(Assigned[k].index)
        /\ MatchInput(Assigned, <<h.base>> \o Decimal(h.count))
              = Exact(Assigned[k].index)


\* load_config gives the same configuration whatever order read_dir
\* lists the config.d entries in: the toml entries are merged by name, so
\* two drop-in files that set the same setting or bind the same key
\* always resolve the same way, and an unreadable one fails the load in
\* every order.
LoadOrderFree ==
    \A o \in SetToSeqs({n \in DirNames : configD[n] # Absent}) :
        LoadConfig(system, user, configD, o) = Loaded

\* key_for_app answers None exactly for an app no binding matches (by
\* exact, case-insensitive or last-segment comparison), and otherwise the
\* first character of the name of some key that matches it, in every
\* HashMap order.
KeyForAppSound ==
    Loaded # LoadError =>
        \A a \in AppIds :
            /\ keyFor[a] = NoKey <=> MatchingKeys(Loaded.keys, a) = {}
            /\ keyFor[a] # NoKey =>
                  \E k \in MatchingKeys(Loaded.keys, a) : k[1] = keyFor[a]

\* When validate reports no app pattern listed under two keys, key_for_app
\* answers every app id without a dot the same way in every iteration
\* order of the keys HashMap: the duplicate check of validate_keys covers
\* the exact and case-insensitive matches of key_for_app.
ValidatedKeysOrderFree ==
    LET issues == Validate(Loaded, keyOrder)
    IN  /\ Loaded # LoadError
        /\ ~\E i \in DOMAIN issues : issues[i].kind = "duplicate_app"
        => \A a \in AppIds, o \in SetToSeqs(DOMAIN Loaded.keys) :
              "." \notin Range(a) => KeyForApp(Loaded.keys, o, a) = KeyForApp(Loaded.keys, keyOrder, a)

\* The windows enumerate_windows returns, by handle.
Listed == {listing[i].h : i \in DOMAIN listing}

\* An enumeration that returns lists every window with an app id that was
\* open at the bind and still is, once, whatever the compositor does
\* meanwhile: windows opening, closing, retitling (which sends done again)
\* or taking the focus.
EnumerationListsOpenWindows ==
    epc = "done" =>
        /\ IsInjective([i \in DOMAIN listing |-> listing[i].h])
        /\ \A h \in open \ born : appOf[h] \notin {NoAppId, ""} => h \in Listed

\* When the focus did not change during the enumeration, the focused
\* window, if listed, is the last window and the only one marked focused,
\* so run_launcher's window of origin is the focused window and hints[0]
\* another one.
FocusedWindowLast ==
    epc = "done" /\ ~focusMoved /\ focus \in Listed =>
        /\ listing[Len(listing)].h = focus
        /\ \A i \in 1..Len(listing) - 1 : ~listing[i].focused

\* activate_window reports WindowNotFound only for a window that was
\* closed: a window the enumeration listed and that is still open is
\* always among the toplevels of the activation's first roundtrip.
NotFoundOnlyWhenClosed ==
    apc = "notfound" => target \in gone

\* When activate_window returns Ok and the compositor did nothing else
\* after the activate request, the target has the focus: Ok is what
\* run_launcher saves into the MRU file as the current window.
ActivateOkFocusesTarget ==
    apc = "ok" /\ changes = activateAt => focus = target
====
