------------------------------ MODULE MCSession ------------------------------
(***************************************************************************)
(* Model-checking instance of Session: three windows in toplevel order    *)
(* w1, w2, w3, and the properties of the quick switch and the MRU file.   *)
(* The same run checks the keybinding commands (Keybinding) on a          *)
(* shortcuts file with user shortcuts u1 and u2.  The two share no state,  *)
(* so a behaviour runs one of them: cli says which.  A third kind of     *)
(* behaviour launches the application of a key (Launch) with env files    *)
(* p1 and p2 on disk setting names x and y.  A fourth kind holds one     *)
(* input of the string and color conversions, a fifth the settings and   *)
(* the COSMIC theme files the overlay's theme is built from (Theme).      *)
(***************************************************************************)
EXTENDS Session, Keybinding, Launch, Color, Theme

CONSTANTS w1, w2, w3, u1, u2, p1, p2, x, y

VARIABLES
    cli,
    strIn,      \* a key or command format_keybinding escapes
    colorIn,    \* a color to_hex writes
    themeIn     \* the settings and COSMIC theme files Theme::from_config reads

mcVars == <<vars, keyVars, launchVars, cli, strIn, colorIn, themeIn>>

\* Shortcut files the keybinding commands may find: none, the empty map
\* written two ways, a hand-written map with u1 on a line of its own and no
\* trailing comma, the same map on one line, and the map as COSMIC
\* Settings writes it.
InitialFiles ==
    {Absent, <<<<Open>>, <<Close>>>>, <<<<Open, Close>>>>,
     <<<<Open>>, <<Tok("whole", u1, FALSE)>>, <<Close>>>>,
     <<<<Open, Tok("whole", u1, FALSE), Close>>>>,
     PrettyFile({u1})}

KeyInit ==
    /\ file \in InitialFiles
    /\ users = IF file = Absent THEN {} ELSE Commands(file) \cap UserCmds
    /\ installed = FALSE /\ pretty = FALSE /\ steps = 0

\* Env files: an assignment and a comment; an export, a second name and a
\* later line for the same name; a line without "=", an empty key and
\* a third value.
EnvFileChoices ==
    {MissingFile, UnreadableFile,
     <<Assign(x, "v1", FALSE), Skip>>,
     <<Assign(x, "v2", TRUE), Assign(y, "v2", FALSE), Assign(x, "v3", FALSE)>>,
     <<NoEq, Assign("", "v1", FALSE), Assign(y, "v3", FALSE)>>}

LaunchConfigs ==
    {NoLaunch, Simple("ghostty"),
     Advanced("ghostty", <<"--config">>, <<p2>>, x :> "v1"),
     Advanced("code", <<>>, <<p1, p2>>, <<>>)}

LaunchInputs ==
    [lc : LaunchConfigs,
     globalFiles : {<<>>, <<p1>>, <<p1, p2>>, <<p2, p1>>},
     inherited : {<<>>, (x :> "v3") @@ (y :> "v1")},
     fs : [{p1, p2} -> EnvFileChoices]]

KeyIdle ==
    file = Absent /\ users = {} /\ installed = FALSE /\ pretty = FALSE /\ steps = 0
LaunchIdle ==
    /\ launchIn = CHOOSE i \in LaunchInputs : i.lc = NoLaunch
    /\ spawned = NoProcess

\* Strings of up to three characters from the escape alphabet.
ShortStrings == UNION {[1..n -> {Plain, Quote, Backslash}] : n \in 0..3}

\* Channel values around the digit and padding boundaries.
SampleBytes == {0, 10, 15, 16, 255}

ConvertIdle == strIn = <<>> /\ colorIn = Rgba(0, 0, 0, 0)

\* Colour settings at their defaults or set by the user (an alpha of 101
\* dims to 70), and a border width of 3 (the default) or 5.
SettingsChoices ==
    {[s \in ColorSettings \cup {"border_width"} |->
         IF s \notin set THEN DefaultThemeSettings[s]
         ELSE IF s = "border_width" THEN 5 ELSE Rgba(1, 2, 3, 101)] :
         set \in SUBSET (ColorSettings \cup {"border_width"})}

Container(base, on, compBase, compOn) ==
    [base |-> base, on |-> on, component |-> [base |-> compBase, on |-> compOn]]

\* A dark and a light theme directory with every file; the channels go
\* below 0 and above 1 and the alphas need truncation.
DarkDir ==
    [background |-> Container(CosmicColor(0, 0, 0, 1000), CosmicColor(900, 900, 900, 1000),
                              CosmicColor(100, 100, 100, 1000), CosmicColor(1000, 1000, 1000, 1000)),
     primary    |-> Container(CosmicColor(120, 120, 120, 1000), CosmicColor(1000, 1000, 1000, 900),
                              CosmicColor(200, 200, 200, 1000), CosmicColor(1000, 1000, 1000, 1000)),
     secondary  |-> Container(CosmicColor(150, 150, 150, 1000), CosmicColor(950, 950, 950, 1000),
                              CosmicColor(250, 250, 250, 1000), CosmicColor(1200, -50, 1000, 1000)),
     accent     |-> [base |-> CosmicColor(300, 600, 900, 1000), on |-> CosmicColor(0, 0, 0, 1000)],
     corner_radii |-> 12]
LightDir ==
    [DarkDir EXCEPT !["primary"].on = CosmicColor(0, 0, 0, 870),
                    !["accent"].base = CosmicColor(500, 100, 0, 1000),
                    !["corner_radii"] = 4]
NoFiles == [f \in DOMAIN DarkDir |-> Missing]

\* A directory as found, without the accent file or the corner radii.
DirChoices(dir) ==
    {dir, [dir EXCEPT !["accent"] = Missing], [dir EXCEPT !["corner_radii"] = Missing],
     NoFiles}

ThemeInputs ==
    [settings : SettingsChoices, isDark : {Missing, TRUE, FALSE},
     dark : DirChoices(DarkDir), light : DirChoices(LightDir)]

ThemeIdle == themeIn = [settings |-> DefaultThemeSettings, isDark |-> Missing,
                        dark |-> NoFiles, light |-> NoFiles]

MCInit ==
    \/ cli = "launcher" /\ Init /\ KeyIdle /\ LaunchIdle /\ ConvertIdle /\ ThemeIdle
    \/ cli = "keybinding" /\ Init /\ focus = w1 /\ KeyInit /\ LaunchIdle
       /\ ConvertIdle /\ ThemeIdle
    \/ cli = "launch" /\ Init /\ focus = w1 /\ KeyIdle /\ ConvertIdle /\ ThemeIdle
       /\ launchIn \in LaunchInputs /\ spawned = NoProcess
    \/ cli = "convert" /\ Init /\ focus = w1 /\ KeyIdle /\ LaunchIdle /\ ThemeIdle
       /\ strIn \in ShortStrings
       /\ colorIn \in {Rgba(r, g, b, a) : r, g, b, a \in SampleBytes}
    \/ cli = "theme" /\ Init /\ focus = w1 /\ KeyIdle /\ LaunchIdle /\ ConvertIdle
       /\ themeIn \in ThemeInputs

MCNext ==
    \/ cli = "launcher" /\ Next
       /\ UNCHANGED <<keyVars, launchVars, cli, strIn, colorIn, themeIn>>
    \/ cli = "keybinding" /\ KeybindingNext
       /\ UNCHANGED <<vars, launchVars, cli, strIn, colorIn, themeIn>>
    \/ cli = "launch" /\ LaunchApp
       /\ UNCHANGED <<vars, keyVars, cli, strIn, colorIn, themeIn>>
    \/ cli \in {"convert", "theme"} /\ UNCHANGED mcVars
    \/ cli = "launch" /\ (spawned # NoProcess \/ launchIn.lc = NoLaunch)
       /\ UNCHANGED mcVars

MCSpec == MCInit /\ [][MCNext]_mcVars

MCOrder == <<w1, w2, w3>>

\* Whenever no launcher runs, the MRU file holds a state and every focus
\* change since it was written went through a launcher, its second line is
\* the focused window and its first line the window focused before it.
\* The file keeps tracking focus across sessions that activate, fail to
\* activate, pick the window of origin again or end without a result,
\* across closed windows, and it recovers on the next save after a
\* launcher was killed or the user focused a window directly
\* (save_activated_window, mru.rs:74; run_launcher, main.rs:417-422).
MruTracksFocus ==
    pc = "idle" /\ mru # NoMru /\ ~stale => mru.cur = focus /\ mru.prev = before

\* With two or more windows, the quick-switch target of run_launcher
\* (main.rs:338) is never the window of origin: a quick Alt+Tab always
\* moves the focus (mru.rs:4, integration_mru.rs
\* test_mru_toggle_between_two_windows).
QuickSwitchMoves ==
    pc = "activate" /\ quick /\ Cardinality(listed) >= 2 => chosen # origin
\* A RON string literal read from just after its opening quote: \\ and \"
\* stand for \ and ", an unescaped " ends it.
RECURSIVE ReadLiteral(_, _)
ReadLiteral(t, acc) ==
    IF t = <<>> THEN [ok |-> FALSE, value |-> acc, rest |-> t]
    ELSE IF t[1] = Quote THEN [ok |-> TRUE, value |-> acc, rest |-> Tail(t)]
    ELSE IF t[1] # Backslash THEN ReadLiteral(Tail(t), Append(acc, t[1]))
    ELSE IF Len(t) >= 2 /\ t[2] \in {Quote, Backslash}
         THEN ReadLiteral(Tail(Tail(t)), Append(acc, t[2]))
    ELSE [ok |-> FALSE, value |-> acc, rest |-> t]

\* format_keybinding writes key: "<key>" and Spawn("<command>") with the
\* key and command passed through escape_ron_string (cosmic_keys.rs:60-73):
\* COSMIC reads back exactly the string that was written, and the literal
\* ends at the quote format_keybinding put after it, so no key or command
\* can end the string early and inject RON (test_format_keybinding_escapes_
\* injection tries one such command).
SpawnLiteralRoundTrips ==
    ReadLiteral(EscapeRonString(strIn) \o <<Quote, Plain>>, <<>>)
        = [ok |-> TRUE, value |-> strIn, rest |-> <<Plain>>]

\* The shortcuts file holds each of the three sesame bindings once after
\* --setup-keybinding and none after --remove-keybinding, across repeated
\* setups, removals and user edits, whatever form the file had; and while
\* COSMIC Settings has not re-serialised a sesame binding it stays a map
\* COSMIC can parse (add_binding's comma and last-brace handling,
\* remove_sesame_bindings' line filter; cosmic_keys.rs:128-206).
KeybindingFileIntact ==
    file # Absent =>
        /\ \A c \in SesameCmds : CmdCount(file, c) = IF installed THEN 1 ELSE 0
        /\ ~pretty => WellFormed(file)

\* The commands bound in the shortcuts file.
Bound == IF file = Absent THEN {} ELSE Commands(file)

Abstract == INSTANCE Shortcuts WITH UserCmds <- UserCmds \ UserSesameCmds,
                                    Ours <- SesameCmds,
                                    bound <- Bound \ UserSesameCmds

\* The keybinding commands implement Shortcuts for every user shortcut
\* whose command does not contain the word "sesame": every setup adds
\* exactly sesame's bindings, every removal takes away exactly those, and
\* a COSMIC Settings save changes exactly the one user shortcut it saves;
\* no such user shortcut is lost or gained by setup_keybinding or
\* remove_keybinding, whatever form the file had.  A user shortcut whose
\* command does contain the word is deleted by both (the line filter of
\* remove_sesame_bindings), so it is left out of the mapping.
KeybindingRefinesShortcuts == Abstract!Spec

\* The definitions of the env files of paths, in reading order: the lines
\* that set a name, file after file, skipping files that are missing or
\* cannot be read.
EnvDefs(paths, fs) ==
    FlattenSeq([i \in DOMAIN paths |->
                  IF fs[paths[i]] \in {MissingFile, UnreadableFile} THEN <<>>
                  ELSE SelectSeq(fs[paths[i]],
                                 LAMBDA l : l.kind = "kv" /\ l.key # "")])

\* The environment the launcher doc comment (launcher.rs:76-80) promises:
\* a name has the value it is given last when the global env files, then
\* the binding's env files, then its explicit env are read in order, and
\* otherwise the inherited value.
DocumentedEnv(in) ==
    LET defs == EnvDefs(in.globalFiles, in.fs) \o EnvDefs(in.lc.envFiles, in.fs)
                \o [i \in 1..Cardinality(DOMAIN in.lc.env) |->
                      LET k == SetToSeq(DOMAIN in.lc.env)[i]
                      IN  Assign(k, in.lc.env[k], FALSE)]
        named == {defs[i].key : i \in DOMAIN defs}
        lastDef(k) == defs[Max({i \in DOMAIN defs : defs[i].key = k})].val
    IN  [k \in named \cup DOMAIN in.inherited |->
            IF k \in named THEN lastDef(k) ELSE in.inherited[k]]

\* The application run_launcher launches for a key is the command and
\* arguments of the key's launch config, started with the documented
\* environment layering: inherited, global env files, the binding's env
\* files, its explicit env, later files and later lines overriding
\* earlier ones, missing and unreadable files skipped (main.rs:388-397,
\* LaunchCommand::execute, load_env_files, parse_env_file).
LaunchedAsConfigured ==
    spawned \notin {NoProcess, SpawnFailed} =>
        /\ spawned.command = launchIn.lc.command
        /\ spawned.args = launchIn.lc.args
        /\ spawned.env = DocumentedEnv(launchIn)
\* A color serialised by to_hex (Config::to_toml, default_toml) is read
\* back by from_hex as the same color, and the six-digit form of the same
\* text as the color with full alpha (schema.rs:53-113).
ColorRoundTrips ==
    /\ FromHex(ToHex(colorIn)) = colorIn
    /\ FromHex(SubSeq(ToHex(colorIn), 1, 7)) = [colorIn EXCEPT !.a = 255]

\* The overlay's theme (Theme::from_config) shows every colour the user
\* changed from its default in the field that setting names, whether or
\* not COSMIC's theme loads and whichever mode it is in; and the secondary
\* text is always the primary text at 70% alpha, so the title and the app
\* name of a row stay the same colour (theme.rs:110-245).
ThemeLayering ==
    LET t == ThemeFromConfig(themeIn.settings, themeIn.isDark, themeIn.dark, themeIn.light)
    IN  /\ \A s \in ColorSettings :
               themeIn.settings[s] # DefaultThemeSettings[s] => t[FieldOf[s]] = themeIn.settings[s]
        /\ t.text_secondary = Dimmed(t.text_primary)
====
