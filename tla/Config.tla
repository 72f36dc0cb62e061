-------------------------------- MODULE Config --------------------------------
(***************************************************************************)
(* Configuration loading and the key binding lookup: load_config and      *)
(* deep_merge (src/src/config/loader.rs) and Config::key_for_app           *)
(* (src/src/config/schema.rs).                                             *)
(*                                                                         *)
(* A parsed file is an overlay: the scalar settings (serde fills a field  *)
(* the file leaves out from Settings::default), env_files, and the keys   *)
(* the file lists (a missing [keys] table is an empty map).  A file that  *)
(* is absent is Absent; one that cannot be read or parsed is Invalid.     *)
(* A key name and an app pattern are sequences of characters.  A HashMap  *)
(* iteration order is a sequence of the map's keys.                       *)
(***************************************************************************)
EXTENDS Hints

CONSTANTS
    SettingNames,       \* the scalar fields of Settings
    DefaultSettings,    \* Settings::default, a function on SettingNames
    DefaultKeys,        \* default_keys(): key name -> [apps, launch]
    TomlNames,          \* names of config.d entries with the toml extension
    Absent,             \* a file that does not exist
    Invalid             \* a file that exists but fails to read or parse

\* The result of a load that returned an error.
LoadError == [failed |-> TRUE]

\* Config::default.
DefaultConfig ==
    [settings |-> DefaultSettings, envFiles |-> <<>>, keys |-> DefaultKeys]

\* deep_merge: a setting is taken from the overlay only when it differs
\* from its default; env_files only when non-empty; every key of the
\* overlay replaces or adds the binding of that key.
DeepMerge(base, overlay) ==
    [settings |-> [s \in SettingNames |->
                     IF overlay.settings[s] # DefaultSettings[s]
                     THEN overlay.settings[s] ELSE base.settings[s]],
     envFiles |-> IF overlay.envFiles # <<>> THEN overlay.envFiles ELSE base.envFiles,
     keys     |-> overlay.keys @@ base.keys]

\* merge_config_file, with the ? of its caller: an absent file is skipped,
\* a read or parse error ends the load with an error.
MergeConfigFile(config, file) ==
    IF config = LoadError \/ file = Absent THEN config
    ELSE IF file = Invalid THEN LoadError
    ELSE DeepMerge(config, file)

\* Faulty variant: merges config.d in the order read_dir lists it.
ConfigDEntriesUnsorted(dirOrder) ==
    SelectSeq(dirOrder, LAMBDA n : n \in TomlNames)

\* The config.d entries load_config merges: read_dir's listing (dirOrder,
\* the names of the existing entries in the order the directory yields
\* them) filtered to the toml extension and sorted by path.
ConfigDEntries(dirOrder) ==
    SortSeq(SelectSeq(dirOrder, LAMBDA n : n \in TomlNames), LAMBDA a, b : a < b)

\* load_config: the system file, the user file, then config.d.
LoadConfig(system, user, configD, dirOrder) ==
    LET entries == ConfigDEntries(dirOrder)
        files == <<system, user>> \o [i \in DOMAIN entries |-> configD[entries[i]]]
    IN  FoldLeft(MergeConfigFile, DefaultConfig, files)

\* load_config_from_paths (the --config flag): the paths in order over the
\* defaults; unlike load_config a path that does not exist is an error.
\* A path is the file it names ("-", stdin, reads as a file does).
LoadConfigFromPaths(paths) ==
    FoldLeft(LAMBDA config, file :
                 IF config = LoadError \/ file \in {Absent, Invalid} THEN LoadError
                 ELSE DeepMerge(config, file),
             DefaultConfig, paths)

(***************************************************************************)
(* key_for_app: the bindings are visited in HashMap order and, within one *)
(* binding, the patterns in order; a pattern matches when it equals the   *)
(* app id, equals it ignoring case, or equals its last segment ignoring   *)
(* case.  The first matching binding returns the first character of its   *)
(* key name, which is None for an empty name.                             *)
(***************************************************************************)
\* Faulty variant: the last segment is compared without lower-casing.
PatternMatchesCaseSensitiveSegment(p, app) ==
    \/ p = app
    \/ LowerSeq(p) = LowerSeq(app)
    \/ p = LastSegment(app)

PatternMatches(p, app) ==
    \/ p = app
    \/ LowerSeq(p) = LowerSeq(app)
    \/ LowerSeq(p) = LowerSeq(LastSegment(app))

BindingMatches(binding, app) ==
    \E j \in DOMAIN binding.apps : PatternMatches(binding.apps[j], app)

KeyForApp(keys, keyOrder, app) ==
    LET hits == {i \in DOMAIN keyOrder : BindingMatches(keys[keyOrder[i]], app)}
        first == keyOrder[Min(hits)]
    IN  IF hits = {} \/ first = <<>> THEN NoKey ELSE first[1]

(***************************************************************************)
(* ConfigValidator::validate, run by --validate-config on the loaded      *)
(* config.  An issue is its severity, what it is about and the key it     *)
(* names; the message text is left out.  Of the settings only             *)
(* activation_delay is checked here (border_width is not a setting of     *)
(* this model).                                                            *)
(***************************************************************************)
Issue(severity, kind, key) == [severity |-> severity, kind |-> kind, key |-> key]

ValidateSettings(settings) ==
    IF settings["activation_delay"] > 5000
    THEN <<Issue("Warning", "slow_delay", <<>>)>> ELSE <<>>

\* The per-key checks of validate_keys: an empty name, a name longer than
\* one character, a binding with neither apps nor a launch command.
KeyIssues(keys, k) ==
    SelectSeq(<<Issue("Error", "empty_key", k), Issue("Warning", "long_key", k),
                Issue("Warning", "no_target", k)>>,
              LAMBDA i : \/ i.kind = "empty_key" /\ k = <<>>
                         \/ i.kind = "long_key" /\ Len(k) > 1
                         \/ i.kind = "no_target" /\ keys[k].apps = <<>>
                                                 /\ ~keys[k].launch)

\* Every (key, app pattern) pair, keys in HashMap order, patterns in order.
AppPairs(keys, keyOrder) ==
    FoldLeft(LAMBDA acc, k : acc \o [j \in DOMAIN keys[k].apps |-> <<k, keys[k].apps[j]>>],
             <<>>, keyOrder)

\* Faulty variant: the app_to_key map is keyed by the pattern as written.
DuplicateAppIssuesCaseSensitive(keys, keyOrder) ==
    LET Step(st, pr) ==
          IF pr[2] \in DOMAIN st.appToKey
          THEN IF st.appToKey[pr[2]] # pr[1]
               THEN [st EXCEPT !.issues = Append(@, Issue("Warning", "duplicate_app", pr[1]))]
               ELSE st
          ELSE [st EXCEPT !.appToKey = (pr[2] :> pr[1]) @@ @]
    IN  FoldLeft(Step, [appToKey |-> <<>>, issues |-> <<>>], AppPairs(keys, keyOrder)).issues

\* The second loop of validate_keys: app_to_key maps a lower-cased pattern
\* to the first key that lists it; a later key listing it again is a
\* warning, the same key listing it again is not.
DuplicateAppIssues(keys, keyOrder) ==
    LET Step(st, pr) ==
          LET app == LowerSeq(pr[2]) IN
          IF app \in DOMAIN st.appToKey
          THEN IF st.appToKey[app] # pr[1]
               THEN [st EXCEPT !.issues = Append(@, Issue("Warning", "duplicate_app", pr[1]))]
               ELSE st
          ELSE [st EXCEPT !.appToKey = (app :> pr[1]) @@ @]
    IN  FoldLeft(Step, [appToKey |-> <<>>, issues |-> <<>>], AppPairs(keys, keyOrder)).issues

ValidateKeys(keys, keyOrder) ==
    FoldLeft(LAMBDA acc, k : acc \o KeyIssues(keys, k), <<>>, keyOrder)
      \o DuplicateAppIssues(keys, keyOrder)

Validate(config, keyOrder) ==
    ValidateSettings(config.settings) \o ValidateKeys(config.keys, keyOrder)
====
