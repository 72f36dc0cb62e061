-------------------------------- MODULE Launch --------------------------------
(***************************************************************************)
(* Launching the application bound to a key (main.rs:388-397): the launch *)
(* config of the key becomes a LaunchCommand (schema.rs:246-290) whose    *)
(* execute (launcher.rs:81-104) spawns the command with the environment    *)
(* layered as inherited, then the global env files of the settings, then  *)
(* the env files of the binding, then its explicit env.  Env files are    *)
(* read by load_env_files and parse_env_file (util/env.rs).               *)
(*                                                                         *)
(* Names, values, commands and paths are model values.  A line of an env  *)
(* file is blank or a comment, a line without "=", or key=value (with or   *)
(* without "export "); the quoting and escapes of parse_env_value are not  *)
(* modelled, so a value is read as written.  A file is missing, unreadable *)
(* or its sequence of lines.                                               *)
(***************************************************************************)
EXTENDS Naturals, Sequences, SequencesExt

CONSTANTS
    MissingFile,    \* the path does not exist
    UnreadableFile  \* read_to_string fails

Skip == [kind |-> "skip", key |-> "", val |-> "", export |-> FALSE]
NoEq == [kind |-> "noeq", key |-> "", val |-> "", export |-> FALSE]
Assign(k, v, ex) == [kind |-> "kv", key |-> k, val |-> v, export |-> ex]

(***************************************************************************)
(* parse_env_file (env.rs:18-58): blank and comment lines and lines       *)
(* without "=" are skipped, "export " is stripped, an empty key is         *)
(* dropped, and a later line for a key overwrites an earlier one.          *)
(***************************************************************************)
ParseEnvFile(lines) ==
    FoldLeft(LAMBDA env, l :
                 IF l.kind = "kv" /\ l.key # "" THEN (l.key :> l.val) @@ env
                 ELSE env,
             <<>>, lines)

(***************************************************************************)
(* load_env_files (env.rs:124-147): missing and unreadable files are      *)
(* skipped, and each file read extends the map, overwriting earlier files. *)
(***************************************************************************)
LoadEnvFilesFirstWins(paths, fs) ==
    FoldLeft(LAMBDA env, p :
                 IF fs[p] \in {MissingFile, UnreadableFile} THEN env
                 ELSE env @@ ParseEnvFile(fs[p]),
             <<>>, paths)

LoadEnvFiles(paths, fs) ==
    FoldLeft(LAMBDA env, p :
                 IF fs[p] \in {MissingFile, UnreadableFile} THEN env
                 ELSE ParseEnvFile(fs[p]) @@ env,
             <<>>, paths)

(***************************************************************************)
(* LaunchConfig (schema.rs:227-290): Simple(command) has no arguments, env *)
(* files or env; to_launch_command copies the fields of Advanced.          *)
(***************************************************************************)
Simple(cmd) == [command |-> cmd, args |-> <<>>, envFiles |-> <<>>, env |-> <<>>]
Advanced(cmd, args, files, env) ==
    [command |-> cmd, args |-> args, envFiles |-> files, env |-> env]

(***************************************************************************)
(* LaunchCommand::execute: Command::envs applied in the order global      *)
(* files, app files, explicit env, each overriding the inherited           *)
(* environment and what was set before.                                    *)
(***************************************************************************)
ExecuteEnv(lc, globalFiles, inherited, fs) ==
    lc.env @@ LoadEnvFiles(lc.envFiles, fs) @@ LoadEnvFiles(globalFiles, fs)
    @@ inherited

VARIABLES
    launchIn,   \* the key's launch config, the global env files, the inherited
                \* environment and the env files on disk
    spawned     \* the process execute spawned, NoProcess or SpawnFailed

launchVars == <<launchIn, spawned>>

\* The process spawned by execute: its command, arguments and environment.
Spawned(lc, globalFiles, inherited, fs) ==
    [command |-> lc.command, args |-> lc.args,
     env |-> ExecuteEnv(lc, globalFiles, inherited, fs)]

NoProcess == [command |-> "none", args |-> <<>>, env |-> <<>>]
SpawnFailed == [command |-> "failed", args |-> <<>>, env |-> <<>>]

\* Config::launch_config of a key without a launch entry (schema.rs:396-398).
NoLaunch == Simple("none")

(***************************************************************************)
(* The launch branch of run_launcher (main.rs:388-397) once App::run       *)
(* returned a Launch result: if the key has a launch config, its          *)
(* LaunchCommand is executed with the global env files of the settings;   *)
(* a failed spawn is only logged.                                          *)
(***************************************************************************)
LaunchApp ==
    /\ spawned = NoProcess
    /\ launchIn.lc # NoLaunch
    /\ spawned' \in {Spawned(launchIn.lc, launchIn.globalFiles, launchIn.inherited,
                              launchIn.fs),
                     SpawnFailed}
    /\ UNCHANGED launchIn
====
