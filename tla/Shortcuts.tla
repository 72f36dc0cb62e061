------------------------------- MODULE Shortcuts -------------------------------
(***************************************************************************)
(* What the keybinding commands promise about COSMIC's custom shortcuts,  *)
(* as the help of --setup-keybinding and --remove-keybinding (main.rs:36- *)
(* 42) and the doc comments of cosmic_keys.rs describe them: the set of    *)
(* commands bound, where setup adds sesame's bindings, remove takes them   *)
(* away, and neither touches the user's own shortcuts; COSMIC Settings     *)
(* adds or removes one user shortcut at a time.                           *)
(***************************************************************************)
CONSTANTS
    UserCmds,   \* commands of the user's own shortcuts
    Ours        \* the commands of sesame's bindings

VARIABLE bound  \* the commands bound in the shortcuts file

Init == bound \subseteq UserCmds

Setup == bound' = bound \cup Ours

Remove == bound' = bound \ Ours

UserSave(u) ==
    /\ u \in UserCmds
    /\ bound' \in {bound \cup {u}, bound \ {u}}

Next == Setup \/ Remove \/ \E u \in UserCmds : UserSave(u)

Spec == Init /\ [][Next]_bound
====
