------------------------------ MODULE Keybinding ------------------------------
(***************************************************************************)
(* The COSMIC keybinding commands of platform/cosmic_keys.rs, run by      *)
(* run_cli (main.rs:205-221): --setup-keybinding rewrites COSMIC's custom  *)
(* shortcuts file so that it holds the three sesame bindings, and          *)
(* --remove-keybinding deletes them.  Both work on the text of the file,   *)
(* line by line, and never parse it.                                       *)
(*                                                                         *)
(* The file is abstracted to its lines, each a sequence of tokens: the     *)
(* braces of the RON map and the entries of the map.  An entry written by  *)
(* format_keybinding sits on one line ("whole"); COSMIC Settings writes    *)
(* the file with one field per line, so its entries are a "head" (the      *)
(* key: "(", "modifiers: [", ..., "key: ...,") and a "tail" line           *)
(* ("): Spawn(cmd),").  A command is a model value; sesame's own commands  *)
(* and the user commands in UserSesameCmds (say a script named            *)
(* sesame-street) contain the word "sesame", and only the tokens that      *)
(* carry a command (whole and tail) can.  The modifiers and keys of the    *)
(* bindings are left out.                                                  *)
(***************************************************************************)
EXTENDS Naturals, FiniteSets, Sequences, SequencesExt

CONSTANTS
    UserCmds,   \* commands of the user's own shortcuts
    UserSesameCmds, \* those of UserCmds whose text contains "sesame"
    Absent,     \* the shortcuts file does not exist
    NoCmd,      \* the command field of a brace token
    MaxSteps    \* bound on the commands and edits of one behaviour

\* The commands of the three bindings setup_keybinding writes
\* (cosmic_keys.rs:166-175); each contains the word "sesame".
Fwd == "sesame"
Bwd == "sesame --backward"
Launch == "sesame --launcher"
SesameCmds == {Fwd, Bwd, Launch}

VARIABLES
    file,       \* the shortcuts file: Absent or a sequence of lines
    users,      \* user shortcuts COSMIC Settings has saved
    installed,  \* the last keybinding command was a setup
    pretty,     \* COSMIC Settings wrote a binding containing "sesame"
    steps       \* commands and edits so far

keyVars == <<file, users, installed, pretty, steps>>

Tok(k, c, comma) == [kind |-> k, cmd |-> c, comma |-> comma]
Open == Tok("open", NoCmd, FALSE)
Close == Tok("close", NoCmd, FALSE)
Whole(c) == Tok("whole", c, TRUE)

(***************************************************************************)
(* escape_ron_string (cosmic_keys.rs:45-55) on a string of characters     *)
(* from a small alphabet: a backslash and a double quote are escaped by a  *)
(* backslash, every other character is kept.                              *)
(***************************************************************************)
Quote == "\""
Backslash == "\\"
Plain == "x"

EscapeQuotesOnly(s) ==
    FlattenSeq([i \in DOMAIN s |-> IF s[i] = Quote THEN <<Backslash, Quote>>
                                  ELSE <<s[i]>>])

EscapeRonString(s) ==
    FlattenSeq([i \in DOMAIN s |-> IF s[i] \in {Quote, Backslash}
                                  THEN <<Backslash, s[i]>>
                                  ELSE <<s[i]>>])

(***************************************************************************)
(* has_sesame_binding, remove_sesame_bindings (cosmic_keys.rs:123-135):    *)
(* line.contains("sesame"), whoever's command carries the word.            *)
(***************************************************************************)
ContainsSesame(t) ==
    t.kind \in {"whole", "tail"} /\ t.cmd \in SesameCmds \cup UserSesameCmds
LineHasSesame(line) == \E i \in DOMAIN line : ContainsSesame(line[i])
HasSesameBinding(content) == \E i \in DOMAIN content : LineHasSesame(content[i])

RemoveFirstSesameLine(content) ==
    LET i == CHOOSE i \in DOMAIN content :
                 /\ LineHasSesame(content[i])
                 /\ \A j \in 1..(i - 1) : ~LineHasSesame(content[j])
    IN  RemoveAt(content, i)

RemoveSesameBindings(content) == SelectSeq(content, LAMBDA l : ~LineHasSesame(l))

(***************************************************************************)
(* add_binding (cosmic_keys.rs:138-160): a file without a closing brace,   *)
(* or an empty map, becomes a map of the one binding; otherwise the text   *)
(* before the last closing brace is kept, a comma is added unless it ends  *)
(* in "{" or ",", and the binding and "}" follow on lines of their own.    *)
(* Whatever followed the last closing brace is dropped.                    *)
(***************************************************************************)
IsClose(t) == t.kind = "close"
Flat(content) == FlattenSeq(content)

AddBindingNoComma(content, b) ==
    LET closing == {i \in DOMAIN content : \E j \in DOMAIN content[i] : IsClose(content[i][j])}
    IN  IF Flat(content) \in {<<>>, <<Open, Close>>} \/ closing = {}
        THEN <<<<Open>>, <<b>>, <<Close>>>>
        ELSE LET li == Max(closing)
                 ti == Max({j \in DOMAIN content[li] : IsClose(content[li][j])})
                 prefix == SubSeq(content[li], 1, ti - 1)
             IN  SubSeq(content, 1, li - 1)
                 \o (IF prefix = <<>> THEN <<>> ELSE <<prefix>>)
                 \o <<<<b>>, <<Close>>>>

AddBinding(content, b) ==
    LET flat == Flat(content)
        closing == {i \in DOMAIN content : \E j \in DOMAIN content[i] : IsClose(content[i][j])}
    IN  IF flat \in {<<>>, <<Open, Close>>} \/ closing = {}
        THEN <<<<Open>>, <<b>>, <<Close>>>>
        ELSE LET li == Max(closing)
                 ti == Max({j \in DOMAIN content[li] : IsClose(content[li][j])})
                 prefix == SubSeq(content[li], 1, ti - 1)
                 before == SubSeq(content, 1, li - 1)
                           \o (IF prefix = <<>> THEN <<>> ELSE <<prefix>>)
                 last == IF before = <<>> THEN Tok("none", NoCmd, FALSE)
                         ELSE Last(Last(before))
                 needsComma == last.kind # "open" /\ ~last.comma
                 withComma ==
                     IF ~needsComma THEN before
                     ELSE IF before = <<>> THEN <<<<Tok("comma", NoCmd, TRUE)>>>>
                     ELSE [before EXCEPT ![Len(before)] =
                               [@ EXCEPT ![Len(@)].comma = TRUE]]
             IN  withComma \o <<<<b>>, <<Close>>>>

(***************************************************************************)
(* read_shortcuts (cosmic_keys.rs:76-84): a missing file reads as "{\n}". *)
(***************************************************************************)
ReadShortcuts == IF file = Absent THEN <<<<Open>>, <<Close>>>> ELSE file

(***************************************************************************)
(* setup_keybinding (cosmic_keys.rs:163-206): remove the sesame lines if   *)
(* there are any, add the forward, backward and launcher bindings in that  *)
(* order and write the file in one fs::write (write_shortcuts, 87-120; its *)
(* backup copy and format warning leave the file alone).                   *)
(***************************************************************************)
SetupContent(content) ==
    LET cleared == IF HasSesameBinding(content)
                   THEN RemoveSesameBindings(content) ELSE content
    IN  AddBinding(AddBinding(AddBinding(cleared, Whole(Fwd)), Whole(Bwd)),
                   Whole(Launch))

SetupKeybinding ==
    /\ steps < MaxSteps
    /\ file' = SetupContent(ReadShortcuts)
    /\ installed' = TRUE
    /\ steps' = steps + 1
    /\ UNCHANGED <<users, pretty>>

(***************************************************************************)
(* remove_keybinding (cosmic_keys.rs:209-224): nothing is written when no  *)
(* line mentions sesame; otherwise every such line is removed.             *)
(***************************************************************************)
RemoveKeybinding ==
    /\ steps < MaxSteps
    /\ IF HasSesameBinding(ReadShortcuts)
       THEN file' = RemoveSesameBindings(ReadShortcuts)
       ELSE UNCHANGED file
    /\ installed' = FALSE
    /\ steps' = steps + 1
    /\ UNCHANGED <<users, pretty>>

(***************************************************************************)
(* The RON map COSMIC reads: "{", entries separated by commas (a trailing *)
(* comma allowed), "}"; an entry is a whole line or a head directly       *)
(* followed by the tail of the same binding.                               *)
(***************************************************************************)
RECURSIVE EntriesParse(_)
EntriesParse(s) ==
    IF Len(s) = 0 THEN TRUE
    ELSE IF s[1].kind = "whole"
         THEN (s[1].comma \/ Len(s) = 1) /\ EntriesParse(Tail(s))
    ELSE /\ Len(s) >= 2 /\ s[1].kind = "head" /\ s[2].kind = "tail"
         /\ s[2].cmd = s[1].cmd
         /\ s[2].comma \/ Len(s) = 2
         /\ EntriesParse(Tail(Tail(s)))

WellFormed(content) ==
    LET flat == Flat(content)
    IN  /\ Len(flat) >= 2
        /\ flat[1] = Open /\ flat[Len(flat)] = Close
        /\ EntriesParse(SubSeq(flat, 2, Len(flat) - 1))

\* How often a command is bound in the file.
CmdCount(content, c) ==
    LET flat == Flat(content)
    IN  Cardinality({i \in DOMAIN flat : flat[i].kind \in {"whole", "tail"}
                                         /\ flat[i].cmd = c})

Commands(content) == {c \in UserCmds \cup SesameCmds : CmdCount(content, c) > 0}

(***************************************************************************)
(* COSMIC Settings (outside this repository) saves the user's shortcuts:  *)
(* it parses the file, adds or removes one user binding and writes the     *)
(* whole map back with one field per line, sesame's bindings included.     *)
(* It needs a file it can parse.                                           *)
(***************************************************************************)
PrettyFile(cmds) ==
    <<<<Open>>>>
    \o FlattenSeq([i \in 1..Cardinality(cmds) |->
                     <<<<Tok("head", SetToSeq(cmds)[i], TRUE)>>,
                       <<Tok("tail", SetToSeq(cmds)[i], TRUE)>>>>])
    \o <<<<Close>>>>

SettingsSave(u) ==
    /\ steps < MaxSteps
    /\ file # Absent => WellFormed(file)
    /\ users' \in {users \cup {u}, users \ {u}}
    /\ users' # users
    /\ file' = PrettyFile((Commands(ReadShortcuts) \ UserCmds) \cup users')
    /\ pretty' = (pretty \/ HasSesameBinding(file'))
    /\ steps' = steps + 1
    /\ UNCHANGED installed

KeybindingNext ==
    \/ SetupKeybinding
    \/ RemoveKeybinding
    \/ \E u \in UserCmds : SettingsSave(u)
    \/ steps = MaxSteps /\ UNCHANGED keyVars
====
