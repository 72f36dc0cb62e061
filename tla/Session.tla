-------------------------------- MODULE Session --------------------------------
(***************************************************************************)
(* Consecutive launcher sessions and the MRU file between them: the part  *)
(* of run_launcher (src/src/main.rs) around App::run, the window order of *)
(* enumerate_windows (src/src/platform/wayland/protocols.rs) and the MRU  *)
(* file of src/src/util/mru.rs.                                            *)
(*                                                                         *)
(* A session enumerates the open windows (the focused one is the window   *)
(* of origin), reads the MRU previous window and picks the quick-switch   *)
(* target, runs the overlay (its result is a choice here; AppState models *)
(* how it is reached), activates the chosen window and saves origin and   *)
(* chosen window into the MRU file by truncating it and writing two lines.*)
(* Between sessions the user may focus another window directly and close  *)
(* windows.  Sessions do not overlap: the instance lock is held from      *)
(* before the first MRU read until after the save.                         *)
(***************************************************************************)
EXTENDS Naturals, FiniteSets, Sequences

CONSTANTS
    Windows,        \* window identifiers
    Order,          \* the compositor's toplevel order, a sequence of Windows
    None,           \* no window: an absent MRU line, a session with no result
    CrashPoints,    \* where a launcher may be killed: "activated", "truncated"
    MaxSessions,    \* launcher sessions in one behaviour
    MaxExternal,    \* focus changes the user makes outside the launcher
    MaxCloses,      \* windows closed
    MaxCrashes      \* launchers killed

VARIABLES
    focus,          \* the focused window
    before,         \* the window focused before focus, or None
    open,           \* the open windows
    mru,            \* the MRU file: [prev, cur], each a window or None
    pc,             \* "idle", "activate", "save" or "write"
    origin,         \* the window of origin of the running session
    listed,         \* the windows the running session enumerated
    quick,          \* the session's result is the quick-switch target
    chosen,         \* the window the session activates, or None
    stale,          \* history: the focus moved since the file was last written,
                    \* and no launcher recorded the move
    sessions, externals, closes, crashes

vars == <<focus, before, open, mru, pc, origin, listed, quick, chosen, stale,
          sessions, externals, closes, crashes>>

\* No file, or a file that parse_mru_contents reads as two absent lines.
NoMru == [prev |-> None, cur |-> None]

\* The focus moves to w; before remembers the window it left.
FocusOn(w) ==
    /\ focus' = w
    /\ before' = IF w # focus THEN focus ELSE before

(***************************************************************************)
(* enumerate_windows keeps the toplevel order and moves the focused       *)
(* window to the end, so hints[0] is the first window in Order other than *)
(* the focused one (or the focused one when it is alone).                 *)
(***************************************************************************)
FirstHint(ws, f) ==
    LET others == {i \in 1..Len(Order) : Order[i] \in ws \ {f}}
    IN IF others = {} THEN f
       ELSE Order[CHOOSE i \in others : \A j \in others : i <= j]

\* run_launcher: the MRU previous window when it is among the hints,
\* otherwise hints[0].
QuickSwitchTarget(ws, f, prev) ==
    IF prev \in ws THEN prev ELSE FirstHint(ws, f)

(***************************************************************************)
(* One launcher invocation up to App::run's result.  The result is the    *)
(* quick-switch target (a quick Alt release), any listed window (Tab,     *)
(* hints, Return), or no window (Escape, a launch, a closed surface).     *)
(***************************************************************************)
StartSession ==
    /\ pc = "idle"
    /\ sessions < MaxSessions
    /\ sessions' = sessions + 1
    /\ origin' = focus
    /\ listed' = open
    /\ \/ /\ quick' = TRUE
          /\ chosen' = QuickSwitchTarget(open, focus, mru.prev)
          /\ pc' = "activate"
       \/ /\ quick' = FALSE
          /\ \E w \in open : chosen' = w
          /\ pc' = "activate"
       \/ /\ quick' = FALSE
          /\ chosen' = None
          /\ pc' = "idle"
    /\ UNCHANGED <<focus, before, open, mru, stale, externals, closes, crashes>>

\* platform::activate_window succeeds: the compositor focuses the window.
Activate ==
    /\ pc = "activate"
    /\ chosen \in open
    /\ FocusOn(chosen)
    /\ pc' = "save"
    /\ UNCHANGED <<open, mru, origin, listed, quick, chosen, stale,
                   sessions, externals, closes, crashes>>

\* activate_window returns an error (the window is gone, or a roundtrip
\* timed out); the MRU file is not touched.
ActivateFails ==
    /\ pc = "activate"
    /\ pc' = "idle"
    /\ UNCHANGED <<focus, before, open, mru, origin, listed, quick, chosen,
                   stale, sessions, externals, closes, crashes>>

\* Faulty variant: the file gets the windows in the opposite order.
WriteMruSwapped ==
    /\ pc = "write"
    /\ mru' = [prev |-> chosen, cur |-> origin]
    /\ pc' = "idle"
    /\ stale' = FALSE
    /\ UNCHANGED <<focus, before, open, origin, listed, quick, chosen,
                   sessions, externals, closes, crashes>>

(***************************************************************************)
(* save_activated_window(origin, chosen): nothing when they are equal;    *)
(* otherwise open, flock, seek and set_len(0), then write "origin\n       *)
(* chosen".  The lock is released when the file is dropped.               *)
(***************************************************************************)
SaveActivatedWindow ==
    /\ pc = "save"
    /\ IF origin = chosen
       THEN pc' = "idle" /\ UNCHANGED mru
       ELSE pc' = "write" /\ mru' = NoMru
    /\ UNCHANGED <<focus, before, open, origin, listed, quick, chosen, stale,
                   sessions, externals, closes, crashes>>

WriteMru ==
    /\ pc = "write"
    /\ mru' = [prev |-> origin, cur |-> chosen]
    /\ pc' = "idle"
    /\ stale' = FALSE
    /\ UNCHANGED <<focus, before, open, origin, listed, quick, chosen,
                   sessions, externals, closes, crashes>>

\* The launcher is killed after the activation and before the save, or
\* between the truncation and the write (a failed write_all has the same
\* effect).  The lock is released; the file keeps what it had.
Crash ==
    /\ \/ pc = "save" /\ "activated" \in CrashPoints
       \/ pc = "write" /\ "truncated" \in CrashPoints
    /\ crashes < MaxCrashes
    /\ crashes' = crashes + 1
    /\ pc' = "idle"
    /\ stale' = (stale \/ (pc = "save" /\ chosen # origin))
    /\ UNCHANGED <<focus, before, open, mru, origin, listed, quick, chosen,
                   sessions, externals, closes>>

(***************************************************************************)
(* The user between sessions: clicking another window, or closing one     *)
(* that is not focused (closing the focused one is a focus change to      *)
(* another window followed by this step).                                  *)
(***************************************************************************)
ExternalFocus(w) ==
    /\ pc = "idle"
    /\ externals < MaxExternal
    /\ w \in open \ {focus}
    /\ FocusOn(w)
    /\ externals' = externals + 1
    /\ stale' = TRUE
    /\ UNCHANGED <<open, mru, pc, origin, listed, quick, chosen,
                   sessions, closes, crashes>>

CloseWindow(w) ==
    /\ pc = "idle"
    /\ closes < MaxCloses
    /\ w \in open \ {focus}
    /\ open' = open \ {w}
    /\ closes' = closes + 1
    /\ UNCHANGED <<focus, before, mru, pc, origin, listed, quick, chosen,
                   stale, sessions, externals, crashes>>

Finished ==
    /\ pc = "idle"
    /\ sessions = MaxSessions
    /\ UNCHANGED vars

Init ==
    /\ focus \in Windows
    /\ before = None
    /\ open = Windows
    /\ mru = NoMru
    /\ pc = "idle"
    /\ origin = None
    /\ listed = {}
    /\ quick = FALSE
    /\ chosen = None
    /\ stale = FALSE
    /\ sessions = 0 /\ externals = 0 /\ closes = 0 /\ crashes = 0

Next ==
    \/ StartSession \/ Activate \/ ActivateFails \/ SaveActivatedWindow
    \/ WriteMru \/ Crash
    \/ \E w \in Windows : ExternalFocus(w) \/ CloseWindow(w)
    \/ Finished

Spec == Init /\ [][Next]_vars
====
