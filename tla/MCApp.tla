-------------------------------- MODULE MCApp --------------------------------
(***************************************************************************)
(* Model-checking instance of App, with its properties.                   *)
(***************************************************************************)
EXTENDS App

\* Windows of two apps, "f.F" (auto key f) and "g", in lists of one or two
\* windows: hints f, ff, g, f g, g f, g gg.
MCApps == {<<"f", ".", "F">>, <<"g">>}
MCWindowChoices == UNION {[1..n -> MCApps] : n \in 1..2}
MCKeyFor == [a \in MCApps |-> NoKey]
MCIpcCommands == {"CycleForward", "CycleBackward"}

-----------------------------------------------------------------------------
\* Whenever the loop waits in the poll, the surface shows the current
\* state: every handler that changes what draw renders either draws
\* itself (process_event, configure) or leaves needs_redraw set for the
\* "Render if needed" step, and nothing is lost to a draw made before the
\* first configure.
DisplayCurrentWhenIdle ==
    pc = "poll" /\ configured /\ running => screen = Shown(state)

\* In switcher mode, once the user lets go of Alt for good the session
\* ends, whether Alt was released before the keyboard entered the overlay
\* (alt_held starts true) or after: update_modifiers turns the release
\* into AltReleased and every state exits on it.
SwitcherEndsOnAltRelease ==
    ~launcher => (<>[]~userAlt => <>(pc = "done"))

\* The doc comment of AppState::initial: launcher mode makes a quick
\* Alt+Space release behave like a quick Alt+Tab one, which ends the
\* session.  Checked for both modes.
AltReleaseEndsSession ==
    <>[]~userAlt => <>(pc = "done")

\* While Alt stays held after Alt+Tab and nothing else happens (no key, no
\* IPC command, no close), the border gives way to the full overlay once overlay_delay has passed (spec
\* section 4, BorderOnly Tick).
OverlayAppears ==
    (~launcher /\ [](userAlt /\ userEvents = 0 /\ ipcSent = 0 /\ ~closedSent))
        => <>(state.kind # "BorderOnly")
====
