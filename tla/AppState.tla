------------------------------- MODULE AppState -------------------------------
(***************************************************************************)
(* The application state machine AppState::handle_event                    *)
(* (src/src/app/state.rs) with its timeout (src/src/util/timeout.rs).      *)
(*                                                                         *)
(* state is one of the four AppState variants; actions is the action list  *)
(* of the last transition.  hints and prev are the session's inputs        *)
(* (the assigned hints and previous_window_id) and never change.           *)
(*                                                                         *)
(* Time is the number of Elapse steps since start_time or since the        *)
(* activation timeout started, saturated at TimeCap: every comparison the  *)
(* code makes is against a delay no larger than TimeCap.  frame_count is   *)
(* saturated at MaxFrames for the same reason.                             *)
(***************************************************************************)
EXTENDS Hints

CONSTANTS
    WindowChoices,          \* window lists (sequences of app ids) a session may see
    KeyFor,                 \* key_for_app
    LaunchKeys,             \* characters with a launch configuration
    LauncherModes,          \* the values launcher_mode takes
    Keys,                   \* keysyms a KeyPress may carry
    QuickSwitchThreshold,   \* settings.quick_switch_threshold, in Elapse steps
    OverlayDelay,           \* settings.overlay_delay, in Elapse steps
    ActivationDelay,        \* settings.activation_delay, in Elapse steps
    MaxFrames               \* frame counts at or above this are not told apart

VARIABLES
    state,      \* the AppState value
    actions,    \* Transition.actions of the last handled event
    hints,      \* the hints passed to handle_event
    prev        \* previous_window_id

vars == <<state, actions, hints, prev>>

TimeCap == IF QuickSwitchThreshold > OverlayDelay
           THEN IF QuickSwitchThreshold > ActivationDelay
                THEN QuickSwitchThreshold ELSE ActivationDelay
           ELSE IF OverlayDelay > ActivationDelay
                THEN OverlayDelay ELSE ActivationDelay

\* previous_window_id: NoPrev for None, otherwise a window id.  run_launcher
\* only starts the overlay with hints non-empty and always passes the id of
\* one of them (the MRU previous window, else the first hint's window).
NoPrev == -1

(***************************************************************************)
(* Keysyms.  Every one-character string is a printable ASCII keysym; the   *)
(* named keys are not printable.  "Tab" stands for Tab, ISO_Left_Tab and   *)
(* the raw codes is_tab accepts; "Return", "Down" and "Up" for the main   *)
(* and keypad keys the code treats alike; "Shift_L" for any other          *)
(* non-printable key.                                                      *)
(***************************************************************************)
NamedKeys == {"Tab", "Escape", "Return", "BackSpace", "Down", "Up", "Shift_L"}
NoChar == ""
IsTab(k) == k = "Tab"
KeysymToChar(k) == IF k \in NamedKeys THEN NoChar ELSE k

\* The events of Event, by name; a KeyPress also carries a keysym and shift.
EventNames == {"KeyPress", "AltReleased", "Tick", "FrameCallback",
               "CycleForward", "CycleBackward", "Configure"}

(***************************************************************************)
(* AppState variants and ActivationResult values.                          *)
(***************************************************************************)
BorderOnly(frames, elapsed) ==
    [kind |-> "BorderOnly", frames |-> frames, elapsed |-> elapsed]
FullOverlay(sel, in) == [kind |-> "FullOverlay", selected |-> sel, input |-> in]
PendingActivation(i, in) ==
    [kind |-> "Pending", hintIndex |-> i, input |-> in, elapsed |-> 0]
Exiting(r) == [kind |-> "Exiting", result |-> r]

Window(i) == [kind |-> "Window", index |-> i]
QuickSwitch == [kind |-> "QuickSwitch"]
Launch(c) == [kind |-> "Launch", key |-> c]
Cancelled == [kind |-> "Cancelled"]

Redraw == <<"ScheduleRedraw">>
Exit == <<"Exit">>

\* usize::saturating_sub(1), and String::pop on a possibly empty string
SaturatingPred(n) == IF n = 0 THEN 0 ELSE n - 1
Pop(s) == IF s = <<>> THEN s ELSE SubSeq(s, 1, Len(s) - 1)

\* Faulty variant: wraps backwards from 0 to len instead of len - 1.
CycleIndexWrapToLen(current, len, forward) ==
    IF len = 0 THEN 0
    ELSE IF forward THEN (current + 1) % len
    ELSE IF current = 0 THEN len
    ELSE current - 1

\* cycle_index
CycleIndex(current, len, forward) ==
    IF len = 0 THEN 0
    ELSE IF forward THEN (current + 1) % len
    ELSE IF current = 0 THEN len - 1
    ELSE current - 1

\* Selection after a forward / backward Tab or IPC cycle from BorderOnly.
ForwardStart == IF SaturatingPred(Len(hints)) < 1 THEN SaturatingPred(Len(hints)) ELSE 1
BackwardStart == SaturatingPred(Len(hints))

\* Position of the previous window in hints, 0 when absent or None.
PreviousIndex ==
    IF PositionOfWindow(hints, prev) < 0 THEN 0 ELSE PositionOfWindow(hints, prev)

\* What App::draw renders, from the accessors is_full_overlay,
\* selected_hint_index and input: the card with the selection and the
\* typed input, or the border alone.
ShownIndex(s) == IF s.kind = "Pending" THEN s.hintIndex ELSE s.selected
Shown(s) ==
    IF s.kind \in {"FullOverlay", "Pending"} THEN <<"full", ShownIndex(s), s.input>>
    ELSE <<"border">>

\* What Overlay::render_full highlights for a state showing the card: the
\* original index of the hint in the highlighted row, NoRow when no hint is
\* visible.  The selection is clamped to the filtered list and then used as
\* a position in it.
NoRow == -1
Highlighted(s) ==
    LET visible == FilterHints(hints, s.input)
        row == IF ShownIndex(s) < Len(visible) - 1 THEN ShownIndex(s)
               ELSE Len(visible) - 1
    IN  IF visible = <<>> THEN NoRow ELSE visible[row + 1].index

\* One transition: the new state and its actions.
Step(s, acts) == state' = s /\ actions' = acts /\ UNCHANGED <<hints, prev>>

\* AppState::initial
Initial(launcherMode) ==
    IF launcherMode THEN FullOverlay(PreviousIndex, <<>>) ELSE BorderOnly(0, 0)

InitWith(launcherMode) ==
    /\ hints \in {Assign(ws, KeyFor, CHOOSE o \in SetToSeqs(Bases(ws, KeyFor)) : TRUE)
                    : ws \in WindowChoices}
    /\ prev \in {hints[i].window : i \in DOMAIN hints}
    /\ state = Initial(launcherMode)
    /\ actions = <<>>

Init == \E lm \in LauncherModes : InitWith(lm)
-----------------------------------------------------------------------------
(***************************************************************************)
(* BorderOnly arms of handle_event.                                        *)
(***************************************************************************)
BorderOnlyFrameCallback ==
    /\ state.kind = "BorderOnly"
    /\ Step([state EXCEPT !.frames = IF @ < MaxFrames THEN @ + 1 ELSE @], <<>>)

\* The overlay appears once overlay_delay has elapsed and two frames rendered.
BorderOnlyTick ==
    /\ state.kind = "BorderOnly"
    /\ \/ /\ state.elapsed >= OverlayDelay /\ state.frames >= 2
          /\ Step(FullOverlay(PreviousIndex, <<>>), Redraw)
       \/ /\ ~(state.elapsed >= OverlayDelay /\ state.frames >= 2)
          /\ Step(state, <<>>)

\* A release before quick_switch_threshold activates the previous window
\* (or reports QuickSwitch when there is none); a later one window 0.
BorderOnlyAltReleased ==
    /\ state.kind = "BorderOnly"
    /\ Step(Exiting(IF state.elapsed < QuickSwitchThreshold
                    THEN IF prev = NoPrev THEN QuickSwitch ELSE Window(PreviousIndex)
                    ELSE Window(0)),
            Exit)

\* Faulty variant: launches on an unmatched character without looking up a
\* launch configuration.
BorderOnlyCharNoLaunchCheck(c) ==
    LET m == MatchInput(hints, <<c>>) IN
    \/ m.kind = "Exact" /\ Step(PendingActivation(m.index, <<c>>), Redraw)
    \/ m.kind = "Partial" /\ Step(FullOverlay(0, <<c>>), Redraw)
    \/ m.kind = "None" /\ Step(Exiting(Launch(c)), Exit)

\* The first character typed during the border phase.
BorderOnlyChar(c) ==
    LET m == MatchInput(hints, <<c>>) IN
    \/ m.kind = "Exact" /\ Step(PendingActivation(m.index, <<c>>), Redraw)
    \/ m.kind = "Partial" /\ Step(FullOverlay(0, <<c>>), Redraw)
    \/ m.kind = "None" /\ c \in LaunchKeys /\ Step(Exiting(Launch(c)), Exit)
    \/ m.kind = "None" /\ c \notin LaunchKeys /\ Step(FullOverlay(0, <<>>), Redraw)

BorderOnlyKeyPress(k, shift) ==
    /\ state.kind = "BorderOnly"
    /\ \/ IsTab(k) /\ Step(FullOverlay(IF shift THEN BackwardStart ELSE ForwardStart, <<>>),
                           Redraw)
       \/ k = "Escape" /\ Step(Exiting(Cancelled), Exit)
       \/ KeysymToChar(k) # NoChar /\ BorderOnlyChar(KeysymToChar(k))
       \/ /\ ~IsTab(k) /\ k # "Escape" /\ KeysymToChar(k) = NoChar
          /\ Step(FullOverlay(0, <<>>), Redraw)

\* Faulty variant: opens the overlay without asking for a redraw.
BorderOnlyCycleNoRedraw(forward) ==
    /\ state.kind = "BorderOnly"
    /\ Step(FullOverlay(IF forward THEN ForwardStart ELSE BackwardStart, <<>>), <<>>)

BorderOnlyCycle(forward) ==
    /\ state.kind = "BorderOnly"
    /\ Step(FullOverlay(IF forward THEN ForwardStart ELSE BackwardStart, <<>>), Redraw)

(***************************************************************************)
(* FullOverlay arms.  A character extends the input; an exact match starts *)
(* the activation timeout, a partial one keeps the selection, and no match *)
(* launches the key's application or reverts without a redraw.             *)
(***************************************************************************)
FullOverlayChar(c) ==
    LET new == Append(state.input, c)
        m == MatchInput(hints, new)
    IN  \/ m.kind = "Exact" /\ Step(PendingActivation(m.index, new), Redraw)
        \/ m.kind = "Partial" /\ Step(FullOverlay(state.selected, new), Redraw)
        \/ m.kind = "None" /\ c \in LaunchKeys /\ Step(Exiting(Launch(c)), Exit)
        \/ m.kind = "None" /\ c \notin LaunchKeys
           /\ Step(FullOverlay(state.selected, state.input), <<>>)

FullOverlayKeyPress(k, shift) ==
    LET sel == state.selected
        in == state.input
    IN
    /\ state.kind = "FullOverlay"
    /\ \/ IsTab(k) /\ Step(FullOverlay(CycleIndex(sel, Len(hints), ~shift), in), Redraw)
       \/ k = "Down" /\ Step(FullOverlay(CycleIndex(sel, Len(hints), TRUE), in), Redraw)
       \/ k = "Up" /\ Step(FullOverlay(CycleIndex(sel, Len(hints), FALSE), in), Redraw)
       \/ k = "Return" /\ Step(Exiting(Window(sel)), Exit)
       \/ k = "Escape" /\ Step(Exiting(Cancelled), Exit)
       \/ k = "BackSpace" /\ Step(FullOverlay(sel, Pop(in)), Redraw)
       \/ KeysymToChar(k) # NoChar /\ FullOverlayChar(KeysymToChar(k))
       \/ /\ k \in NamedKeys \ {"Tab", "Down", "Up", "Return", "Escape", "BackSpace"}
          /\ Step(state, <<>>)

FullOverlayAltReleased ==
    /\ state.kind = "FullOverlay"
    /\ Step(Exiting(Window(state.selected)), Exit)

FullOverlayCycle(forward) ==
    /\ state.kind = "FullOverlay"
    /\ Step(FullOverlay(CycleIndex(state.selected, Len(hints), forward), state.input),
            Redraw)

(***************************************************************************)
(* PendingActivation arms.                                                 *)
(***************************************************************************)
PendingTick ==
    /\ state.kind = "Pending"
    /\ \/ state.elapsed >= ActivationDelay /\ Step(Exiting(Window(state.hintIndex)), Exit)
       \/ state.elapsed < ActivationDelay /\ Step(state, <<>>)

\* Faulty variants: an unmatched character is kept in the input, or
\* restarts the activation timeout.
PendingCharKeepsInput(c) ==
    LET new == Append(state.input, c)
        m == MatchInput(hints, new)
    IN  \/ m.kind = "Exact" /\ Step(PendingActivation(m.index, new), Redraw)
        \/ m.kind = "Partial" /\ Step(FullOverlay(state.hintIndex, new), Redraw)
        \/ m.kind = "None" /\ Step([state EXCEPT !.input = new], <<>>)

PendingCharRestartsTimeout(c) ==
    LET new == Append(state.input, c)
        m == MatchInput(hints, new)
    IN  \/ m.kind = "Exact" /\ Step(PendingActivation(m.index, new), Redraw)
        \/ m.kind = "Partial" /\ Step(FullOverlay(state.hintIndex, new), Redraw)
        \/ m.kind = "None" /\ Step(PendingActivation(state.hintIndex, state.input), <<>>)

\* A character while pending: a new exact match restarts the timeout, a
\* partial one returns to the overlay, no match leaves the state alone.
PendingChar(c) ==
    LET new == Append(state.input, c)
        m == MatchInput(hints, new)
    IN  \/ m.kind = "Exact" /\ Step(PendingActivation(m.index, new), Redraw)
        \/ m.kind = "Partial" /\ Step(FullOverlay(state.hintIndex, new), Redraw)
        \/ m.kind = "None" /\ Step(state, <<>>)

PendingKeyPress(k, shift) ==
    /\ state.kind = "Pending"
    /\ \/ KeysymToChar(k) # NoChar /\ PendingChar(KeysymToChar(k))
       \/ k = "Escape" /\ Step(Exiting(Cancelled), Exit)
       \/ k = "BackSpace" /\ Step(FullOverlay(state.hintIndex, Pop(state.input)), Redraw)
       \/ k \in NamedKeys \ {"Escape", "BackSpace"} /\ Step(state, <<>>)

PendingAltReleased ==
    /\ state.kind = "Pending"
    /\ Step(Exiting(Window(state.hintIndex)), Exit)

\* The events each variant has an arm for; any other event falls through to
\* the default arm, which keeps the state and returns no actions.
HandledEvents == [BorderOnly |-> EventNames \ {"Configure"},
                  FullOverlay |-> {"KeyPress", "AltReleased", "CycleForward",
                                   "CycleBackward"},
                  Pending |-> {"KeyPress", "AltReleased", "Tick"},
                  Exiting |-> {}]

Default(e) ==
    /\ e \notin HandledEvents[state.kind]
    /\ Step(state, <<>>)

\* Event values: a KeyPress carries its keysym and the shift state.
KeyPress(k, shift) == [name |-> "KeyPress", key |-> k, shift |-> shift]
Events == {KeyPress(k, shift) : k \in Keys, shift \in BOOLEAN}
          \cup {[name |-> n] : n \in EventNames \ {"KeyPress"}}

\* handle_event: the arm of the match that the state and the event select.
Handle(e) ==
    \/ /\ e.name = "KeyPress"
       /\ \/ BorderOnlyKeyPress(e.key, e.shift)
          \/ FullOverlayKeyPress(e.key, e.shift)
          \/ PendingKeyPress(e.key, e.shift)
    \/ e.name = "FrameCallback" /\ BorderOnlyFrameCallback
    \/ e.name = "Tick" /\ (BorderOnlyTick \/ PendingTick)
    \/ e.name = "AltReleased"
       /\ (BorderOnlyAltReleased \/ FullOverlayAltReleased \/ PendingAltReleased)
    \/ e.name = "CycleForward" /\ (BorderOnlyCycle(TRUE) \/ FullOverlayCycle(TRUE))
    \/ e.name = "CycleBackward" /\ (BorderOnlyCycle(FALSE) \/ FullOverlayCycle(FALSE))
    \/ Default(e.name)

HandleEvent == \E e \in Events : Handle(e)

\* Time passes: start_time and the activation timeout age by one step.
Elapse ==
    /\ state.kind \in {"BorderOnly", "Pending"}
    /\ state.elapsed < TimeCap
    /\ state' = [state EXCEPT !.elapsed = @ + 1]
    /\ UNCHANGED <<actions, hints, prev>>

Next == HandleEvent \/ Elapse

Spec == Init /\ [][Next]_vars

\* The variants of AppState with the fields they carry, and the actions of
\* the last transition (used by the type invariants of the MC modules).
StateTypeOK ==
    /\ state \in [kind : {"BorderOnly"}, frames : 0..MaxFrames, elapsed : 0..TimeCap]
                 \cup [kind : {"FullOverlay"}, selected : Nat, input : Seq(Keys)]
                 \cup [kind : {"Pending"}, hintIndex : Nat, input : Seq(Keys),
                       elapsed : 0..TimeCap]
                 \cup [kind : {"Exiting"},
                       result : [kind : {"Window"}, index : Nat]
                                \cup {QuickSwitch, Cancelled}
                                \cup [kind : {"Launch"}, key : LaunchKeys]]
    /\ actions \in {<<>>, Redraw, Exit}
    /\ prev \in Nat
====
