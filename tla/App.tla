---------------------------------- MODULE App ----------------------------------
(***************************************************************************)
(* The event loop of App::run (src/src/app/mod.rs) and the redraw flag of  *)
(* the Renderer (src/src/app/renderer.rs), composed with the state machine *)
(* of AppState.                                                            *)
(*                                                                         *)
(* One loop iteration: dispatch_pending runs the Wayland handlers of the   *)
(* events already read, one event per step; Tick goes through             *)
(* process_event; the IPC channel is drained with try_recv and each        *)
(* command goes through process_event; the surface is drawn if             *)
(* needs_redraw; the 10 ms poll reads what the compositor sent since.      *)
(*                                                                         *)
(* The environment: the compositor sends configure first, keyboard enter  *)
(* (with the current modifiers) once the surface is mapped, and possibly   *)
(* closed; the user presses keys, Shift and Alt; other instances send      *)
(* cycle commands over IPC.  No frame event is ever delivered: frame      *)
(* events answer wl_surface.frame requests and App::draw makes none.       *)
(***************************************************************************)
EXTENDS AppState

CONSTANTS
    MaxUserEvents,      \* key presses and modifier changes in one session
    MaxIpcCommands,     \* cycle commands other instances send in one session
    IpcCommands,        \* the commands the IPC channel may carry
    ReadMayFail         \* whether reading the Wayland socket may fail

VARIABLES
    launcher,       \* launcher_mode
    running,        \* App.running
    altHeld,        \* App.alt_held
    shiftHeld,      \* App.shift_held
    configured,     \* the Renderer has a non-zero size
    needsRedraw,    \* Renderer.needs_redraw
    screen,         \* what the last committed buffer shows, NoScreen before any
    pc,             \* the step of the loop iteration
    queue,          \* Wayland events read, waiting for dispatch_pending
    cmds,           \* IPC commands collected this iteration, not yet processed
    wire,           \* Wayland events sent by the compositor, not yet read
    channel,        \* the mpsc channel of the IPC listener thread
    userAlt,        \* the user holds Alt
    userShift,      \* the user holds Shift
    entered,        \* keyboard focus has entered the surface
    closedSent,     \* the compositor has closed the layer surface
    userEvents,     \* user events so far
    ipcSent         \* IPC commands sent so far

loopVars == <<launcher, running, altHeld, shiftHeld, configured, needsRedraw,
              screen, pc, queue, cmds>>
envVars == <<wire, channel, userAlt, userShift, entered, closedSent,
             userEvents, ipcSent>>
allVars == <<vars, loopVars, envVars>>

NoScreen == <<"none">>

\* Wayland events as the handlers receive them.
KeyEv(k) == [type |-> "key", key |-> k]
ModifiersEv(alt, shift) == [type |-> "modifiers", alt |-> alt, shift |-> shift]
ConfigureEv == [type |-> "configure"]
ClosedEv == [type |-> "closed"]

HasAction(acts, a) == \E i \in DOMAIN acts : acts[i] = a

(***************************************************************************)
(* Renderer::render called by App::draw: nothing is drawn before the first *)
(* configure (width 0); otherwise the state is drawn, committed and        *)
(* needs_redraw cleared.  nr is needs_redraw before the call.              *)
(***************************************************************************)
Render(s, isConfigured, nr) ==
    IF isConfigured THEN screen' = Shown(s) /\ needsRedraw' = FALSE
    ELSE screen' = screen /\ needsRedraw' = nr

(***************************************************************************)
(* App::process_event: handle_event, then ScheduleRedraw sets the redraw   *)
(* flag and Exit clears running, then a draw if there were any actions.    *)
(***************************************************************************)
ProcessEvent(e) ==
    /\ Handle(e)
    /\ running' = (running /\ ~HasAction(actions', "Exit"))
    /\ LET nr == needsRedraw \/ HasAction(actions', "ScheduleRedraw") IN
       IF actions' # <<>> THEN Render(state', configured, nr)
       ELSE screen' = screen /\ needsRedraw' = nr

\* dispatch_pending delivering the next event read, of type t.
Dispatching(t) ==
    /\ pc = "dispatch"
    /\ queue # <<>>
    /\ Head(queue).type = t
    /\ queue' = Tail(queue)

\* press_key (and repeat_key): a KeyPress with the current shift_held.
PressKey ==
    /\ Dispatching("key")
    /\ ProcessEvent(KeyPress(Head(queue).key, shiftHeld))
    /\ UNCHANGED <<launcher, altHeld, shiftHeld, configured, pc, cmds>>
    /\ UNCHANGED envVars

\* Faulty variants: alt_held is overwritten before it is read, or the
\* AltReleased transition is applied by calling handle_event directly,
\* without the actions process_event carries out.
UpdateModifiersReadsAfterWrite ==
    LET ev == Head(queue) IN
    /\ Dispatching("modifiers")
    /\ altHeld' = ev.alt
    /\ shiftHeld' = ev.shift
    /\ IF ev.alt /\ ~ev.alt
       THEN ProcessEvent([name |-> "AltReleased"])
       ELSE UNCHANGED <<state, actions, hints, prev, running, screen, needsRedraw>>
    /\ UNCHANGED <<launcher, configured, pc, cmds>>
    /\ UNCHANGED envVars

UpdateModifiersSkipsActions ==
    LET ev == Head(queue) IN
    /\ Dispatching("modifiers")
    /\ altHeld' = ev.alt
    /\ shiftHeld' = ev.shift
    /\ IF altHeld /\ ~ev.alt
       THEN Handle([name |-> "AltReleased"]) /\ UNCHANGED <<running, screen, needsRedraw>>
       ELSE UNCHANGED <<state, actions, hints, prev, running, screen, needsRedraw>>
    /\ UNCHANGED <<launcher, configured, pc, cmds>>
    /\ UNCHANGED envVars

\* update_modifiers: AltReleased when Alt goes from held to not held.
UpdateModifiers ==
    LET ev == Head(queue) IN
    /\ Dispatching("modifiers")
    /\ altHeld' = ev.alt
    /\ shiftHeld' = ev.shift
    /\ IF altHeld /\ ~ev.alt
       THEN ProcessEvent([name |-> "AltReleased"])
       ELSE UNCHANGED <<state, actions, hints, prev, running, screen, needsRedraw>>
    /\ UNCHANGED <<launcher, configured, pc, cmds>>
    /\ UNCHANGED envVars

\* LayerShellHandler::configure: Renderer::configure sets the size and the
\* redraw flag, Configure goes through process_event (every state takes
\* the default arm, so no actions), and the surface is drawn.
Configure ==
    /\ Dispatching("configure")
    /\ configured' = TRUE
    /\ Handle([name |-> "Configure"])
    /\ running' = running
    /\ Render(state', TRUE, TRUE)
    /\ UNCHANGED <<launcher, altHeld, shiftHeld, pc, cmds>>
    /\ UNCHANGED envVars

\* LayerShellHandler::closed
Closed ==
    /\ Dispatching("closed")
    /\ running' = FALSE
    /\ UNCHANGED vars
    /\ UNCHANGED <<launcher, altHeld, shiftHeld, configured, needsRedraw, screen,
                   pc, cmds>>
    /\ UNCHANGED envVars
(***************************************************************************)
(* The rest of one iteration of the while loop of App::run.                *)
(***************************************************************************)
\* dispatch_pending has run every handler; flush sends nothing modelled.
DispatchDone ==
    /\ pc = "dispatch"
    /\ queue = <<>>
    /\ pc' = "tick"
    /\ UNCHANGED <<vars, launcher, running, altHeld, shiftHeld, configured,
                   needsRedraw, screen, queue, cmds>>
    /\ UNCHANGED envVars

LoopTick ==
    /\ pc = "tick"
    /\ ProcessEvent([name |-> "Tick"])
    /\ pc' = "collect"
    /\ UNCHANGED <<launcher, altHeld, shiftHeld, configured, queue, cmds>>
    /\ UNCHANGED envVars

\* The try_recv loop takes every command the listener thread has sent.
CollectIpc ==
    /\ pc = "collect"
    /\ cmds' = channel
    /\ channel' = <<>>
    /\ pc' = "ipc"
    /\ UNCHANGED <<vars, launcher, running, altHeld, shiftHeld, configured,
                   needsRedraw, screen, queue>>
    /\ UNCHANGED <<wire, userAlt, userShift, entered, closedSent, userEvents, ipcSent>>

HandleIpc ==
    /\ pc = "ipc"
    /\ cmds # <<>>
    /\ ProcessEvent([name |-> Head(cmds)])
    /\ cmds' = Tail(cmds)
    /\ UNCHANGED <<launcher, altHeld, shiftHeld, configured, pc, queue>>
    /\ UNCHANGED envVars

IpcDone ==
    /\ pc = "ipc"
    /\ cmds = <<>>
    /\ pc' = "redraw"
    /\ UNCHANGED <<vars, launcher, running, altHeld, shiftHeld, configured,
                   needsRedraw, screen, queue, cmds>>
    /\ UNCHANGED envVars

\* "Render if needed"
RedrawIfNeeded ==
    /\ pc = "redraw"
    /\ IF needsRedraw THEN Render(state, configured, needsRedraw)
       ELSE UNCHANGED <<screen, needsRedraw>>
    /\ pc' = "poll"
    /\ UNCHANGED <<vars, launcher, running, altHeld, shiftHeld, configured, queue, cmds>>
    /\ UNCHANGED envVars

\* event_loop.dispatch: the Wayland source reads what the compositor has
\* sent into the queue (dispatched next iteration); then while app.running.
Poll ==
    /\ pc = "poll"
    /\ queue' = queue \o wire
    /\ wire' = <<>>
    /\ pc' = IF running THEN "dispatch" ELSE "done"
    /\ UNCHANGED <<vars, launcher, running, altHeld, shiftHeld, configured,
                   needsRedraw, screen, cmds>>
    /\ UNCHANGED <<channel, userAlt, userShift, entered, closedSent, userEvents, ipcSent>>

\* The Wayland source's read fails with an error other than WouldBlock:
\* the callback clears app.running and the loop ends after this dispatch.
ReadError ==
    /\ pc = "poll"
    /\ ReadMayFail
    /\ running' = FALSE
    /\ pc' = "done"
    /\ UNCHANGED <<vars, launcher, altHeld, shiftHeld, configured,
                   needsRedraw, screen, queue, cmds>>
    /\ UNCHANGED envVars

LoopStep ==
    \/ PressKey \/ UpdateModifiers \/ Configure \/ Closed \/ DispatchDone
    \/ LoopTick \/ CollectIpc \/ HandleIpc \/ IpcDone \/ RedrawIfNeeded \/ Poll
    \/ ReadError

(***************************************************************************)
(* The environment.                                                        *)
(***************************************************************************)
Active == pc # "done"

\* The compositor gives the mapped overlay exclusive keyboard focus; enter
\* is followed by the modifiers held at that moment.
KeyboardEnter ==
    /\ Active
    /\ configured
    /\ ~entered
    /\ entered' = TRUE
    /\ wire' = Append(wire, ModifiersEv(userAlt, userShift))
    /\ UNCHANGED <<vars, loopVars, channel, userAlt, userShift, closedSent,
                   userEvents, ipcSent>>

\* Before keyboard enter the surface sees no key and no modifier change.
UserKey(k) ==
    /\ Active
    /\ entered
    /\ userEvents < MaxUserEvents
    /\ wire' = Append(wire, KeyEv(k))
    /\ userEvents' = userEvents + 1
    /\ UNCHANGED <<vars, loopVars, channel, userAlt, userShift, entered,
                   closedSent, ipcSent>>

UserToggleAlt ==
    /\ Active
    /\ userEvents < MaxUserEvents
    /\ userAlt' = ~userAlt
    /\ wire' = IF entered THEN Append(wire, ModifiersEv(~userAlt, userShift)) ELSE wire
    /\ userEvents' = userEvents + 1
    /\ UNCHANGED <<vars, loopVars, channel, userShift, entered, closedSent, ipcSent>>

UserToggleShift ==
    /\ Active
    /\ userEvents < MaxUserEvents
    /\ userShift' = ~userShift
    /\ wire' = IF entered THEN Append(wire, ModifiersEv(userAlt, ~userShift)) ELSE wire
    /\ userEvents' = userEvents + 1
    /\ UNCHANGED <<vars, loopVars, channel, userAlt, entered, closedSent, ipcSent>>

\* The IPC listener thread forwards a command from another instance.
IpcSend(c) ==
    /\ Active
    /\ ipcSent < MaxIpcCommands
    /\ channel' = Append(channel, c)
    /\ ipcSent' = ipcSent + 1
    /\ UNCHANGED <<vars, loopVars, wire, userAlt, userShift, entered, closedSent,
                   userEvents>>

CompositorClose ==
    /\ Active
    /\ ~closedSent
    /\ closedSent' = TRUE
    /\ wire' = Append(wire, ClosedEv)
    /\ UNCHANGED <<vars, loopVars, channel, userAlt, userShift, entered,
                   userEvents, ipcSent>>

Time == Elapse /\ UNCHANGED <<loopVars, envVars>>

Environment ==
    \/ KeyboardEnter \/ \E k \in Keys : UserKey(k) \/ UserToggleAlt
    \/ UserToggleShift \/ \E c \in IpcCommands : IpcSend(c) \/ CompositorClose

\* App::run has returned.
Finished == pc = "done" /\ UNCHANGED allVars

(***************************************************************************)
(* App::run starts with alt_held = !launcher_mode and the state of          *)
(* AppState::initial; create_layer_surface commits the surface, which the  *)
(* compositor answers with configure.  The user holds Alt (Alt+Tab or      *)
(* Alt+Space started the program).                                         *)
(***************************************************************************)
AppInit ==
    \E lm \in LauncherModes :
        /\ InitWith(lm)
        /\ launcher = lm
        /\ running = TRUE
        /\ altHeld = ~lm
        /\ shiftHeld = FALSE
        /\ configured = FALSE
        /\ needsRedraw = FALSE
        /\ screen = NoScreen
        /\ pc = "dispatch"
        /\ queue = <<>>
        /\ cmds = <<>>
        /\ wire = <<ConfigureEv>>
        /\ channel = <<>>
        /\ userAlt = TRUE
        /\ userShift = FALSE
        /\ entered = FALSE
        /\ closedSent = FALSE
        /\ userEvents = 0
        /\ ipcSent = 0

AppNext == LoopStep \/ Environment \/ Time \/ Finished

\* The loop never blocks for long (the poll returns within 10 ms), time
\* passes, and the compositor eventually gives the mapped surface focus.
AppSpec ==
    /\ AppInit /\ [][AppNext]_allVars
    /\ WF_allVars(LoopStep) /\ WF_allVars(Time) /\ WF_allVars(KeyboardEnter)
====
