---------------------------- MODULE InputProcessor ----------------------------
(***************************************************************************)
(* The library's key-input pipeline: InputProcessor::process_key and      *)
(* check_timeout (src/src/input/processor.rs) over an InputBuffer          *)
(* (src/src/input/buffer.rs) and a TimeoutTracker (src/src/util/timeout.rs)*)
(* matching against the caller's hints (HintMatcher::match_input).  The   *)
(* processor is public library API: a caller may build any WindowHint     *)
(* list, not only the ones HintAssignment::assign produces.               *)
(*                                                                         *)
(* The caller feeds keys and polls check_timeout; it stops once an action *)
(* ends the interaction (Cancel, ActivateNow, ActivateSelected, TryLaunch)*)
(* or check_timeout returns a window.  The timer is started_at as on/off  *)
(* plus the Elapse steps since it started, saturated at ActivationDelay.  *)
(***************************************************************************)
EXTENDS Hints

CONSTANTS
    HintChoices,        \* hint lists (sequences of HintSequence) a caller may pass
    LaunchKeys,         \* characters has_launch_config accepts
    Keys,               \* keysyms: one-character strings and named keys
    ActivationDelay,    \* activation_delay_ms, in Elapse steps
    MaxInputLength,     \* MAX_INPUT_LENGTH
    MaxKeys             \* keys the caller feeds in one behaviour

VARIABLES
    hints,          \* the matcher's hints
    buffer,         \* InputBuffer.chars
    pendingIndex,   \* pending_index (pending_window_id is set and taken with it)
    timerOn,        \* started_at is Some
    elapsed,        \* Elapse steps since started_at
    result,         \* the InputAction of the last call, or the check_timeout result
    keys            \* keys fed so far

vars == <<hints, buffer, pendingIndex, timerOn, elapsed, result, keys>>

NoIndex == -1

\* Results after which the caller stops calling.
Terminal == {"Cancel", "ActivateNow", "ActivateSelected", "TryLaunch", "Activated"}

NamedKeys == {"Escape", "BackSpace", "Return", "Up", "Down", "Shift_L"}

\* keysym_to_char: alphanumeric characters, lower-cased; nothing otherwise.
KeysymToChar(k) ==
    IF k \notin NamedKeys /\ (IsAsciiAlphabetic(k) \/ IsAsciiDigit(k))
    THEN ToLower(k) ELSE ""

\* InputBuffer::push: ignored when the buffer is full.
Push(buf, c) == IF Len(buf) >= MaxInputLength THEN buf ELSE Append(buf, c)

\* InputBuffer::pop.
Pop(buf) == IF buf = <<>> THEN buf ELSE SubSeq(buf, 1, Len(buf) - 1)

Running == result \notin Terminal /\ keys < MaxKeys

\* TimeoutTracker::start / reset and cancel.
StartTimer == timerOn' = TRUE /\ elapsed' = 0
CancelTimer == timerOn' = FALSE /\ elapsed' = 0

Init ==
    /\ hints \in {[i \in DOMAIN hs |-> [hint |-> hs[i], window |-> i - 1, index |-> i - 1]]
                    : hs \in HintChoices}
    /\ buffer = <<>>
    /\ pendingIndex = NoIndex
    /\ timerOn = FALSE
    /\ elapsed = 0
    /\ result = "None"
    /\ keys = 0

(***************************************************************************)
(* process_key, one action per arm of the match on the keysym.             *)
(***************************************************************************)
KeyStep(r) == result' = r /\ keys' = keys + 1 /\ UNCHANGED hints

Escape ==
    /\ KeyStep("Cancel")
    /\ UNCHANGED <<buffer, pendingIndex, timerOn, elapsed>>

\* Faulty variant: Backspace leaves the pending match in place.
BackSpaceKeepsPending ==
    /\ KeyStep("BufferChanged")
    /\ buffer' = Pop(buffer)
    /\ UNCHANGED pendingIndex
    /\ StartTimer

\* pop, clear_pending (which cancels the timer), then timeout.reset().
BackSpace ==
    /\ KeyStep("BufferChanged")
    /\ buffer' = Pop(buffer)
    /\ pendingIndex' = NoIndex
    /\ StartTimer

\* The pending match, else an exact match of the buffer, else the selection.
Return ==
    \/ /\ pendingIndex # NoIndex
       /\ KeyStep("ActivateNow")
       /\ pendingIndex' = NoIndex /\ CancelTimer
       /\ UNCHANGED buffer
    \/ /\ pendingIndex = NoIndex
       /\ MatchInput(hints, buffer).kind = "Exact"
       /\ KeyStep("ActivateNow")
       /\ UNCHANGED <<buffer, pendingIndex, timerOn, elapsed>>
    \/ /\ pendingIndex = NoIndex
       /\ MatchInput(hints, buffer).kind # "Exact"
       /\ KeyStep("ActivateSelected")
       /\ UNCHANGED <<buffer, pendingIndex, timerOn, elapsed>>

UpDown ==
    /\ KeyStep("SelectionChanged")
    /\ UNCHANGED <<buffer, pendingIndex, timerOn, elapsed>>

Ignore ==
    /\ KeyStep("Ignore")
    /\ UNCHANGED <<buffer, pendingIndex, timerOn, elapsed>>

\* push and timeout.reset(), then match the new buffer: Exact makes it
\* pending and starts the timer; None launches when the buffer's first
\* character has a launch configuration and otherwise pops the last
\* character (the pending match and the restarted timer stay); Partial
\* clears the pending match and cancels the timer.
Char(c) ==
    LET buf == Push(buffer, c)
        m == MatchInput(hints, buf)
    IN  \/ /\ m.kind = "Exact"
           /\ KeyStep("PendingActivation")
           /\ buffer' = buf /\ pendingIndex' = m.index /\ StartTimer
        \/ /\ m.kind = "None" /\ buf[1] \in LaunchKeys
           /\ KeyStep("TryLaunch")
           /\ buffer' = buf /\ UNCHANGED pendingIndex /\ StartTimer
        \/ /\ m.kind = "None" /\ buf[1] \notin LaunchKeys
           /\ KeyStep("BufferChanged")
           /\ buffer' = Pop(buf) /\ UNCHANGED pendingIndex /\ StartTimer
        \/ /\ m.kind = "Partial"
           /\ KeyStep("BufferChanged")
           /\ buffer' = buf /\ pendingIndex' = NoIndex /\ CancelTimer

ProcessKey(k) ==
    /\ Running
    /\ \/ k = "Escape" /\ Escape
       \/ k = "BackSpace" /\ BackSpace
       \/ k = "Return" /\ Return
       \/ k \in {"Up", "Down"} /\ UpDown
       \/ k \notin {"Escape", "BackSpace", "Return", "Up", "Down"}
          /\ IF KeysymToChar(k) = "" THEN Ignore ELSE Char(KeysymToChar(k))

\* check_timeout: once the timer has elapsed, both pending fields are taken;
\* with a pending match it is returned and the timer cancelled, otherwise
\* nothing happens.
CheckTimeout ==
    /\ result \notin Terminal
    /\ timerOn /\ elapsed >= ActivationDelay
    /\ pendingIndex # NoIndex
    /\ result' = "Activated"
    /\ pendingIndex' = NoIndex
    /\ CancelTimer
    /\ UNCHANGED <<hints, buffer, keys>>

Elapse ==
    /\ result \notin Terminal
    /\ timerOn /\ elapsed < ActivationDelay
    /\ elapsed' = elapsed + 1
    /\ UNCHANGED <<hints, buffer, pendingIndex, timerOn, result, keys>>

\* The caller has stopped.
Stopped ==
    /\ ~Running
    /\ UNCHANGED vars

Next == (\E k \in Keys : ProcessKey(k)) \/ CheckTimeout \/ Elapse \/ Stopped

Spec == Init /\ [][Next]_vars
====
