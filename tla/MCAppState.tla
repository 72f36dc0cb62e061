------------------------------ MODULE MCAppState ------------------------------
(***************************************************************************)
(* Model-checking instance of AppState, with its properties.              *)
(***************************************************************************)
EXTENDS AppState, Overlay

\* Windows of two apps, "f.F" (auto key f) and "g" (auto key g), in lists
\* of one to three windows: hints f/ff/fff, g/gg and mixtures such as
\* g, f, ff.
MCApps == {<<"f", ".", "F">>, <<"g">>}
MCWindowChoices == UNION {[1..n -> MCApps] : n \in 1..3}
MCKeyFor == [a \in MCApps |-> NoKey]

\* Outputs the overlay may be configured for (logical size and integer
\* scale): a common laptop and desktop, a narrow 360x200 output at scale 2
\* where the card is limited by the screen width and three rows fill the
\* height, and one whose scaled size scaled_dimensions refuses.
MCOutputs == {[w |-> 1920, h |-> 1080, s |-> 1], [w |-> 1366, h |-> 768, s |-> 1],
              [w |-> 360, h |-> 200, s |-> 2], [w |-> 9000, h |-> 1000, s |-> 2]}

\* The frame App::draw renders for the current state on output o.
FrameOn(o) == RendererRender(o.w, o.h, o.s, Shown(state)[1] = "full", hints,
                             IF Shown(state)[1] = "full" THEN state.input ELSE <<>>,
                             IF Shown(state)[1] = "full" THEN ShownIndex(state) ELSE 0)

\* Texts a row may carry, as the advance widths of their characters in
\* tenths of a pixel at 16 px and the output's scale: a short name, a long
\* title of 40 characters, one of exactly 200 px (the title column on a
\* 1920 or 1366 output) and one a character wider than the 180 px app
\* column.  The ellipsis is three 4.5 px dots.
MCTexts(s) == {<<80 * s, 80 * s>>, [i \in 1..40 |-> 90 * s],
               [i \in 1..20 |-> 100 * s], [i \in 1..19 |-> 100 * s]}
MCEllipsis(s) == 135 * s

-----------------------------------------------------------------------------
\* The variant of a state and the fields it carries, and the actions.
TypeOK == StateTypeOK

\* The typed input of FullOverlay always still matches some hint (a
\* character with no match is reverted, and Backspace returns to an input
\* typed before), and while an activation is pending the input matches
\* exactly the hint that will be activated: the timeout never fires for a
\* window the input no longer designates.
InputLive ==
    /\ state.kind = "FullOverlay" => MatchInput(hints, state.input) # NoMatch
    /\ state.kind = "Pending" => MatchInput(hints, state.input) = Exact(state.hintIndex)

\* The selection of FullOverlay, the pending hint and a Window result are
\* positions in hints, through Tab, Shift+Tab, arrows, IPC cycling,
\* Backspace and typing: App::run never has to fall back to window 0 for
\* an out-of-range index.
SelectionInBounds ==
    /\ state.kind \in {"FullOverlay", "Pending"} => ShownIndex(state) < Len(hints)
    /\ state.kind = "Exiting" /\ state.result.kind = "Window"
       => state.result.index < Len(hints)

\* The window the activation timeout (or Return, or the Alt release) will
\* activate is the one the card shows as matched: while an activation is
\* pending, render_hint_row gives the matched badge to exactly one visible
\* row, the pending window's.  It ties match_input's choice among several
\* matching hints to render_hint_row's own equals_input test.
PendingRowMatched ==
    state.kind = "Pending" =>
        \A o \in MCOutputs :
            LET f == FrameOn(o)
            IN  f.kind # "none" =>
                    /\ f.kind = "card"
                    /\ {f.rows[i].index : i \in {j \in DOMAIN f.rows : f.rows[j].badge = "matched"}}
                         = {state.hintIndex}

\* On every output the renderer accepts, the card lies within the screen
\* horizontally however narrow the output; when its rows fit the height,
\* every row lies within the screen; and exactly one row is highlighted,
\* whatever selection the state machine kept.
CardInsideOutput ==
    \A o \in MCOutputs :
        LET f == FrameOn(o)
            l == Layout(o.s)
        IN  f.kind = "card" =>
                /\ f.card.x10 >= 0
                /\ f.card.x10 + f.card.w10 <= 10 * f.size.width
                /\ f.card.y2 >= 0 =>
                      \A i \in DOMAIN f.rows :
                          f.rows[i].y2 >= 0 /\ f.rows[i].y2 + 2 * l.rowHeight <= 2 * f.size.height
                /\ Cardinality({i \in DOMAIN f.rows : f.rows[i].selected}) = 1

\* Every text render_hint_row draws in a row of the card stays inside its
\* column: the app name cut by truncate_to_width to the app column, and
\* the title, when drawn, to title_max_width, the "..." included.  The
\* loop keeps a character only while it and the ellipsis still fit, so
\* the ellipsis appended on the next character never overruns the column.
TextFitsColumn ==
    \A o \in MCOutputs :
        LET f == FrameOn(o)
            appW == 10 * Layout(o.s).appColumnWidth
            ell == MCEllipsis(o.s)
        IN  f.kind = "card" =>
                \A t \in MCTexts(o.s) :
                    /\ TruncatedWidth(t, TruncateToWidth(t, appW, ell), ell) <= appW
                    /\ TitleShown(f.card, o.s) =>
                           LET titleW == TitleMaxWidth(f.card, o.s)
                           IN  TruncatedWidth(t, TruncateToWidth(t, titleW, ell), ell) <= titleW

\* process_event draws only when the transition returned actions, so every
\* event that changes what is drawn must return ScheduleRedraw or Exit;
\* otherwise the screen shows a stale selection or input.
RedrawOnVisibleChange ==
    [][Shown(state') # Shown(state) => actions' # <<>>]_vars

\* The highlighted row of the card (render_full clamps the selection to the
\* filtered list and highlights that position) is the hint that Return,
\* Alt release or the activation timeout would activate.
HighlightIsTarget ==
    state.kind \in {"FullOverlay", "Pending"} => Highlighted(state) = ShownIndex(state)

-----------------------------------------------------------------------------
\* The event loop sends Tick on every iteration (App::run) and time keeps
\* passing.  No fairness is assumed for FrameCallback: App::draw attaches and
\* commits a buffer but never requests a frame callback from the compositor.
Fairness == WF_vars(Elapse) /\ WF_vars(BorderOnlyTick) /\ WF_vars(PendingTick)

FairSpec == Spec /\ Fairness

\* A pending activation always resolves: the timeout fires or the user
\* leaves the pending state, however many non-matching keys arrive.
PendingResolves == state.kind = "Pending" ~> state.kind # "Pending"
====
