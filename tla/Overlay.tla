------------------------------- MODULE Overlay -------------------------------
(***************************************************************************)
(* What the overlay draws: Overlay::render_initial and render_full with    *)
(* their layout (src/src/ui/overlay.rs), called by Renderer::render        *)
(* (src/src/app/renderer.rs).                                              *)
(*                                                                         *)
(* A frame is the structure of the pixmap, not its pixels: whether a card *)
(* is drawn, the card's rectangle, its rows (the hint, the badge state,    *)
(* the selection highlight, the row's top edge and whether the title is    *)
(* drawn) and whether the typed-input pill is drawn.  Colours come from    *)
(* the theme (Theme); a badge is matched, partial or plain, the three      *)
(* colours render_hint_row picks.  Text widths depend on the font and are *)
(* left out.                                                               *)
(*                                                                         *)
(* The scale is the integer new_factor of scale_factor_changed (1.0 until *)
(* then), so every base length times the scale is a whole pixel.  The one *)
(* fraction of the code, 90% of the screen width, makes horizontal lengths *)
(* tenths of a pixel; vertical lengths are pixels, and a centred top edge  *)
(* is kept doubled (y2) so that the halving is exact.                      *)
(***************************************************************************)
EXTENDS Hints

\* The BASE_* constants scaled by Layout::new; the badge height, radii and
\* text sizes only place glyphs and are left out.
Layout(s) ==
    [padding |-> 20 * s, rowHeight |-> 48 * s, rowSpacing |-> 8 * s,
     badgeWidth |-> 48 * s, appColumnWidth |-> 180 * s, columnGap |-> 16 * s,
     borderWidth |-> 3 * s]

NoPixmap == [kind |-> "none"]

\* scaled_dimensions: the pixmap is width and height times the scale,
\* refused when either side is 0 or above 16384.
ScaledDimensions(w, h, s) ==
    IF w * s = 0 \/ h * s = 0 \/ w * s > 16384 \/ h * s > 16384 THEN NoPixmap
    ELSE [kind |-> "size", width |-> w * s, height |-> h * s]

MinOf(a, b) == IF a < b THEN a ELSE b
MaxOf(a, b) == IF a > b THEN a ELSE b

\* The width a row needs: padding, badge, gap, app column, gap and a 200 px
\* title, before the padding on the right.
ContentWidth(s) ==
    LET l == Layout(s)
    IN  2 * l.padding + l.badgeWidth + l.columnGap + l.appColumnWidth
          + l.columnGap + 200 * s

\* Faulty variant: the card is kept at its content width, without the
\* limit of 90% of the screen.
CardWidthUnclamped(screenW, s) == MaxOf(10 * ContentWidth(s), 4000 * s)

\* calculate_card_dimensions, horizontally: the content width, at least
\* 400 px, at most 90% of the screen and 700 px (tenths of a pixel).
CardWidth(screenW, s) ==
    MinOf(MaxOf(10 * ContentWidth(s), 4000 * s), MinOf(9 * screenW, 7000 * s))

\* calculate_card_dimensions: n rows with the spacing between them and
\* the padding around them, centred on the screen.
CardRect(n, screenW, screenH, s) ==
    LET l == Layout(s)
        w10 == CardWidth(screenW, s)
        h == n * (l.rowHeight + l.rowSpacing) - l.rowSpacing + 2 * l.padding
    IN  [x10 |-> (10 * screenW - w10) \div 2, w10 |-> w10,
         y2 |-> screenH - h, h |-> h]

\* Faulty variant: every hint the input starts is drawn as matched.
RowBadgePrefixExact(h, input) ==
    IF input # <<>> /\ MatchesInput(h, input) THEN "matched" ELSE "plain"

\* The badge of a row in render_hint_row: badge_matched_background for a
\* hint equal to the input, badge_background lightened by 30 for one it
\* only starts with, badge_background otherwise.
RowBadge(h, input) ==
    IF input # <<>> /\ EqualsInput(h, input) THEN "matched"
    ELSE IF input # <<>> /\ MatchesInput(h, input) THEN "partial"
    ELSE "plain"

\* render_hint_row's title_max_width: what the card leaves right of the
\* badge, the app column, their gaps and the padding (tenths of a pixel).
TitleMaxWidth(card, s) ==
    LET l == Layout(s)
        titleOffset == l.padding + l.badgeWidth + l.columnGap + l.appColumnWidth
                         + l.columnGap
    IN  card.w10 - 10 * titleOffset - 10 * l.padding

\* render_hint_row draws the title column only when more than 50 px are
\* left for it.
TitleShown(card, s) == TitleMaxWidth(card, s) > 500

\* Faulty variant: a character is kept while it fits by itself, without
\* room left for the ellipsis that follows it.
RECURSIVE TruncateFromNoReserve(_, _, _, _, _)
TruncateFromNoReserve(t, i, width, maxW, ell) ==
    IF i > Len(t) THEN [kept |-> i - 1, ellipsis |-> FALSE]
    ELSE IF width + t[i] > maxW THEN [kept |-> i - 1, ellipsis |-> TRUE]
    ELSE TruncateFromNoReserve(t, i + 1, width + t[i], maxW, ell)

\* The loop of truncate_to_width from character i on, width being the
\* advance of the characters kept so far: the first character that does
\* not fit together with the ellipsis ends the text with "...".
RECURSIVE TruncateFrom(_, _, _, _, _)
TruncateFrom(t, i, width, maxW, ell) ==
    IF i > Len(t) THEN [kept |-> i - 1, ellipsis |-> FALSE]
    ELSE IF width + t[i] + ell > maxW THEN [kept |-> i - 1, ellipsis |-> TRUE]
    ELSE TruncateFrom(t, i + 1, width + t[i], maxW, ell)

\* truncate_to_width: a text is the sequence of its characters' advance
\* widths and ell the advance of "..."; the result is how many characters
\* are kept and whether "..." follows them.  A column no wider than the
\* ellipsis gets the empty string.
TruncateToWidth(t, maxW, ell) ==
    IF maxW <= ell THEN [kept |-> 0, ellipsis |-> FALSE]
    ELSE TruncateFrom(t, 1, 0, maxW, ell)

\* The advance of a truncated text as render_text draws it.
TruncatedWidth(t, r, ell) ==
    FoldLeft(LAMBDA a, b : a + b, 0, SubSeq(t, 1, r.kept)) + (IF r.ellipsis THEN ell ELSE 0)

\* render_full: the screen border, then the hints the input matches; none
\* gives the "No matches" card.  The selection is clamped to the visible
\* rows and names a position among them; row i is padding + i rows below
\* the card's top edge.
RenderFull(hints, input, selection, w, h, s) ==
    LET dims == ScaledDimensions(w, h, s)
        visible == FilterHints(hints, input)
        sel == MinOf(selection, IF Len(visible) = 0 THEN 0 ELSE Len(visible) - 1)
        card == CardRect(Len(visible), dims.width, dims.height, s)
        l == Layout(s)
    IN  IF dims.kind = "none" THEN NoPixmap
        ELSE IF visible = <<>>
        THEN [kind |-> "noMatches", size |-> dims, rows |-> <<>>, pill |-> FALSE]
        ELSE [kind |-> "card", size |-> dims, card |-> card,
              rows |-> [i \in 1..Len(visible) |->
                          [index |-> visible[i].index,
                           badge |-> RowBadge(visible[i].hint, input),
                           selected |-> i - 1 = sel,
                           y2 |-> card.y2 + 2 * (l.padding + (i - 1) * (l.rowHeight + l.rowSpacing)),
                           titleShown |-> TitleShown(card, s)]],
              pill |-> input # <<>>]

\* render_initial: the screen border alone.
RenderInitial(w, h, s) ==
    LET dims == ScaledDimensions(w, h, s)
    IN  IF dims.kind = "none" THEN NoPixmap
        ELSE [kind |-> "border", size |-> dims, rows |-> <<>>, pill |-> FALSE]

\* Renderer::render: nothing before the first configure (width or height
\* 0), otherwise render_full or render_initial as App::draw asks.  The
\* buffer pool, the pixel copy and the counters are App's.
RendererRender(width, height, scale, showFull, hints, input, selected) ==
    IF width = 0 \/ height = 0 THEN NoPixmap
    ELSE IF showFull THEN RenderFull(hints, input, selected, width, height, scale)
    ELSE RenderInitial(width, height, scale)
====
