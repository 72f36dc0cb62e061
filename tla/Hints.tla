-------------------------------- MODULE Hints --------------------------------
(***************************************************************************)
(* Hint sequences, input normalisation, hint assignment and hint matching *)
(* (src/src/core/hint.rs and src/src/core/matcher.rs).                     *)
(*                                                                         *)
(* Characters are one-letter strings.  A string of the program is a        *)
(* sequence of characters, so "g2" is <<"g", "2">>.  Only the ASCII        *)
(* letters and digits are classified; every other character is neither   *)
(* alphabetic nor a digit and is its own lower-case form, as in Rust.      *)
(***************************************************************************)
EXTENDS Naturals, Sequences, SequencesExt, FiniteSets, TLC

LowerLetters == <<"a","b","c","d","e","f","g","h","i","j","k","l","m",
                  "n","o","p","q","r","s","t","u","v","w","x","y","z">>
UpperLetters == <<"A","B","C","D","E","F","G","H","I","J","K","L","M",
                  "N","O","P","Q","R","S","T","U","V","W","X","Y","Z">>
DecimalDigits == <<"0","1","2","3","4","5","6","7","8","9">>

\* char::is_ascii_alphabetic, char::is_ascii_digit, char::to_ascii_lowercase
IsAsciiAlphabetic(c) == c \in ToSet(LowerLetters) \cup ToSet(UpperLetters)
IsAsciiDigit(c) == c \in ToSet(DecimalDigits)
ToLower(c) ==
    IF c \in ToSet(UpperLetters)
    THEN LowerLetters[CHOOSE i \in DOMAIN UpperLetters : UpperLetters[i] = c]
    ELSE c
LowerSeq(s) == [i \in DOMAIN s |-> ToLower(s[i])]

\* str::parse::<usize> of a non-empty run of ASCII digits
DigitValue(c) == (CHOOSE i \in DOMAIN DecimalDigits : DecimalDigits[i] = c) - 1
ParseDecimal(s) == FoldLeft(LAMBDA acc, d : 10 * acc + DigitValue(d), 0, s)

\* Largest repetition count normalize_input expands a digit suffix to.
MaxRepeat == 26

(***************************************************************************)
(* HintSequence { base, count }: new() lower-cases the base and clamps the *)
(* count to at least 1; as_string() repeats the base count times.          *)
(***************************************************************************)
NewHint(base, count) ==
    [base |-> ToLower(base), count |-> IF count < 1 THEN 1 ELSE count]

AsString(h) == [i \in 1..h.count |-> h.base]

(***************************************************************************)
(* normalize_input: lower-case; when the string has at least two           *)
(* characters and ends in a digit, split it into the characters before the *)
(* trailing digit run ("letters") and the run itself; if there is at least *)
(* one letter, the number parses to 1..26 and all letters equal the first, *)
(* the result is the first letter repeated that many times.  Otherwise the *)
(* lower-cased input is returned unchanged.                                *)
(***************************************************************************)
\* Faulty variant: accepts a repeat count one beyond MaxRepeat.
NormalizeBoundOffByOne(input) ==
    LET s == LowerSeq(input)
        letterEnd == SelectLastInSeq(s, LAMBDA c : ~IsAsciiDigit(c))
        letters == SubSeq(s, 1, letterEnd)
        num == ParseDecimal(SubSeq(s, letterEnd + 1, Len(s)))
    IN  IF /\ Len(s) >= 2 /\ IsAsciiDigit(s[Len(s)]) /\ letterEnd > 0
           /\ num > 0 /\ num <= MaxRepeat + 1
           /\ \A i \in DOMAIN letters : letters[i] = letters[1]
        THEN [i \in 1..num |-> letters[1]]
        ELSE s

Normalize(input) ==
    LET s == LowerSeq(input)
        letterEnd == SelectLastInSeq(s, LAMBDA c : ~IsAsciiDigit(c))
        letters == SubSeq(s, 1, letterEnd)
        num == ParseDecimal(SubSeq(s, letterEnd + 1, Len(s)))
    IN  IF /\ Len(s) >= 2
           /\ IsAsciiDigit(s[Len(s)])
           /\ letterEnd > 0
           /\ num > 0
           /\ num <= MaxRepeat
           /\ \A i \in DOMAIN letters : letters[i] = letters[1]
        THEN [i \in 1..num |-> letters[1]]
        ELSE s

\* matches_input: the hint string starts with the normalised input.
MatchesInput(h, input) == IsPrefix(Normalize(input), AsString(h))

\* Faulty variant: compares the hint with the typed string itself.
EqualsInputRaw(h, input) == AsString(h) = LowerSeq(input)

\* equals_input: the hint string is the normalised input.
EqualsInput(h, input) == AsString(h) = Normalize(input)

(***************************************************************************)
(* MatchResult.  Exact carries the matched hint's original index; its     *)
(* window_id is the window of that hint and is left out.                   *)
(***************************************************************************)
NoMatch == [kind |-> "None"]
Partial(indices) == [kind |-> "Partial", indices |-> indices]
Exact(i) == [kind |-> "Exact", index |-> i]

IndicesOf(hs) == [k \in DOMAIN hs |-> hs[k].index]

(***************************************************************************)
(* HintMatcher::match_input over the assigned hints (a sequence of         *)
(* WindowHint records [hint, window, index]).  With two or more matches   *)
(* the first hint equal to the input wins, otherwise the match is partial. *)
(***************************************************************************)
MatchInput(hints, input) ==
    LET matches == SelectSeq(hints, LAMBDA wh : MatchesInput(wh.hint, input))
        exact == SelectInSeq(matches, LAMBDA wh : EqualsInput(wh.hint, input))
    IN  IF input = <<>> THEN Partial(IndicesOf(hints))
        ELSE IF Len(matches) = 0 THEN NoMatch
        ELSE IF Len(matches) = 1 THEN Exact(matches[1].index)
        ELSE IF exact # 0 THEN Exact(matches[exact].index)
        ELSE Partial(IndicesOf(matches))

\* The hints shown for an input: Overlay::render_full filters them inline,
\* as HintMatcher::filter_hints does.
FilterHints(hints, input) ==
    IF input = <<>> THEN hints
    ELSE SelectSeq(hints, LAMBDA wh : MatchesInput(wh.hint, input))

(***************************************************************************)
(* Hint assignment.  An app id is a sequence of characters; its last       *)
(* segment is what follows the last ".".                                   *)
(***************************************************************************)
NoKey == "none"

LastSegment(app) ==
    SubSeq(app, SelectLastInSeq(app, LAMBDA c : c = ".") + 1, Len(app))

\* auto_generate_key: first ASCII letter of the lower-cased last segment.
AutoGenerateKey(app) ==
    LET seg == LowerSeq(LastSegment(app))
        k == SelectInSeq(seg, LAMBDA c : IsAsciiAlphabetic(c))
    IN  IF k = 0 THEN NoKey ELSE seg[k]

\* The base chosen for one window: key_for_app, else the auto key, else 'x'.
BaseFor(app, keyFor) ==
    IF keyFor[app] # NoKey THEN keyFor[app]
    ELSE IF AutoGenerateKey(app) # NoKey THEN AutoGenerateKey(app)
    ELSE "x"

(***************************************************************************)
(* HintAssignment::assign.  windows is the enumerated window list (a      *)
(* sequence of app ids; window i has id i - 1 and original index i - 1).  *)
(* keyFor is key_for_app.  order is the iteration order of the by_base    *)
(* HashMap, a sequence of the distinct bases: windows are grouped by base *)
(* in window order, the n-th window of a group gets NewHint(base, n), the *)
(* groups are emitted in HashMap order and the result is sorted by index. *)
(***************************************************************************)
Bases(windows, keyFor) == {BaseFor(windows[i], keyFor) : i \in DOMAIN windows}

\* Faulty variant: numbers the windows of a group from 0 instead of 1.
AssignFromZero(windows, keyFor, order) ==
    LET base(i) == BaseFor(windows[i], keyFor)
        group(b) == SelectSeq([i \in DOMAIN windows |-> i - 1],
                              LAMBDA j : base(j + 1) = b)
        emitted(b) == [n \in DOMAIN group(b) |->
                          [hint |-> NewHint(b, n - 1), window |-> group(b)[n],
                           index |-> group(b)[n]]]
    IN  SortSeq(FlattenSeq([k \in DOMAIN order |-> emitted(order[k])]),
                LAMBDA a, b : a.index < b.index)

Assign(windows, keyFor, order) ==
    LET base(i) == BaseFor(windows[i], keyFor)
        group(b) == SelectSeq([i \in DOMAIN windows |-> i - 1],
                              LAMBDA j : base(j + 1) = b)
        emitted(b) == [n \in DOMAIN group(b) |->
                          [hint |-> NewHint(b, n),
                           window |-> group(b)[n],
                           index |-> group(b)[n]]]
        unsorted == FlattenSeq([k \in DOMAIN order |-> emitted(order[k])])
    IN  SortSeq(unsorted, LAMBDA a, b : a.index < b.index)

\* HintAssignment::find_by_window_id, as a position (0-based) or -1.
PositionOfWindow(hints, w) ==
    SelectInSeq(hints, LAMBDA wh : wh.window = w) - 1
=============================================================================
