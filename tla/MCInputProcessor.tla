-------------------------- MODULE MCInputProcessor --------------------------
(***************************************************************************)
(* Model-checking instance of InputProcessor: every list of one to three  *)
(* distinct hints f, ff, fff, g, gg, and the property of the buffer and   *)
(* the pending match.                                                      *)
(***************************************************************************)
EXTENDS InputProcessor

MCHintSet == {NewHint("f", 1), NewHint("f", 2), NewHint("f", 3),
              NewHint("g", 1), NewHint("g", 2)}
MCHintChoices ==
    {hs \in UNION {[1..n -> MCHintSet] : n \in 1..3} :
        \A i, j \in DOMAIN hs : i # j => hs[i] # hs[j]}

\* While the caller still feeds keys, the buffer is empty or matches some
\* hint (a character with no match is popped again), and a pending match is
\* exactly the hint the buffer designates: through Backspace, unmatched
\* keys, keys that make several hints match again and Return on an exact
\* buffer, the activation check_timeout returns is the hint the user typed
\* (process_key, processor.rs:120).
ProcessorInputLive ==
    result \notin Terminal =>
        /\ buffer # <<>> => MatchInput(hints, buffer) # NoMatch
        /\ pendingIndex # NoIndex => MatchInput(hints, buffer) = Exact(pendingIndex)
====
