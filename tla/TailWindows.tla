----------------------------- MODULE TailWindows -----------------------------
(***************************************************************************)
(* Which tokens of a memory reach which vector.  The embedder sees the first *)
(* Window tokens of a text; haunt.spans plans overlapping windows over the   *)
(* rest, at most MaxSpans vectors a memory, and says when the text goes on.   *)
(* Vector 0 is the head, vector i window i.                                  *)
(*                                                                         *)
(* A text t has the tokens 1 .. t.len.  t.chars is 0 where a tokenizer tells *)
(* where they are.  Where none does, t.chars is how long a token is, the same *)
(* for all of a text, and the windows are cut in characters, CharsPerToken    *)
(* for a token, whatever t.chars is; the head is cut in tokens all the same.  *)
(*                                                                         *)
(* A window's text is tokenized again before it is embedded and may then be   *)
(* Drift tokens longer (t.drift), of which the embedder cuts the last ones.   *)
(***************************************************************************)
EXTENDS Integers, SequencesExt

CONSTANTS Window,    \* max_len less the special tokens
          Overlap,   \* tokens that neighbouring windows share
          MaxSpans,  \* vectors of one memory, with the head's
          Sliver,    \* MIN_TAIL_TOKENS
          Drift,     \* tokens a window may grow by when it is tokenized again
          CharsPerToken  \* FALLBACK_CHARS_PER_TOKEN

\* plan() never lets windows share more than half of their length.
Back == Min({Overlap, Window \div 2})
Stride == Max({1, Window - Back})

\* The code does not check the last two: see the README.
ASSUME WindowConstants ==
    /\ {Window, MaxSpans, Sliver, CharsPerToken} \subseteq Nat \ {0}
    /\ Overlap \in Nat
ASSUME DriftIsShared == Drift \in Nat /\ 2 * Drift <= Back
ASSUME SliverFitsWindow == Sliver + 2 * Drift <= Window + 1

\* What windows are cut in, and the length of a text in it.
Tokens == [width |-> Window, stride |-> Stride, sliver |-> Sliver]
Characters == [width |-> CharsPerToken * Window, stride |-> CharsPerToken * Stride,
               sliver |-> CharsPerToken * Sliver]
Measure(t) == IF t.chars = 0 THEN Tokens ELSE Characters
Length(t) == IF t.chars = 0 THEN t.len ELSE t.len * t.chars

\* Faulty variant of Regular: windows that meet and do not overlap.
RegularTouching(g, n, i) == [lo |-> i * g.width, hi |-> Min({n, (i + 1) * g.width})]

\* Window i covers lo+1 .. hi of a text of length n.
Regular(g, n, i) == [lo |-> i * g.stride, hi |-> Min({n, i * g.stride + g.width})]

\* The loop stops at the cap, at the end, or where only a sliver is left.
LastRegular(g, n) ==
    CHOOSE i \in 1 .. n : /\ i = MaxSpans - 1 \/ n - Regular(g, n, i).hi < g.sliver
                          /\ \A j \in 1 .. i - 1 : j # MaxSpans - 1 /\ n - Regular(g, n, j).hi >= g.sliver

\* Faulty variant of Anchored: the sliver is left to the previous window.
NeverAnchored(g, n) == <<>>

\* The window that ends with the text, where a sliver was left and the cap lets.
Anchored(g, n) ==
    LET last == LastRegular(g, n) IN
    IF Regular(g, n, last).hi < n /\ last < MaxSpans - 1
    THEN <<[lo |-> Max({0, n - g.width}), hi |-> n]>> ELSE <<>>

Windows(g, n) == IF n <= g.width \/ MaxSpans = 1 THEN <<>>
                 ELSE [i \in 1 .. LastRegular(g, n) |-> Regular(g, n, i)] \o Anchored(g, n)

Planned(t) == Windows(Measure(t), Length(t))
Vectors(t) == 0 .. Len(Planned(t))

Truncated(t) == IF Planned(t) = <<>> THEN Length(t) > Measure(t).width ELSE Last(Planned(t)).hi < Length(t)

\* How much of a text a vector is promised of: all, unless the cap cut the windows off.
Covered(t) == CASE Len(Planned(t)) < MaxSpans - 1 \/ ~Truncated(t) -> Length(t)
                [] Planned(t) = <<>> /\ Truncated(t) -> Measure(t).width
                [] OTHER -> Last(Planned(t)).hi

\* Faulty variant of Fitted: the last window is shrunk from its end.
FittedAtEnd(w, drift) == [w EXCEPT !.hi = Max({w.lo + 1, Min({w.hi, w.lo + Window - drift})})]

\* The last window moves its front until the embedder takes it whole.
Fitted(w, drift) == [w EXCEPT !.lo = Max({w.lo, Min({w.hi - 1, w.hi + drift - Window})})]

\* What the vector of a window w of tokens is computed from.
TokensSeen(w, drift, last) ==
    IF last THEN LET f == Fitted(w, drift) IN f.lo + 1 .. f.hi
    ELSE w.lo + 1 .. Min({w.hi, w.lo + Window - drift})

\* The tokens that are whole in a window of characters, as many as the embedder
\* takes; the one the window begins in the middle of takes a place.
CharactersSeen(w, t) ==
    {k \in 1 .. t.len : /\ w.lo <= t.chars * (k - 1) /\ t.chars * k <= w.hi
                        /\ k <= (w.lo \div t.chars) + Window - t.drift}

\* The tokens that vector i is computed from.
Seen(t, i) ==
    IF i = 0 THEN 1 .. Min({t.len, Window})
    ELSE IF t.chars = 0 THEN TokensSeen(Planned(t)[i], t.drift, i = Len(Planned(t)))
    ELSE CharactersSeen(Planned(t)[i], t)

\* The tokens that a search by meaning can find: those covered, or, where the
\* windows are cut in characters, those that some vector happens to see.
Findable(t) == IF t.chars = 0 THEN 1 .. Covered(t) ELSE UNION {Seen(t, i) : i \in Vectors(t)}

\* The estimate of a token's length "never produces a gap, because windows still
\* overlap" (spans.py:56-57): a text that is not marked as cut has every token in
\* some vector.  That is so only where a tokenizer cuts the windows.
LeavesNoGap(t) == ~Truncated(t) => 1 .. t.len \subseteq UNION {Seen(t, i) : i \in Vectors(t)}
=============================================================================
