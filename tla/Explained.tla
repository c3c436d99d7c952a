----------------------------- MODULE Explained -----------------------------
(* Explain beside Cover, on the same registry and spine: the two share best *)
(* and nothing else, and must come to one decision.                         *)
EXTENDS Cover, Explain

\* explain.go:38 "Explain walks the same algorithm Cover does": it chooses the
\* tiles Cover lowers, at the same places, stops where Cover stops, and says
\* there is no lowering when Cover does.  Where a tile's Lower fails, that tile
\* is the one Explain shows at that place.
ExplainAgreesWithCover ==
  phase \in {"done", "nolowering", "failed"} =>
    LET ex    == ExplainResult(tiles, spine)
        steps == ex.steps
    IN /\ phase # "failed" =>
            /\ Len(placed) <= Len(steps)
            /\ \A j \in 1..Len(placed) :
                 steps[j].at = placed[j].at /\ steps[j].chosen = {placed[j].tile}
            /\ \A j \in (Len(placed) + 1)..Len(steps) : steps[j].chosen = {}
            /\ ex.leftover = Slice(spine, i, Len(spine))
            /\ ex.note = "no lowering" <=> phase = "nolowering"
       /\ phase = "failed" =>
            \E j \in 1..Len(steps) : steps[j].at = i /\ steps[j].chosen = {pick}

\* explain.go:43 "no tile matched" and "a tile nearly matched, and here is the
\* layer that stopped it": what each line says is so.  A tile is refused
\* exactly if it does not match; the layer named differs and those before it
\* do not; and the reason for the choice is true of all tiles that match.
ReasonsHold ==
  phase \in {"done", "nolowering", "failed"} =>
    \A s \in ToSet(ExplainResult(tiles, spine).steps) :
      LET matching == matchAt(tiles, spine, s.at)
      IN /\ \A j \in 1..Len(tiles) :
              LET t == tiles[j]
                  a == s.attempts[j]
              IN /\ a = Match <=> t \in matching
                 /\ a.reason = "differs" =>
                      /\ spine[a.layer + 1].name # t.pattern[a.layer - s.at + 1]
                      /\ \A l \in s.at..(a.layer - 1) :
                           spine[l + 1].name = t.pattern[l - s.at + 1]
         /\ \A t \in s.chosen : \A u \in matching \ {t} :
              CASE s.because.word = "only"     -> FALSE
                [] s.because.word = "longest"  -> Len(t.pattern) > Len(u.pattern)
                [] s.because.word = "priority" ->
                     Len(u.pattern) = Len(t.pattern) => t.priority < u.priority
         /\ s.because.word = "priority" =>
              s.because.among = Cardinality({u \in matching : \A t \in s.chosen :
                                               u.pattern = t.pattern})
         /\ s.because.word = "longest" => s.because.among = Cardinality(matching) - 1

============================================================================
