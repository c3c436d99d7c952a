------------------------------ MODULE Explain ------------------------------
(* Registry.Explain: a second walk over the spine, with its own test of a   *)
(* match (bid) that says why a tile was refused, and its own account (why)  *)
(* of the choice.  It only reads the registry and the spine, so it is an    *)
(* operator; Explained compares it with Cover.                              *)
EXTENDS Tile

Match == [reason |-> "", layer |-> 0]

\* Faulty: the guard is not asked.
bidOnShape(t, sp, at) ==
  LET wrong == {k \in 1..Len(t.pattern) : sp[at + k].name # t.pattern[k]}
  IN IF at + Len(t.pattern) > Len(sp) THEN [reason |-> "short", layer |-> Len(sp)]
     ELSE IF wrong # {} THEN [reason |-> "differs", layer |-> at + Min(wrong) - 1]
     ELSE Match

\* Too few layers remain, a layer differs (the first that does is named), or
\* the guard says no; Match otherwise.
bid(t, sp, at) ==
  LET wrong == {k \in 1..Len(t.pattern) : sp[at + k].name # t.pattern[k]}
  IN IF at + Len(t.pattern) > Len(sp) THEN [reason |-> "short", layer |-> Len(sp)]
     ELSE IF wrong # {} THEN [reason |-> "differs", layer |-> at + Min(wrong) - 1]
     ELSE IF ~Admits(t, Slice(sp, at, at + Len(t.pattern)))
          THEN [reason |-> "guard", layer |-> at]
     ELSE Match

\* The tiles that matched and are as long as the longest.
Longest(all) == {t \in all : \A u \in all : Len(u.pattern) <= Len(t.pattern)}

\* Faulty: every tile that matched is counted, whatever its length.
whyCountsAll(all) ==
  IF Cardinality(all) = 1 THEN [word |-> "only", among |-> 1]
  ELSE [word |-> "priority", among |-> Cardinality(all)]

why(all) ==
  LET tied == Cardinality(Longest(all))
  IN IF Cardinality(all) = 1 THEN [word |-> "only", among |-> 1]
     ELSE IF tied > 1 THEN [word |-> "priority", among |-> tied]
     ELSE [word |-> "longest", among |-> Cardinality(all) - 1]

\* One Step: the bids at a position, the tiles chosen (one, or none where
\* nothing matched) and the reason.
StepAt(tiles, sp, at) ==
  LET winners == {t \in TilesOf(tiles) : bid(t, sp, at) = Match}
  IN [at       |-> at,
      attempts |-> [j \in 1..Len(tiles) |-> bid(tiles[j], sp, at)],
      chosen   |-> IF winners = {} THEN {} ELSE {best(winners)},
      because  |-> IF winners = {} THEN [word |-> "", among |-> 0] ELSE why(winners)]

Width(step) == Len((CHOOSE t \in step.chosen : TRUE).pattern)

\* The walk from a position on: its steps, and where it stops.  A position
\* where nothing matched is recorded and ends it.
Walk(tiles, sp) ==
  LET From[at \in 0..Len(sp)] ==
        LET step == StepAt(tiles, sp, at)
        IN IF at = Len(sp) THEN [steps |-> << >>, i |-> at]
           ELSE IF step.chosen = {} THEN [steps |-> <<step>>, i |-> at]
           ELSE LET rest == From[at + Width(step)]
                IN [steps |-> <<step>> \o rest.steps, i |-> rest.i]
  IN From

ExplainResult(tiles, sp) ==
  LET walk == Walk(tiles, sp)[0]
      rest == Slice(sp, walk.i, Len(sp))
  IN [steps    |-> walk.steps,
      leftover |-> rest,
      note     |-> IF walk.i = 0 THEN "no lowering"
                   ELSE IF rest # << >> THEN "traffic" ELSE ""]

============================================================================
