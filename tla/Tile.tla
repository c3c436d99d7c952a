-------------------------------- MODULE Tile --------------------------------
(* Package tile's vocabulary: tiles, registries, and what it means for a    *)
(* tile to match a spine and to be chosen.                                  *)
(*                                                                          *)
(* A tile is a record with its name, its pattern (a sequence of protocol    *)
(* names), its priority, its guard, and whether it has a Lower function.  A *)
(* registry is a sequence of tiles, a spine a sequence of layers, records   *)
(* with a name.  Positions in a spine count from 0, as in the code.         *)
EXTENDS Integers, Sequences, SequencesExt

\* Tile.Guard applied to the layers matched.
CONSTANT GuardOK(_, _)

----------------------------------------------------------------------------
TilesOf(tiles) == {tiles[j] : j \in 1..Len(tiles)}

Slice(sp, from, to) == SubSeq(sp, from + 1, to)

\* A nil guard admits everything.
Admits(t, sub) == t.guard = "nil" \/ GuardOK(t, sub)

\* Faulty: only the first layer of the pattern is compared.
MatchesFirst(t, sp, at) ==
  /\ at + Len(t.pattern) <= Len(sp)
  /\ t.pattern # << >> => sp[at + 1].name = t.pattern[1]
  /\ Admits(t, Slice(sp, at, at + Len(t.pattern)))

Matches(t, sp, at) ==
  /\ at + Len(t.pattern) <= Len(sp)
  /\ \A k \in 1..Len(t.pattern) : sp[at + k].name = t.pattern[k]
  /\ Admits(t, Slice(sp, at, at + Len(t.pattern)))

\* Faulty: the priority is not looked at.
ReplacesByLength(t, pick) == Len(t.pattern) > Len(pick.pattern)

\* best's switch: does t take the place of the pick so far?
Replaces(t, pick) ==
  \/ Len(t.pattern) > Len(pick.pattern)
  \/ Len(t.pattern) = Len(pick.pattern) /\ t.priority < pick.priority

\* What matchAt and best stand for, for the modules that take them in one step;
\* Cover has their loops.  Sets will do: a tile is registered once, and the
\* order of registration decides nothing.
matchAt(tiles, sp, at) == {t \in TilesOf(tiles) : Matches(t, sp, at)}

best(cands) == CHOOSE t \in cands : \A u \in cands : ~Replaces(u, t)

\* NewRegistry accepts: no empty pattern, a Lower each, and no two tiles with
\* one pattern at one priority.
Accepted(tiles) ==
  /\ \A j \in 1..Len(tiles) : tiles[j].pattern # << >> /\ tiles[j].lower
  /\ \A j, l \in 1..Len(tiles) :
       /\ tiles[j].pattern = tiles[l].pattern
       /\ tiles[j].priority = tiles[l].priority
       => j = l

============================================================================
