------------------------------- MODULE Cover -------------------------------
(* Registry.Cover's loops, one iteration a step: NewRegistry, matchAt over  *)
(* the registered tiles, best over the candidates, and the tile's Lower,    *)
(* which may fail.  What Lower produces is the business of module Lower.    *)
EXTENDS Tile

CONSTANTS
  Registries,   \* the tile sets given to NewRegistry
  Spines        \* the spines to cover; a spine has at least one layer

Tiles == [name : STRING, pattern : Seq(STRING), priority : Int,
          guard : STRING, lower : BOOLEAN]

ASSUME CoverAssumption ==
  /\ Registries \subseteq Seq(Tiles)
  /\ \A sp \in Spines : Len(sp) \in Nat \ {0}

VARIABLES
  tiles,   \* Registry.tiles
  spine,   \* sp
  phase,   \* where the program is
  i,       \* layers covered so far
  k,       \* the loop index of matchAt or of best
  cands,   \* the candidates at i
  pick,    \* best's pick so far
  placed   \* the tiles lowered, with where each begins: Result.Applied

vars == <<tiles, spine, phase, i, k, cands, pick, placed>>

NoTile == [name |-> "", pattern |-> << >>, priority |-> 0, guard |-> "nil",
           lower |-> FALSE]

----------------------------------------------------------------------------
Init ==
  /\ tiles \in Registries
  /\ spine \in Spines
  /\ phase = "load"
  /\ i = 0
  /\ k = 1
  /\ cands = << >>
  /\ pick = NoTile
  /\ placed = << >>

NewRegistry ==
  /\ phase = "load"
  /\ phase' = IF Accepted(tiles) THEN "head" ELSE "rejected"
  /\ UNCHANGED <<tiles, spine, i, k, cands, pick, placed>>

\* for i < sp.Len()
LoopHead ==
  /\ phase = "head"
  /\ i < Len(spine)
  /\ phase' = "match"
  /\ k' = 1
  /\ cands' = << >>
  /\ UNCHANGED <<tiles, spine, i, pick, placed>>

MatchTile ==
  /\ phase = "match"
  /\ k <= Len(tiles)
  /\ cands' = IF Matches(tiles[k], spine, i) THEN Append(cands, tiles[k])
                                             ELSE cands
  /\ k' = k + 1
  /\ UNCHANGED <<tiles, spine, phase, i, pick, placed>>

Matched ==
  /\ phase = "match"
  /\ k > Len(tiles)
  /\ cands # << >>
  /\ phase' = "best"
  /\ pick' = cands[1]
  /\ k' = 2
  /\ UNCHANGED <<tiles, spine, i, cands, placed>>

\* Faulty: among tiles of one length the last one registered wins.
BestStepTakesLast ==
  /\ phase = "best"
  /\ k <= Len(cands)
  /\ pick' = IF Len(cands[k].pattern) >= Len(pick.pattern) THEN cands[k] ELSE pick
  /\ k' = k + 1
  /\ UNCHANGED <<tiles, spine, phase, i, cands, placed>>

BestStep ==
  /\ phase = "best"
  /\ k <= Len(cands)
  /\ pick' = IF Replaces(cands[k], pick) THEN cands[k] ELSE pick
  /\ k' = k + 1
  /\ UNCHANGED <<tiles, spine, phase, i, cands, placed>>

\* Faulty: i moves one layer past the pattern.
LowerTileSkipsLayer ==
  /\ phase = "best"
  /\ k > Len(cands)
  /\ placed' = Append(placed, [at |-> i, tile |-> pick])
  /\ i' = i + Len(pick.pattern) + 1
  /\ phase' = "head"
  /\ UNCHANGED <<tiles, spine, k, cands, pick>>

\* Faulty: i moves one layer, whatever the pattern's length.
LowerTileByOne ==
  /\ phase = "best"
  /\ k > Len(cands)
  /\ placed' = Append(placed, [at |-> i, tile |-> pick])
  /\ i' = i + 1
  /\ phase' = "head"
  /\ UNCHANGED <<tiles, spine, k, cands, pick>>

\* t.Lower succeeds: its commands are appended and i moves past the pattern.
LowerTile ==
  /\ phase = "best"
  /\ k > Len(cands)
  /\ placed' = Append(placed, [at |-> i, tile |-> pick])
  /\ i' = i + Len(pick.pattern)
  /\ phase' = "head"
  /\ UNCHANGED <<tiles, spine, k, cands, pick>>

\* t.Lower fails: the result is empty.
LowerFails ==
  /\ phase = "best"
  /\ k > Len(cands)
  /\ placed' = << >>
  /\ phase' = "failed"
  /\ UNCHANGED <<tiles, spine, i, k, cands, pick>>

\* Faulty: where nothing matches the loop goes on instead of breaking off.
LoopEndsOnlyAtEnd ==
  /\ phase = "head" /\ i >= Len(spine)
  /\ phase' = IF i = 0 THEN "nolowering" ELSE "done"
  /\ UNCHANGED <<tiles, spine, i, k, cands, pick, placed>>

\* The loop ends, at the end of the spine or where nothing matches.
LoopEnds ==
  /\ \/ phase = "head" /\ i >= Len(spine)
     \/ phase = "match" /\ k > Len(tiles) /\ cands = << >>
  /\ phase' = IF i = 0 THEN "nolowering" ELSE "done"
  /\ UNCHANGED <<tiles, spine, i, k, cands, pick, placed>>

Ended == phase \in {"rejected", "failed", "nolowering", "done"}

Terminated == Ended /\ UNCHANGED vars

Next ==
  \/ NewRegistry \/ LoopHead \/ MatchTile \/ Matched \/ BestStep
  \/ LowerTile \/ LowerFails \/ LoopEnds \/ Terminated

\* The program runs until it ends: it has one thread and never waits.
Spec == Init /\ [][Next]_vars /\ WF_vars(Next)

----------------------------------------------------------------------------
TypeOK ==
  /\ tiles \in Registries
  /\ spine \in Spines
  /\ phase \in {"load", "head", "match", "best",
                "rejected", "failed", "nolowering", "done"}
  /\ i \in 0..Len(spine)
  /\ k \in Nat \ {0}
  /\ cands \in Seq(TilesOf(tiles))
  /\ pick \in TilesOf(tiles) \cup {NoTile}
  /\ placed \in Seq([at : Nat, tile : TilesOf(tiles)])

\* The loops compute what matchAt and best stand for.
LoopsComputeBest ==
  phase = "best" /\ k > Len(cands) => pick = best(matchAt(tiles, spine, i))

\* The tiles lowered cut the spine, from its first layer and without a gap or
\* an overlap, into runs that spell their patterns.
Segmentation ==
  /\ \A j \in 1..Len(placed) :
       LET p == placed[j]
       IN /\ Matches(p.tile, spine, p.at)
          /\ p.at + Len(p.tile.pattern) =
               (IF j = Len(placed) THEN i ELSE placed[j + 1].at)
  /\ placed # << >> => placed[1].at = 0

\* What best's second case is for (tile.go:26 "lower wins a tie; only
\* consulted for identical patterns"): a pick gives way to a tile of the same
\* length only if both have one pattern.
TiesAreIdentical ==
  [][ phase = "best" /\ phase' = "best" /\ pick' # pick
        => \/ Len(pick'.pattern) > Len(pick.pattern)
           \/ pick'.pattern = pick.pattern ]_vars

\* Instruction selection ends on every spine with every registry that
\* NewRegistry lets through (an empty pattern would match for ever).
Terminates == <>Ended

\* Cover tiles as Tiling says.
Contract == INSTANCE Tiling WITH
  registry <- TilesOf(tiles),
  at       <- i,
  status   <- IF phase \in {"head", "match", "best"} THEN "tiling" ELSE phase
TilingSpec == Contract!Spec

\* Where a segmentation of the rest of the spine into tiles, chosen in any way,
\* may end.
EndsFrom[at \in 0..Len(spine)] ==
  {at} \cup UNION {EndsFrom[at + Len(t.pattern)] :
                   t \in {u \in TilesOf(tiles) : Matches(u, spine, at)}}

\* tile.go:5-7 "covering it is segmentation of a list rather than a tree
\* cover, and greedy longest-match is optimal": no other choice of tiles
\* covers more layers.
GreedyOptimal == phase = "done" => \A e \in EndsFrom[0] : e <= i

============================================================================
