------------------------------- MODULE Tiling -------------------------------
(* What instruction selection promises: a spine is tiled from the outside   *)
(* in, each time by the one tile that beats every other tile matching       *)
(* there, until no tile matches.  The registry is a set: the order in which *)
(* tiles are registered has no effect.                                      *)
EXTENDS Tile

VARIABLES
  registry,   \* the set of tiles
  spine,      \* the layers
  status,     \* "load", "tiling", or how it ended
  at,         \* layers tiled so far
  placed      \* the tiles used, with where each begins, outermost first

vars == <<registry, spine, status, at, placed>>

\* t beats u where both match: it is longer, or the same pattern at a lower
\* priority (tile.go:26 "only consulted for identical patterns").
Beats(t, u) ==
  \/ Len(t.pattern) > Len(u.pattern)
  \/ t.pattern = u.pattern /\ t.priority < u.priority

Chosen(t) ==
  /\ t \in registry
  /\ Matches(t, spine, at)
  /\ \A u \in registry \ {t} : Matches(u, spine, at) => Beats(t, u)

Start ==
  /\ status = "load"
  /\ \A t \in registry : t.pattern # << >>
  /\ \A t, u \in registry :
       t.pattern = u.pattern /\ t.priority = u.priority => t = u
  /\ status' = "tiling"
  /\ UNCHANGED <<registry, spine, at, placed>>

Reject ==
  /\ status = "load"
  /\ status' = "rejected"
  /\ UNCHANGED <<registry, spine, at, placed>>

Place ==
  /\ status = "tiling"
  /\ \E t \in registry :
       /\ Chosen(t)
       /\ placed' = Append(placed, [at |-> at, tile |-> t])
       /\ at' = at + Len(t.pattern)
  /\ UNCHANGED <<registry, spine, status>>

Stop ==
  /\ status = "tiling"
  /\ \A t \in registry : ~Matches(t, spine, at)
  /\ status' = IF at = 0 THEN "nolowering" ELSE "done"
  /\ UNCHANGED <<registry, spine, at, placed>>

\* A tile's Lower returned an error: no result at all.
Fail ==
  /\ status = "tiling"
  /\ status' = "failed"
  /\ placed' = << >>
  /\ UNCHANGED <<registry, spine, at>>

Init ==
  /\ status = "load"
  /\ at = 0
  /\ placed = << >>

Next == Start \/ Reject \/ Place \/ Stop \/ Fail

Spec == Init /\ [][Next]_vars

============================================================================
