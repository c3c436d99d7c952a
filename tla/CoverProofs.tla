---------------------------- MODULE CoverProofs ----------------------------
(* Proofs about instruction selection, for every registry and every spine. *)
EXTENDS Cover, LinuxTiles, SequenceTheorems, WellFoundedInduction, TLAPS

----------------------------------------------------------------------------
\* Two tiles of one length that match at one place have one pattern.
LEMMA SameLengthSamePattern ==
  ASSUME NEW t \in Tiles, NEW u \in Tiles, NEW sp, NEW at \in Nat,
         Matches(t, sp, at), Matches(u, sp, at),
         Len(t.pattern) = Len(u.pattern)
  PROVE  t.pattern = u.pattern
<1>1. t.pattern \in Seq(STRING) /\ u.pattern \in Seq(STRING)
  BY DEF Tiles
<1>2. \A n \in 1..Len(t.pattern) : t.pattern[n] = u.pattern[n]
  BY <1>1 DEF Matches
<1> QED BY <1>1, <1>2, SeqEqual

\* So best's switch is Tiling's Beats among tiles that match together.
LEMMA ReplacesIsBeats ==
  ASSUME NEW t \in Tiles, NEW u \in Tiles, NEW sp, NEW at \in Nat,
         Matches(t, sp, at), Matches(u, sp, at)
  PROVE  Replaces(t, u) <=> Contract!Beats(t, u)
<1>1. Len(t.pattern) = Len(u.pattern) <=> t.pattern = u.pattern
  BY SameLengthSamePattern
<1> QED BY <1>1 DEF Replaces, Contract!Beats

\* An accepted registry leaves no tie: of two different tiles that match at
\* one place, one beats the other.
LEMMA NoTies ==
  ASSUME NEW r \in Seq(Tiles), Accepted(r),
         NEW t \in TilesOf(r), NEW u \in TilesOf(r), t # u,
         NEW sp, NEW at \in Nat, Matches(t, sp, at), Matches(u, sp, at)
  PROVE  Contract!Beats(t, u) \/ Contract!Beats(u, t)
<1>1. PICK j \in 1..Len(r) : r[j] = t
  BY DEF TilesOf
<1>2. PICK l \in 1..Len(r) : r[l] = u
  BY DEF TilesOf
<1>3. t \in Tiles /\ u \in Tiles
  BY <1>1, <1>2
<1>4. /\ Len(t.pattern) \in Nat /\ Len(u.pattern) \in Nat
      /\ t.priority \in Int /\ u.priority \in Int
  BY <1>3 DEF Tiles
<1>5. ~(t.pattern = u.pattern /\ t.priority = u.priority)
  BY <1>1, <1>2 DEF Accepted
<1>6. Len(t.pattern) = Len(u.pattern) => t.pattern = u.pattern
  BY <1>3, SameLengthSamePattern
<1> QED BY <1>4, <1>5, <1>6 DEF Contract!Beats

\* Beating is transitive, so the last pick beats what earlier picks beat.
LEMMA BeatsTransitive ==
  ASSUME NEW t \in Tiles, NEW u \in Tiles, NEW v \in Tiles,
         Contract!Beats(t, u), Contract!Beats(u, v)
  PROVE  Contract!Beats(t, v)
<1>1. /\ Len(t.pattern) \in Nat /\ Len(u.pattern) \in Nat /\ Len(v.pattern) \in Nat
      /\ t.priority \in Int /\ u.priority \in Int /\ v.priority \in Int
  BY DEF Tiles
<1> QED BY <1>1 DEF Contract!Beats

----------------------------------------------------------------------------
\* The invariant of Cover's loops.

\* Nothing is tiled with a registry NewRegistry did not accept.
Loaded == phase \notin {"load", "rejected"} => Accepted(tiles)

\* matchAt has kept exactly the matching ones of the tiles it has seen.
MatchSoFar ==
  phase = "match" =>
    /\ k \in 1..(Len(tiles) + 1)
    /\ \A l \in 1..Len(cands) : Matches(cands[l], spine, i)
    /\ \A j \in 1..(k - 1) :
         Matches(tiles[j], spine, i) => \E l \in 1..Len(cands) : cands[l] = tiles[j]

\* best's pick is a candidate and beats the candidates it has seen.
PickSoFar ==
  phase = "best" =>
    /\ k \in 2..(Len(cands) + 1)
    /\ pick \in TilesOf(tiles)
    /\ Matches(pick, spine, i)
    /\ \A l \in 1..Len(cands) : Matches(cands[l], spine, i)
    /\ \A t \in TilesOf(tiles) :
         Matches(t, spine, i) => \E l \in 1..Len(cands) : cands[l] = t
    /\ \A l \in 1..(k - 1) : cands[l] = pick \/ Contract!Beats(pick, cands[l])

\* While tiling, no layer is behind i unless a tile was lowered.
NoneYet == phase \in {"load", "head", "match", "best"} /\ placed = << >> => i = 0

CoverInv ==
  /\ TypeOK
  /\ NoneYet
  /\ Loaded
  /\ MatchSoFar
  /\ PickSoFar
  /\ Segmentation

\* CoverInv holds before NewRegistry.
LEMMA CoverInvInit == Init => CoverInv
<1> SUFFICES ASSUME Init PROVE CoverInv
  OBVIOUS
<1> USE DEF Init
<1>1. TypeOK
  BY CoverAssumption DEF TypeOK
<1>2. Loaded /\ NoneYet /\ MatchSoFar /\ PickSoFar
  BY DEF Loaded, NoneYet, MatchSoFar, PickSoFar
<1>3. Segmentation
  BY DEF Segmentation
<1> QED BY <1>1, <1>2, <1>3 DEF CoverInv

\* The tiles of a registry are tiles, its candidates too.
LEMMA TilesTyped ==
  ASSUME TypeOK
  PROVE  /\ tiles \in Seq(Tiles)
         /\ TilesOf(tiles) \subseteq Tiles
         /\ \A l \in 1..Len(cands) : cands[l] \in TilesOf(tiles)
         /\ Len(cands) \in Nat /\ Len(tiles) \in Nat /\ Len(spine) \in Nat \ {0}
<1>1. tiles \in Seq(Tiles)
  BY CoverAssumption DEF TypeOK
<1>2. \A t \in TilesOf(tiles) : t \in Tiles
  BY <1>1 DEF TilesOf
<1>3. \A l \in 1..Len(cands) : cands[l] \in TilesOf(tiles)
  BY DEF TypeOK
<1>4. Len(cands) \in Nat /\ Len(tiles) \in Nat
  BY <1>1 DEF TypeOK
<1>5. Len(spine) \in Nat \ {0}
  BY CoverAssumption DEF TypeOK
<1> QED BY <1>1, <1>2, <1>3, <1>4, <1>5

\* Every step of the loops keeps CoverInv: one case an action.
LEMMA CoverInvNext == CoverInv /\ [Next]_vars => CoverInv'
<1> SUFFICES ASSUME CoverInv, [Next]_vars PROVE CoverInv'
  OBVIOUS
<1> USE DEF CoverInv
<1>0. /\ tiles \in Seq(Tiles)
      /\ TilesOf(tiles) \subseteq Tiles
      /\ \A l \in 1..Len(cands) : cands[l] \in TilesOf(tiles)
      /\ Len(cands) \in Nat /\ Len(tiles) \in Nat /\ Len(spine) \in Nat \ {0}
  BY TilesTyped
<1>1. CASE NewRegistry
  <2> USE <1>1 DEF NewRegistry
  <2>1. TypeOK'
    BY DEF TypeOK
  <2>2. Loaded' /\ NoneYet' /\ MatchSoFar' /\ PickSoFar'
    BY DEF Loaded, NoneYet, MatchSoFar, PickSoFar
  <2>3. Segmentation'
    BY DEF Segmentation
  <2> QED BY <2>1, <2>2, <2>3
<1>2. CASE LoopHead
  <2> USE <1>2 DEF LoopHead
  <2>1. TypeOK'
    BY DEF TypeOK
  <2>2. Loaded' /\ NoneYet' /\ MatchSoFar' /\ PickSoFar'
    BY <1>0 DEF Loaded, NoneYet, MatchSoFar, PickSoFar
  <2>3. Segmentation'
    BY DEF Segmentation
  <2> QED BY <2>1, <2>2, <2>3
<1>3. CASE MatchTile
  <2> USE <1>3 DEF MatchTile
  <2>0. k \in 1..Len(tiles) /\ tiles[k] \in TilesOf(tiles)
    BY <1>0 DEF TypeOK, TilesOf
  <2>1. TypeOK'
    BY <2>0 DEF TypeOK
  <2>2. Loaded' /\ NoneYet' /\ PickSoFar' /\ Segmentation'
    BY DEF Loaded, NoneYet, PickSoFar, Segmentation
  <2>3. MatchSoFar'
    <3>1. CASE ~Matches(tiles[k], spine, i)
      BY <1>0, <2>0, <3>1 DEF MatchSoFar
    <3>2. CASE Matches(tiles[k], spine, i)
      <4>1. cands' = Append(cands, tiles[k]) /\ cands \in Seq(TilesOf(tiles))
        BY <3>2 DEF TypeOK
      <4>2. /\ Len(cands') = Len(cands) + 1
            /\ cands'[Len(cands) + 1] = tiles[k]
            /\ \A l \in 1..Len(cands) : cands'[l] = cands[l]
        BY <2>0, <4>1
      <4>3. \A l \in 1..Len(cands') : Matches(cands'[l], spine, i)
        BY <1>0, <3>2, <4>2 DEF MatchSoFar
      <4>4. \A j \in 1..k : Matches(tiles[j], spine, i) =>
                               \E l \in 1..Len(cands') : cands'[l] = tiles[j]
        BY <1>0, <2>0, <4>2 DEF MatchSoFar
      <4> QED BY <1>0, <2>0, <4>3, <4>4 DEF MatchSoFar
    <3> QED BY <3>1, <3>2
  <2> QED BY <2>1, <2>2, <2>3
<1>4. CASE Matched
  <2> USE <1>4 DEF Matched
  <2>0. /\ Len(cands) >= 1 /\ cands[1] \in TilesOf(tiles)
        /\ k = Len(tiles) + 1
    BY <1>0 DEF TypeOK, MatchSoFar
  <2>1. TypeOK'
    BY <2>0 DEF TypeOK
  <2>2. Loaded' /\ NoneYet' /\ MatchSoFar' /\ Segmentation'
    BY DEF Loaded, NoneYet, MatchSoFar, Segmentation
  <2>3. \A t \in TilesOf(tiles) :
          Matches(t, spine, i) => \E l \in 1..Len(cands) : cands[l] = t
    BY <1>0, <2>0 DEF MatchSoFar, TilesOf
  <2>4. PickSoFar'
    BY <1>0, <2>0, <2>3 DEF PickSoFar, MatchSoFar
  <2> QED BY <2>1, <2>2, <2>4
<1>5. CASE BestStep
  <2> USE <1>5 DEF BestStep
  <2>0. /\ k \in 1..Len(cands) /\ cands[k] \in TilesOf(tiles)
        /\ Matches(cands[k], spine, i) /\ i \in Nat
        /\ pick \in TilesOf(tiles) /\ Matches(pick, spine, i)
    BY <1>0 DEF TypeOK, PickSoFar
  <2>1. TypeOK'
    BY <2>0 DEF TypeOK
  <2>2. Loaded' /\ NoneYet' /\ MatchSoFar' /\ Segmentation'
    BY DEF Loaded, NoneYet, MatchSoFar, Segmentation
  <2>3. pick' \in TilesOf(tiles) /\ Matches(pick', spine, i)
    BY <2>0
  <2>4. cands[k] = pick' \/ Contract!Beats(pick', cands[k])
    <3>1. CASE Replaces(cands[k], pick)
      BY <3>1
    <3>2. CASE ~Replaces(cands[k], pick)
      <4>1. ~Contract!Beats(cands[k], pick)
        BY <1>0, <2>0, <3>2, ReplacesIsBeats
      <4>2. Accepted(tiles)
        BY DEF Loaded
      <4> QED BY <1>0, <2>0, <3>2, <4>1, <4>2, NoTies
    <3> QED BY <3>1, <3>2
  <2>5. ASSUME NEW l \in 1..(k - 1)
        PROVE  cands[l] = pick' \/ Contract!Beats(pick', cands[l])
    <3>1. cands[l] = pick \/ Contract!Beats(pick, cands[l])
      BY DEF PickSoFar
    <3>2. CASE ~Replaces(cands[k], pick)
      BY <3>1, <3>2
    <3>3. CASE Replaces(cands[k], pick)
      <4>1. pick' = cands[k] /\ Contract!Beats(pick', pick)
        BY <1>0, <2>0, <3>3, ReplacesIsBeats
      <4>2. cands[l] \in Tiles
        BY <1>0, <2>0
      <4> QED BY <1>0, <2>0, <3>1, <4>1, <4>2, BeatsTransitive
    <3> QED BY <3>2, <3>3
  <2>6. PickSoFar'
    <3>1. \A l \in 1..k : cands[l] = pick' \/ Contract!Beats(pick', cands[l])
      BY <2>0, <2>4, <2>5
    <3> QED BY <1>0, <2>0, <2>3, <3>1 DEF PickSoFar
  <2> QED BY <2>1, <2>2, <2>6
<1>6. CASE LowerTile
  <2> USE <1>6 DEF LowerTile
  <2>0. /\ pick \in TilesOf(tiles) /\ Matches(pick, spine, i) /\ i \in Nat
        /\ Len(pick.pattern) \in Nat /\ i + Len(pick.pattern) <= Len(spine)
    BY <1>0 DEF TypeOK, PickSoFar, Matches, Tiles
  <2>1. TypeOK'
    BY <1>0, <2>0 DEF TypeOK
  <2>2. Loaded' /\ NoneYet' /\ MatchSoFar' /\ PickSoFar'
    <3>0. /\ placed \in Seq([at : Nat, tile : TilesOf(tiles)])
          /\ placed' = Append(placed, [at |-> i, tile |-> pick])
      BY DEF TypeOK
    <3>1. placed' # << >>
      <4>1. Len(placed') = Len(placed) + 1 /\ Len(placed) \in Nat
        BY <3>0
      <4>2. Len(placed') # 0
        BY <4>1
      <4> QED BY <4>2
    <3> QED BY <3>1 DEF Loaded, NoneYet, MatchSoFar, PickSoFar
  <2>3. Segmentation'
    <3> DEFINE new == [at |-> i, tile |-> pick]
    <3>1. placed \in Seq([at : Nat, tile : TilesOf(tiles)])
      BY DEF TypeOK
    <3>2. /\ Len(placed') = Len(placed) + 1 /\ Len(placed) \in Nat
          /\ placed'[Len(placed) + 1] = new
          /\ \A j \in 1..Len(placed) : placed'[j] = placed[j]
      BY <3>1
    <3>3. /\ Matches(new.tile, spine, new.at)
          /\ new.at + Len(new.tile.pattern) = i'
      BY <2>0
    <3>4. ASSUME NEW j \in 1..Len(placed)
          PROVE  /\ Matches(placed'[j].tile, spine, placed'[j].at)
                 /\ placed'[j].at + Len(placed'[j].tile.pattern) = placed'[j + 1].at
      BY <3>2 DEF Segmentation
    <3>5. placed'[1].at = 0
      <4>1. CASE placed = << >>
        <5>1. i = 0
          BY <4>1 DEF NoneYet
        <5> QED BY <3>2, <4>1, <5>1
      <4>2. CASE placed # << >>
        BY <3>1, <3>2, <4>2 DEF Segmentation
      <4> QED BY <4>1, <4>2
    <3> QED BY <3>2, <3>3, <3>4, <3>5 DEF Segmentation
  <2> QED BY <2>1, <2>2, <2>3
<1>7. CASE LowerFails
  <2> USE <1>7 DEF LowerFails
  <2>1. TypeOK'
    BY DEF TypeOK
  <2>2. Loaded' /\ NoneYet' /\ MatchSoFar' /\ PickSoFar'
    BY DEF Loaded, NoneYet, MatchSoFar, PickSoFar
  <2>3. Segmentation'
    BY DEF Segmentation
  <2> QED BY <2>1, <2>2, <2>3
<1>8. CASE LoopEnds
  <2> USE <1>8 DEF LoopEnds
  <2>1. TypeOK'
    BY DEF TypeOK
  <2>2. Loaded' /\ NoneYet' /\ MatchSoFar' /\ PickSoFar'
    BY DEF Loaded, NoneYet, MatchSoFar, PickSoFar
  <2>3. Segmentation'
    BY DEF Segmentation
  <2> QED BY <2>1, <2>2, <2>3
<1>9. CASE UNCHANGED vars
  <2> USE <1>9 DEF vars
  <2>1. TypeOK'
    BY DEF TypeOK
  <2>2. Loaded' /\ NoneYet' /\ MatchSoFar' /\ PickSoFar'
    BY DEF Loaded, NoneYet, MatchSoFar, PickSoFar
  <2>3. Segmentation'
    BY DEF Segmentation
  <2> QED BY <2>1, <2>2, <2>3
<1> QED BY <1>1, <1>2, <1>3, <1>4, <1>5, <1>6, <1>7, <1>8, <1>9
        DEF Next, Terminated

\* The loops' invariant holds throughout.
THEOREM CoverInvariant == Spec => []CoverInv
BY CoverInvInit, CoverInvNext, PTL DEF Spec

\* Cover's variables keep their types: i stays within the spine, the
\* candidates and the pick within the registry.
THEOREM CoverTypeOK == Spec => []TypeOK
<1>1. CoverInv => TypeOK
  BY DEF CoverInv
<1> QED BY <1>1, CoverInvariant, PTL

\* The tiles lowered cut the spine into runs without a gap or an overlap.
THEOREM CoverSegments == Spec => []Segmentation
<1>1. CoverInv => Segmentation
  BY DEF CoverInv
<1> QED BY <1>1, CoverInvariant, PTL

\* A priority decides only between tiles with one pattern.
THEOREM TiesOnlyBetweenIdentical == Spec => TiesAreIdentical
<1> DEFINE Step == phase = "best" /\ phase' = "best" /\ pick' # pick
                     => \/ Len(pick'.pattern) > Len(pick.pattern)
                        \/ pick'.pattern = pick.pattern
<1>1. CoverInv /\ [Next]_vars => [Step]_vars
  <2> SUFFICES ASSUME CoverInv, Next, phase = "best", phase' = "best",
                      pick' # pick
               PROVE  \/ Len(pick'.pattern) > Len(pick.pattern)
                      \/ pick'.pattern = pick.pattern
    OBVIOUS
  <2>1. BestStep
    BY DEF Next, NewRegistry, LoopHead, MatchTile, Matched, LowerTile,
           LowerFails, LoopEnds, Terminated, vars
  <2>2. /\ pick' = cands[k] /\ Replaces(cands[k], pick)
        /\ k \in 1..Len(cands)
    BY <2>1, TilesTyped DEF BestStep, CoverInv, TypeOK
  <2>3. /\ pick \in Tiles /\ cands[k] \in Tiles /\ i \in Nat
        /\ Matches(pick, spine, i) /\ Matches(cands[k], spine, i)
    BY <2>2, TilesTyped DEF CoverInv, TypeOK, PickSoFar
  <2>4. Contract!Beats(cands[k], pick)
    BY <2>2, <2>3, ReplacesIsBeats
  <2> QED BY <2>2, <2>4 DEF Contract!Beats
<1> QED BY <1>1, CoverInvariant, PTL DEF Spec, TiesAreIdentical

----------------------------------------------------------------------------
\* Cover implements Tiling.

\* Tiling means by a match what matchAt tests.
LEMMA SameMatches ==
  \A t, sp, at : Contract!Matches(t, sp, at) = Matches(t, sp, at)
BY DEF Contract!Matches, Matches, Contract!Admits, Admits, Contract!Slice, Slice

\* Each step of the loops is a step of Tiling or one it does not see.
LEMMA StepTiles == CoverInv /\ [Next]_vars => [Contract!Next]_(Contract!vars)
<1> DEFINE abs == <<TilesOf(tiles), spine,
                    IF phase \in {"head", "match", "best"} THEN "tiling" ELSE phase,
                    i, placed>>
<1> SUFFICES ASSUME CoverInv, [Next]_vars
             PROVE  Contract!Next \/ UNCHANGED abs
  BY DEF Contract!vars
<1> USE DEF CoverInv
<1>0. /\ tiles \in Seq(Tiles)
      /\ TilesOf(tiles) \subseteq Tiles
      /\ \A l \in 1..Len(cands) : cands[l] \in TilesOf(tiles)
      /\ Len(cands) \in Nat /\ Len(tiles) \in Nat /\ Len(spine) \in Nat \ {0}
  BY TilesTyped
<1>1. CASE NewRegistry
  <2>1. CASE Accepted(tiles)
    <3>1. \A t \in TilesOf(tiles) : t.pattern # << >>
      BY <2>1 DEF Accepted, TilesOf
    <3>2. \A t, u \in TilesOf(tiles) :
            t.pattern = u.pattern /\ t.priority = u.priority => t = u
      BY <2>1 DEF Accepted, TilesOf
    <3>3. Contract!Start
      BY <1>1, <2>1, <3>1, <3>2 DEF NewRegistry, Contract!Start
    <3> QED BY <3>3 DEF Contract!Next
  <2>2. CASE ~Accepted(tiles)
    <3>1. Contract!Reject
      BY <1>1, <2>2 DEF NewRegistry, Contract!Reject
    <3> QED BY <3>1 DEF Contract!Next
  <2> QED BY <2>1, <2>2
<1>2. CASE LoopHead \/ MatchTile \/ Matched \/ BestStep
  BY <1>2 DEF LoopHead, MatchTile, Matched, BestStep
<1>3. CASE LowerTile
  <2>1. /\ pick \in TilesOf(tiles) /\ Matches(pick, spine, i)
        /\ k - 1 = Len(cands)
    <3>1. phase = "best" /\ k > Len(cands)
      BY <1>3 DEF LowerTile
    <3>2. k \in 2..(Len(cands) + 1)
      BY <3>1 DEF PickSoFar
    <3> QED BY <1>0, <3>1, <3>2 DEF PickSoFar
  <2>2. \A u \in TilesOf(tiles) \ {pick} :
          Matches(u, spine, i) => Contract!Beats(pick, u)
    BY <1>0, <1>3, <2>1 DEF LowerTile, PickSoFar
  <2>3. Contract!Chosen(pick)
    BY <2>1, <2>2, SameMatches DEF Contract!Chosen
  <2>4. Contract!Place
    BY <1>3, <2>1, <2>3 DEF LowerTile, Contract!Place
  <2> QED BY <2>4 DEF Contract!Next
<1>4. CASE LowerFails
  <2>1. Contract!Fail
    BY <1>4 DEF LowerFails, Contract!Fail
  <2> QED BY <2>1 DEF Contract!Next
<1>5. CASE LoopEnds
  <2>1. \A t \in TilesOf(tiles) : ~Matches(t, spine, i)
    <3>1. CASE phase = "head" /\ i >= Len(spine)
      <4>1. SUFFICES ASSUME NEW t \in TilesOf(tiles)
                     PROVE  i + Len(t.pattern) > Len(spine)
        BY <1>0 DEF Matches, Tiles, TypeOK
      <4>2. Accepted(tiles)
        BY <3>1 DEF Loaded
      <4>3. t.pattern # << >> /\ t.pattern \in Seq(STRING)
        BY <1>0, <4>2 DEF Accepted, TilesOf, Tiles
      <4>4. Len(t.pattern) \in Nat \ {0}
        BY <4>3
      <4> QED BY <1>0, <3>1, <4>4 DEF TypeOK
    <3>2. CASE phase = "match" /\ k > Len(tiles) /\ cands = << >>
      <4>1. \A j \in 1..Len(tiles) : ~Matches(tiles[j], spine, i)
        BY <1>0, <3>2 DEF MatchSoFar
      <4> QED BY <4>1 DEF TilesOf
    <3> QED BY <1>5, <3>1, <3>2 DEF LoopEnds
  <2>2. Contract!Stop
    BY <1>5, <2>1, SameMatches DEF LoopEnds, Contract!Stop
  <2> QED BY <2>2 DEF Contract!Next
<1>6. CASE UNCHANGED vars
  BY <1>6 DEF vars
<1> QED BY <1>1, <1>2, <1>3, <1>4, <1>5, <1>6 DEF Next, Terminated

\* Cover tiles every spine as Tiling says: at each place the one tile that
\* beats all others there, whatever the order of registration, and it stops
\* only where no tile matches.
THEOREM CoverImplementsTiling == Spec => TilingSpec
<1>1. Init => Contract!Init
  BY DEF Init, Contract!Init
<1> QED BY <1>1, StepTiles, CoverInvariant, PTL
        DEF Spec, TilingSpec, Contract!Spec

\* There is never a choice: in a registry NewRegistry accepts, at most one
\* tile is the chosen one at any place of any spine.
THEOREM ChoiceIsUnique ==
  ASSUME NEW r \in Seq(Tiles), Accepted(r), NEW sp, NEW at \in Nat,
         NEW t \in TilesOf(r), NEW u \in TilesOf(r),
         Matches(t, sp, at), Matches(u, sp, at),
         \A v \in TilesOf(r) \ {t} : Matches(v, sp, at) => Contract!Beats(t, v),
         \A v \in TilesOf(r) \ {u} : Matches(v, sp, at) => Contract!Beats(u, v)
  PROVE  t = u
<1> SUFFICES ASSUME t # u PROVE FALSE
  OBVIOUS
<1>1. t \in Tiles /\ u \in Tiles
  BY DEF TilesOf
<1>2. Contract!Beats(t, u) /\ Contract!Beats(u, t)
  OBVIOUS
<1>3. /\ Len(t.pattern) \in Nat /\ Len(u.pattern) \in Nat
      /\ t.priority \in Int /\ u.priority \in Int
  BY <1>1 DEF Tiles
<1> QED BY <1>2, <1>3 DEF Contract!Beats

----------------------------------------------------------------------------
\* What the loops compute.

\* Every set of numbers that is not empty has a least one.
LEMMA LeastNumber ==
  ASSUME NEW T, T \subseteq Nat, T # {}
  PROVE  \E x \in T : \A y \in T : x <= y
<1> DEFINE R == OpToRel(<, Nat)
<1>1. \A x, y \in Nat : <<y, x>> \in R <=> y < x
  BY DEF OpToRel
<1>2. IsWellFoundedOn(R, Nat)
  BY NatLessThanWellFounded
<1> HIDE DEF R
<1>3. PICK x \in T : \A y \in T : ~ (<<y, x>> \in R)
  BY <1>2, WFMin
<1>4. \A y \in T : x <= y
  <2> TAKE y \in T
  <2>1. x \in Nat /\ y \in Nat
    OBVIOUS
  <2>2. ~(y < x)
    BY <1>1, <1>3, <2>1, Zenon
  <2> QED BY <2>1, <2>2
<1> QED BY <1>4

\* Among the tiles seen so far that match, one is replaced by none of them.
LEMMA UnreplacedExists ==
  ASSUME NEW r \in Seq(Tiles), NEW sp, NEW at \in Nat, matchAt(r, sp, at) # {}
  PROVE  \E t \in matchAt(r, sp, at) : \A u \in matchAt(r, sp, at) : ~Replaces(u, t)
<1> DEFINE S(n) == {t \in {r[j] : j \in 1..n} : Matches(t, sp, at)}
           Has(n) == \E t \in S(n) : \A u \in S(n) : ~Replaces(u, t)
           T == {n \in 0..Len(r) : S(n) # {} /\ ~Has(n)}
<1>1. Len(r) \in Nat /\ \A j \in 1..Len(r) : r[j] \in Tiles
  OBVIOUS
<1>2. T = {}
  <2> SUFFICES ASSUME T # {} PROVE FALSE
    OBVIOUS
  <2>1. PICK n \in T : \A l \in T : n <= l
    <3>1. T \subseteq Nat
      BY <1>1
    <3> HIDE DEF T
    <3> QED BY <3>1, LeastNumber
  <2>2. n \in 0..Len(r) /\ S(n) # {} /\ ~Has(n)
    OBVIOUS
  <2>3. n # 0
    <3>1. S(0) = {}
      OBVIOUS
    <3> QED BY <2>2, <3>1
  <2>4. n - 1 \in 0..Len(r) /\ n \in 1..Len(r) /\ ~(n <= n - 1)
    BY <1>1, <2>2, <2>3
  <2>5. S(n - 1) = {} \/ Has(n - 1)
    BY <2>1, <2>4
  <2>6. S(n) = S(n - 1) \cup {t \in {r[n]} : Matches(t, sp, at)}
    <3>1. 1..n = 1..(n - 1) \cup {n}
      BY <2>4
    <3> QED BY <3>1
  <2>7. \A t \in S(n) : t \in Tiles
    BY <1>1, <2>4
  <2> DEFINE c == r[n]
  <2> HIDE DEF S, T
  <2>8. c \in S(n) /\ S(n) = S(n - 1) \cup {c}
    BY <2>2, <2>5, <2>6
  <2>9. ~Replaces(c, c)
    BY <2>7, <2>8 DEF Replaces, Tiles
  <2>10. CASE S(n - 1) = {}
    BY <2>2, <2>8, <2>9, <2>10
  <2>11. CASE Has(n - 1)
    <3>1. PICK b \in S(n - 1) : \A u \in S(n - 1) : ~Replaces(u, b)
      BY <2>11
    <3>2. CASE Replaces(c, b)
      <4>1. \A u \in S(n - 1) : ~Replaces(u, c)
        <5> TAKE u \in S(n - 1)
        <5>1. u \in Tiles /\ b \in Tiles /\ c \in Tiles
          BY <2>7, <2>8
        <5> HIDE DEF c
        <5>2. /\ Len(u.pattern) \in Nat /\ Len(b.pattern) \in Nat /\ Len(c.pattern) \in Nat
              /\ u.priority \in Int /\ b.priority \in Int /\ c.priority \in Int
          BY <5>1 DEF Tiles
        <5>3. ~Replaces(u, b)
          BY <3>1
        <5> QED BY <3>2, <5>2, <5>3 DEF Replaces
      <4> QED BY <2>2, <2>8, <2>9, <4>1
    <3>3. CASE ~Replaces(c, b)
      BY <2>2, <2>8, <3>1, <3>3
    <3> QED BY <3>2, <3>3
  <2> QED BY <2>5, <2>10, <2>11
<1>3. S(Len(r)) = matchAt(r, sp, at)
  BY DEF matchAt, TilesOf
<1>4. Len(r) \in 0..Len(r)
  BY <1>1
<1> QED BY <1>2, <1>3, <1>4

\* best is one of the tiles that match, and beats the others.
LEMMA BestBeats ==
  ASSUME NEW r \in Seq(Tiles), Accepted(r), NEW sp, NEW at \in Nat,
         matchAt(r, sp, at) # {}
  PROVE  LET b == best(matchAt(r, sp, at))
         IN /\ b \in matchAt(r, sp, at)
            /\ \A u \in matchAt(r, sp, at) \ {b} : Contract!Beats(b, u)
<1> DEFINE S == matchAt(r, sp, at)
           b == best(S)
<1>1. b \in S /\ \A u \in S : ~Replaces(u, b)
  BY UnreplacedExists DEF best
<1>2. ASSUME NEW u \in S \ {b} PROVE Contract!Beats(b, u)
  <2>1. u \in TilesOf(r) /\ b \in TilesOf(r) /\ Matches(u, sp, at) /\ Matches(b, sp, at)
    BY <1>1, <1>2 DEF matchAt
  <2>2. u \in Tiles /\ b \in Tiles
    BY <2>1 DEF TilesOf
  <2>3. ~Replaces(u, b) /\ u # b
    BY <1>1, <1>2
  <2> HIDE DEF b, S
  <2>4. ~Contract!Beats(u, b)
    BY <2>1, <2>2, <2>3, ReplacesIsBeats
  <2> QED BY <2>1, <2>3, <2>4, NoTies
<1> QED BY <1>1, <1>2

\* At the end of best's loop, the pick is best.
LEMMA BestIsPicked == CoverInv => LoopsComputeBest
<1> SUFFICES ASSUME CoverInv, phase = "best", k > Len(cands)
             PROVE  pick = best(matchAt(tiles, spine, i))
  BY DEF LoopsComputeBest
<1> DEFINE S == matchAt(tiles, spine, i)
           b == best(S)
<1>1. /\ tiles \in Seq(Tiles) /\ Accepted(tiles) /\ i \in Nat
      /\ Len(cands) \in Nat
  BY TilesTyped DEF CoverInv, TypeOK, Loaded
<1>2. pick \in S /\ k \in 2..(Len(cands) + 1)
  BY DEF CoverInv, PickSoFar, matchAt
<1>3. \A u \in S : u = pick \/ Contract!Beats(pick, u)
  <2> TAKE u \in S
  <2>1. PICK l \in 1..Len(cands) : cands[l] = u
    BY DEF CoverInv, PickSoFar, matchAt
  <2>2. l \in 1..(k - 1)
    BY <1>1, <1>2
  <2> QED BY <2>1, <2>2 DEF CoverInv, PickSoFar
<1>4. b \in S /\ \A u \in S \ {b} : Contract!Beats(b, u)
  BY <1>1, <1>2, BestBeats
<1> SUFFICES ASSUME b # pick PROVE FALSE
  OBVIOUS
<1>5. Contract!Beats(b, pick) /\ Contract!Beats(pick, b)
  BY <1>2, <1>3, <1>4
<1>6. pick \in Tiles /\ b \in Tiles
  BY <1>1, <1>2, <1>4 DEF matchAt, TilesOf
<1> HIDE DEF b
<1>7. /\ Len(pick.pattern) \in Nat /\ Len(b.pattern) \in Nat
      /\ pick.priority \in Int /\ b.priority \in Int
  BY <1>6 DEF Tiles
<1> QED BY <1>5, <1>7 DEF Contract!Beats

\* matchAt and best, loop by loop, come to what they stand for.
THEOREM LoopsAreRight == Spec => []LoopsComputeBest
<1> QED BY BestIsPicked, CoverInvariant, PTL

----------------------------------------------------------------------------
\* No choice of tiles covers more.

\* A tile of an accepted registry covers at least one layer.
LEMMA PatternNotEmpty ==
  ASSUME TypeOK, Accepted(tiles), NEW t \in TilesOf(tiles)
  PROVE  Len(t.pattern) \in Nat \ {0}
<1>1. PICK j \in 1..Len(tiles) : t = tiles[j]
  BY DEF TilesOf
<1>2. t \in Tiles
  BY TilesTyped
<1>3. t.pattern \in Seq(STRING) /\ t.pattern # << >>
  BY <1>1, <1>2 DEF Tiles, Accepted
<1> QED BY <1>3

\* One step of the ends, from the ends of the positions further on.
EndsOver(g, at) ==
  {at} \cup UNION {g[at + Len(t.pattern)] :
                   t \in {u \in TilesOf(tiles) : Matches(u, spine, at)}}

\* It looks only at positions further on, and within the spine.
LEMMA EndsLookAhead ==
  ASSUME TypeOK, Accepted(tiles), NEW at \in 0..Len(spine), NEW g, NEW h,
         \A l \in (at + 1)..Len(spine) : g[l] = h[l]
  PROVE  EndsOver(g, at) = EndsOver(h, at)
<1> DEFINE M == {u \in TilesOf(tiles) : Matches(u, spine, at)}
<1>1. \A t \in M : at + Len(t.pattern) \in (at + 1)..Len(spine)
  <2> TAKE t \in M
  <2>1. Len(t.pattern) \in Nat \ {0} /\ Len(spine) \in Nat
    BY PatternNotEmpty, TilesTyped
  <2>2. at + Len(t.pattern) <= Len(spine)
    BY DEF Matches
  <2> QED BY <2>1, <2>2
<1>2. \A t \in M : g[at + Len(t.pattern)] = h[at + Len(t.pattern)]
  BY <1>1
<1> HIDE DEF M
<1>3. {g[at + Len(t.pattern)] : t \in M} = {h[at + Len(t.pattern)] : t \in M}
  BY <1>2, Zenon
<1> QED BY <1>3 DEF EndsOver, M

\* A function that is EndsFrom from a position on.
EndsUpTo(g, from) == g = [at \in from..Len(spine) |-> EndsOver(g, at)]

\* From the last position backwards there is always one.
LEMMA EndsExist ==
  ASSUME TypeOK, Accepted(tiles)
  PROVE  \E g : EndsUpTo(g, 0)
<1> PICK n \in Nat : n = Len(spine)
  BY TilesTyped
<1> DEFINE T == {m \in 0..(n + 1) : ~ \E g : EndsUpTo(g, (n + 1) - m)}
<1>1. T = {}
  <2> SUFFICES ASSUME T # {} PROVE FALSE
    OBVIOUS
  <2>1. PICK m \in T : \A l \in T : m <= l
    <3>1. T \subseteq Nat
      OBVIOUS
    <3> HIDE DEF T
    <3> QED BY <3>1, LeastNumber
  <2>2. m \in 0..(n + 1) /\ ~ \E g : EndsUpTo(g, (n + 1) - m)
    OBVIOUS
  <2>3. m # 0
    <3>1. (n + 1)..Len(spine) = {}
      OBVIOUS
    <3>2. EndsUpTo([at \in {} |-> {}], n + 1)
      BY <3>1 DEF EndsUpTo
    <3> QED BY <2>2, <3>2
  <2>4. m - 1 \in 0..(n + 1) /\ m - 1 \notin T
    BY <2>1, <2>2, <2>3
  <2> DEFINE from == (n + 1) - m
  <2>5. from \in 0..n /\ (n + 1) - (m - 1) = from + 1
    BY <2>2, <2>3
  <2>6. PICK h : EndsUpTo(h, from + 1)
    BY <2>4, <2>5
  <2> HIDE DEF T, from
  <2> DEFINE g == [at \in from..n |-> IF at = from THEN EndsOver(h, at) ELSE h[at]]
  <2>7. \A at \in (from + 1)..n : g[at] = h[at]
    BY <2>5
  <2>8. \A at \in (from + 1)..n : h[at] = EndsOver(h, at)
    BY <2>6 DEF EndsUpTo
  <2>9. \A at \in from..n : g[at] = EndsOver(h, at)
    <3> TAKE at \in from..n
    <3>1. CASE at = from
      BY <3>1
    <3>2. CASE at # from
      <4>1. at \in (from + 1)..n
        BY <2>5, <3>2
      <4> QED BY <2>7, <2>8, <4>1, Zenon
    <3> QED BY <3>1, <3>2
  <2> HIDE DEF g
  <2>10. \A at \in from..n : EndsOver(h, at) = EndsOver(g, at)
    <3> TAKE at \in from..n
    <3>1. at \in 0..Len(spine) /\ \A l \in (at + 1)..Len(spine) : l \in (from + 1)..n
      BY <2>5
    <3>2. \A l \in (at + 1)..Len(spine) : g[l] = h[l]
      BY <2>7, <3>1, Zenon
    <3> QED BY <3>1, <3>2, EndsLookAhead
  <2>11. g = [at \in from..n |-> g[at]]
    BY DEF g
  <2>12. g = [at \in from..n |-> EndsOver(g, at)]
    BY <2>9, <2>10, <2>11, Zenon
  <2>13. EndsUpTo(g, from)
    BY <2>12 DEF EndsUpTo
  <2> QED BY <2>2, <2>13 DEF from
<1>2. n + 1 \in 0..(n + 1) /\ (n + 1) - (n + 1) = 0
  OBVIOUS
<1> QED BY <1>1, <1>2

\* So the recursive definition of EndsFrom defines it.
LEMMA EndsDefined ==
  ASSUME TypeOK, Accepted(tiles)
  PROVE  \A at \in 0..Len(spine) : EndsFrom[at] = EndsOver(EndsFrom, at)
<1>1. EndsFrom = CHOOSE g : EndsUpTo(g, 0)
  BY DEF EndsFrom, EndsUpTo, EndsOver
<1>2. EndsUpTo(EndsFrom, 0)
  BY <1>1, EndsExist
<1> QED BY <1>2 DEF EndsUpTo

----------------------------------------------------------------------------
\* No pattern begins another, longer one.
PrefixFree(ts) ==
  \A t, u \in TilesOf(ts) :
    /\ Len(t.pattern) <= Len(u.pattern)
    /\ \A n \in 1..Len(t.pattern) : t.pattern[n] = u.pattern[n]
    => Len(t.pattern) = Len(u.pattern)

\* Then all tiles that match at one place have one length.
LEMMA OneLength ==
  ASSUME TypeOK, PrefixFree(tiles), NEW at \in Nat,
         NEW t \in TilesOf(tiles), NEW u \in TilesOf(tiles),
         Matches(t, spine, at), Matches(u, spine, at)
  PROVE  Len(t.pattern) = Len(u.pattern)
<1>1. Len(t.pattern) \in Nat /\ Len(u.pattern) \in Nat
  BY TilesTyped DEF Tiles
<1>2. /\ \A n \in 1..Len(t.pattern) : spine[at + n].name = t.pattern[n]
      /\ \A n \in 1..Len(u.pattern) : spine[at + n].name = u.pattern[n]
  BY DEF Matches
<1>3. CASE Len(t.pattern) <= Len(u.pattern)
  <2>1. \A n \in 1..Len(t.pattern) : n \in 1..Len(u.pattern)
    BY <1>1, <1>3
  <2>2. \A n \in 1..Len(t.pattern) : t.pattern[n] = u.pattern[n]
    BY <1>2, <2>1, Zenon
  <2> QED BY <1>3, <2>2, Zenon DEF PrefixFree
<1>4. CASE Len(u.pattern) <= Len(t.pattern)
  <2>1. \A n \in 1..Len(u.pattern) : n \in 1..Len(t.pattern)
    BY <1>1, <1>4
  <2>2. \A n \in 1..Len(u.pattern) : u.pattern[n] = t.pattern[n]
    BY <1>2, <2>1, Zenon
  <2>3. Len(u.pattern) = Len(t.pattern)
    BY <1>4, <2>2, Zenon DEF PrefixFree
  <2> QED BY <2>3
<1> QED BY <1>1, <1>3, <1>4

\* Where nothing matches, a segmentation can only end.
LEMMA EndsWhereNothingMatches ==
  ASSUME TypeOK, Accepted(tiles), NEW at \in 0..Len(spine),
         \A t \in TilesOf(tiles) : ~Matches(t, spine, at)
  PROVE  EndsFrom[at] = {at}
<1>1. {u \in TilesOf(tiles) : Matches(u, spine, at)} = {}
  OBVIOUS
<1>2. EndsFrom[at] = EndsOver(EndsFrom, at)
  BY EndsDefined
<1> QED BY <1>1, <1>2 DEF EndsOver

\* Where a tile matches, it can end or go on after that tile.
LEMMA EndsWhereOneMatches ==
  ASSUME TypeOK, Accepted(tiles), PrefixFree(tiles), NEW at \in 0..Len(spine),
         NEW t \in TilesOf(tiles), Matches(t, spine, at)
  PROVE  EndsFrom[at] = {at} \cup EndsFrom[at + Len(t.pattern)]
<1> DEFINE M == {u \in TilesOf(tiles) : Matches(u, spine, at)}
<1>1. EndsFrom[at] = EndsOver(EndsFrom, at)
  BY EndsDefined
<1>2. at \in Nat
  BY TilesTyped
<1>3. \A u \in M : Len(u.pattern) = Len(t.pattern)
  BY <1>2, OneLength
<1>4. t \in M
  OBVIOUS
<1> HIDE DEF M
<1>5. {EndsFrom[at + Len(u.pattern)] : u \in M} = {EndsFrom[at + Len(t.pattern)]}
  BY <1>3, <1>4, Zenon
<1> QED BY <1>1, <1>5 DEF EndsOver, M

\* The loop ends only where nothing matches.
LEMMA NothingMatches ==
  ASSUME CoverInv, LoopEnds, NEW t \in TilesOf(tiles)
  PROVE  ~Matches(t, spine, i)
<1> SUFFICES ASSUME Matches(t, spine, i) PROVE FALSE
  OBVIOUS
<1>1. TypeOK /\ Accepted(tiles) /\ i \in 0..Len(spine)
  BY DEF CoverInv, TypeOK, Loaded, LoopEnds
<1>2. Len(t.pattern) \in Nat \ {0} /\ Len(spine) \in Nat /\ Len(tiles) \in Nat
  BY <1>1, PatternNotEmpty, TilesTyped
<1>3. i < Len(spine)
  BY <1>1, <1>2 DEF Matches
<1>4. phase = "match" /\ k > Len(tiles) /\ cands = << >>
  BY <1>1, <1>2, <1>3 DEF LoopEnds
<1>5. PICK j \in 1..Len(tiles) : t = tiles[j]
  BY DEF TilesOf
<1>6. j \in 1..(k - 1)
  BY <1>2, <1>4 DEF CoverInv, MatchSoFar
<1>7. \E l \in 1..Len(cands) : cands[l] = tiles[j]
  BY <1>4, <1>5, <1>6 DEF CoverInv, MatchSoFar
<1> QED BY <1>4, <1>7

\* Every end of a segmentation lies behind Cover, or can still be reached.
NotPassed == \A e \in EndsFrom[0] : e \in 0..i \/ e \in EndsFrom[i]

GreedyInv == CoverInv /\ NotPassed /\ GreedyOptimal

\* Each step keeps it: LowerTile moves i to where all of them go on.
LEMMA GreedyStep ==
  ASSUME \A r \in Registries : PrefixFree(r), GreedyInv, [Next]_vars
  PROVE  GreedyInv'
<1>1. CoverInv /\ NotPassed /\ GreedyOptimal
  BY DEF GreedyInv
<1>2. CoverInv'
  BY <1>1, CoverInvNext
<1>3. TypeOK /\ PrefixFree(tiles) /\ i \in 0..Len(spine) /\ Len(spine) \in Nat
  BY <1>1, TilesTyped DEF CoverInv, TypeOK
<1>4. tiles' = tiles /\ spine' = spine
  BY DEF Next, NewRegistry, LoopHead, MatchTile, Matched, BestStep, LowerTile,
         LowerFails, LoopEnds, Terminated, vars
<1>5. EndsFrom' = EndsFrom
  BY <1>4 DEF EndsFrom
<1>6. CASE LowerTile
  <2> USE DEF LowerTile
  <2>1. Accepted(tiles) /\ pick \in TilesOf(tiles) /\ Matches(pick, spine, i)
    BY <1>1, <1>6 DEF CoverInv, Loaded, PickSoFar
  <2>2. i' = i + Len(pick.pattern) /\ phase' = "head"
    BY <1>6
  <2>3. EndsFrom[i] = {i} \cup EndsFrom[i']
    BY <1>3, <2>1, <2>2, EndsWhereOneMatches
  <2>4. i <= i' /\ i' \in Nat
    BY <1>3, <2>1, <2>2, TilesTyped DEF Tiles
  <2>5. NotPassed'
    <3> SUFFICES ASSUME NEW e \in EndsFrom[0] PROVE e \in 0..i' \/ e \in EndsFrom[i']
      BY <1>5 DEF NotPassed
    <3>1. e \in 0..i \/ e = i \/ e \in EndsFrom[i']
      BY <1>1, <2>3 DEF NotPassed
    <3> QED BY <1>3, <2>4, <3>1
  <2> QED BY <1>2, <2>2, <2>5 DEF GreedyInv, GreedyOptimal
<1>7. CASE LoopEnds
  <2>1. Accepted(tiles) /\ UNCHANGED i
    BY <1>1, <1>7 DEF LoopEnds, CoverInv, Loaded
  <2>2. \A t \in TilesOf(tiles) : ~Matches(t, spine, i)
    BY <1>1, <1>7, NothingMatches
  <2>3. EndsFrom[i] = {i}
    BY <1>3, <2>1, <2>2, EndsWhereNothingMatches
  <2>4. NotPassed' 
    BY <1>1, <1>5, <2>1 DEF NotPassed
  <2>5. \A e \in EndsFrom[0] : e <= i
    <3> TAKE e \in EndsFrom[0]
    <3>1. e \in 0..i \/ e = i
      BY <1>1, <2>3 DEF NotPassed
    <3> QED BY <1>3, <3>1
  <2>6. GreedyOptimal'
    BY <1>5, <2>1, <2>5 DEF GreedyOptimal
  <2> QED BY <1>2, <2>4, <2>6 DEF GreedyInv
<1>8. CASE UNCHANGED i /\ (phase' = "done" => phase = "done")
  BY <1>1, <1>2, <1>5, <1>8 DEF GreedyInv, NotPassed, GreedyOptimal
<1> QED BY <1>6, <1>7, <1>8 DEF Next, NewRegistry, LoopHead, MatchTile, Matched,
           BestStep, LowerFails, Terminated, vars

\* tile.go:5-7 "greedy longest-match is optimal", for every set of tiles in which
\* no pattern begins another: no choice of tiles covers more layers than Cover.
THEOREM GreedyIsOptimal ==
  ASSUME \A r \in Registries : PrefixFree(r)
  PROVE  Spec => []GreedyOptimal
<1>1. Init => GreedyInv
  BY CoverInvInit DEF GreedyInv, Init, NotPassed, GreedyOptimal
<1>2. GreedyInv /\ [Next]_vars => GreedyInv'
  BY GreedyStep
<1>3. GreedyInv => GreedyOptimal
  BY DEF GreedyInv
<1> QED BY <1>1, <1>2, <1>3, PTL DEF Spec

\* The iproute2 tiles are such a set: Cover tiles every spine as far as any
\* choice of them could.
THEOREM GreedyIsOptimalForLinux ==
  ASSUME Registries = {Registry}
  PROVE  Spec => []GreedyOptimal
<1>1. PrefixFree(Registry)
  <2>1. TilesOf(Registry) = {IPIP, GRE, GRETAP, VXLAN, VLAN, WireGuard}
    BY DEF TilesOf, Registry
  <2>2. \A t \in TilesOf(Registry) :
          LET p == t.pattern
          IN \/ Len(p) = 2 /\ p[1] = "ipv4" /\ p[2] = "ipv4"
             \/ Len(p) = 2 /\ p[1] = "ethernet" /\ p[2] = "vlan"
             \/ Len(p) = 3 /\ p[1] = "ipv4" /\ p[2] = "gre"
             \/ Len(p) = 4 /\ p[1] = "ipv4" /\ p[2] = "udp"
    BY <2>1 DEF IPIP, GRE, GRETAP, VXLAN, VLAN, WireGuard, LinuxTile
  <2> SUFFICES ASSUME NEW t \in TilesOf(Registry), NEW u \in TilesOf(Registry),
                      \A n \in 1..Len(t.pattern) : t.pattern[n] = u.pattern[n]
               PROVE  Len(t.pattern) = Len(u.pattern)
    BY DEF PrefixFree
  <2>3. 1 \in 1..Len(t.pattern) /\ 2 \in 1..Len(t.pattern)
    BY <2>2
  <2>4. t.pattern[1] = u.pattern[1] /\ t.pattern[2] = u.pattern[2]
    BY <2>3
  <2> QED BY <2>2, <2>4
<1> QED BY <1>1, GreedyIsOptimal

============================================================================
