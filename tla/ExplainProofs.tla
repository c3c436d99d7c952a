--------------------------- MODULE ExplainProofs ---------------------------
(* Proofs about Registry.Explain: what its lines say is so, and it tells    *)
(* the decisions Cover takes, for every registry and every spine.           *)
EXTENDS Explained, CoverProofs, FiniteSetTheorems

----------------------------------------------------------------------------
\* bid.

\* The layer bid names is the first that differs.
LEMMA BidNamesFirst ==
  ASSUME NEW t \in Tiles, NEW sp, NEW at \in Nat,
         bid(t, sp, at).reason = "differs"
  PROVE  LET n == bid(t, sp, at).layer
         IN /\ n \in Nat /\ n >= at
            /\ sp[n + 1].name # t.pattern[n - at + 1]
            /\ \A l \in at..(n - 1) : sp[l + 1].name = t.pattern[l - at + 1]
<1> DEFINE wrong == {m \in 1..Len(t.pattern) : sp[at + m].name # t.pattern[m]}
           m == Min(wrong)
<1>1. Len(t.pattern) \in Nat
  BY DEF Tiles
<1>2. wrong # {} /\ bid(t, sp, at).layer = at + m - 1
  BY DEF bid, Match
<1>3. m \in wrong /\ \A y \in wrong : m <= y
  <2>1. wrong \subseteq Nat
    BY <1>1
  <2>2. \E x \in wrong : \A y \in wrong : x <= y
    BY <1>2, <2>1, LeastNumber
  <2> HIDE DEF wrong
  <2> QED BY <2>2, Zenon DEF Min
<1>4. m \in 1..Len(t.pattern) /\ sp[at + m].name # t.pattern[m]
  BY <1>3
<1>5. \A l \in 1..Len(t.pattern) : l < m => sp[at + l].name = t.pattern[l]
  <2> TAKE l \in 1..Len(t.pattern)
  <2> HAVE l < m
  <2>1. ~(m <= l)
    BY <1>1, <1>4
  <2>2. l \notin wrong
    BY <1>3, <2>1
  <2> QED BY <2>2
<1> HIDE DEF m, wrong
<1>6. /\ at + m - 1 \in Nat /\ at + m - 1 >= at
      /\ (at + m - 1) + 1 = at + m /\ (at + m - 1) - at + 1 = m
  BY <1>1, <1>4
<1>7. \A l \in at..((at + m - 1) - 1) :
        /\ l - at + 1 \in 1..Len(t.pattern) /\ l - at + 1 < m
        /\ at + (l - at + 1) = l + 1
  BY <1>1, <1>4
<1>8. \A l \in at..((at + m - 1) - 1) : sp[l + 1].name = t.pattern[l - at + 1]
  <2> TAKE l \in at..((at + m - 1) - 1)
  <2>1. sp[at + (l - at + 1)].name = t.pattern[l - at + 1]
    BY <1>5, <1>7
  <2> QED BY <1>7, <2>1
<1> QED BY <1>2, <1>4, <1>6, <1>8

\* bid has a match where matchAt has one, and a reason elsewhere.
LEMMA BidIsMatch ==
  ASSUME NEW t \in Tiles, NEW sp, Len(sp) \in Nat, NEW at \in Nat
  PROVE  bid(t, sp, at) = Match <=> Matches(t, sp, at)
<1> DEFINE wrong == {m \in 1..Len(t.pattern) : sp[at + m].name # t.pattern[m]}
<1>1. Len(t.pattern) \in Nat
  BY DEF Tiles
<1>2. wrong = {} <=> \A m \in 1..Len(t.pattern) : sp[at + m].name = t.pattern[m]
  OBVIOUS
<1>3. \A w, l : w # "" => [reason |-> w, layer |-> l] # Match
  BY DEF Match
<1>4. bid(t, sp, at) = Match <=> 
        /\ ~(at + Len(t.pattern) > Len(sp))
        /\ wrong = {}
        /\ Admits(t, Slice(sp, at, at + Len(t.pattern)))
  BY <1>3 DEF bid
<1>5. ~(at + Len(t.pattern) > Len(sp)) <=> at + Len(t.pattern) <= Len(sp)
  BY <1>1
<1> QED BY <1>2, <1>4, <1>5 DEF Matches

----------------------------------------------------------------------------
\* One step.

\* A registry is finite.
LEMMA TilesFinite ==
  ASSUME NEW r \in Seq(Tiles)
  PROVE  IsFiniteSet(TilesOf(r)) /\ TilesOf(r) \subseteq Tiles
<1>1. r \in [1..Len(r) -> TilesOf(r)] /\ Len(r) \in Nat
  BY DEF TilesOf
<1>2. \A t \in TilesOf(r) : \E j \in 1..Len(r) : r[j] = t
  BY DEF TilesOf
<1>3. r \in Surjection(1..Len(r), TilesOf(r))
  BY <1>1, <1>2 DEF Surjection
<1>4. IsFiniteSet(1..Len(r))
  BY <1>1, FS_Interval
<1>5. IsFiniteSet(TilesOf(r))
  BY <1>3, <1>4, FS_Surjection
<1>6. TilesOf(r) \subseteq Tiles
  BY DEF TilesOf
<1> QED BY <1>5, <1>6

\* Explain's winners are what matchAt returns.
LEMMA StepReads ==
  ASSUME NEW r \in Seq(Tiles), NEW sp, Len(sp) \in Nat, NEW at \in Nat
  PROVE  LET S == matchAt(r, sp, at)
             s == StepAt(r, sp, at)
         IN /\ s.at = at
            /\ s.attempts = [j \in 1..Len(r) |-> bid(r[j], sp, at)]
            /\ S = {} => s.chosen = {} /\ s.because = [word |-> "", among |-> 0]
            /\ S # {} => s.chosen = {best(S)} /\ s.because = why(S)
<1> DEFINE W == {t \in TilesOf(r) : bid(t, sp, at) = Match}
<1>1. W = matchAt(r, sp, at)
  BY TilesFinite, BidIsMatch DEF matchAt
<1> DEFINE s == StepAt(r, sp, at)
           a == [j \in 1..Len(r) |-> bid(r[j], sp, at)]
           c == IF W = {} THEN {} ELSE {best(W)}
           b == IF W = {} THEN [word |-> "", among |-> 0] ELSE why(W)
<1>2. s = [at |-> at, attempts |-> a, chosen |-> c, because |-> b]
  BY Zenon DEF StepAt
<1> HIDE DEF W, a, b, c, s
<1>3. s.at = at /\ s.attempts = a /\ s.chosen = c /\ s.because = b
  BY <1>2
<1> QED BY <1>1, <1>3, Zenon DEF s, a, b, c

\* Where tiles match, the words for the choice are true of all of them.
LEMMA WhyHolds ==
  ASSUME NEW r \in Seq(Tiles), Accepted(r), NEW sp, NEW at \in Nat,
         matchAt(r, sp, at) # {}
  PROVE  LET S == matchAt(r, sp, at)
             t == best(S)
             w == why(S)
         IN /\ w.word = "only" => S = {t}
            /\ w.word = "longest" => \A u \in S \ {t} : Len(t.pattern) > Len(u.pattern)
            /\ w.word = "priority" =>
                 \A u \in S \ {t} : Len(u.pattern) = Len(t.pattern) => t.priority < u.priority
            /\ w.word \in {"only", "longest", "priority"}
            /\ w.word = "priority" =>
                 w.among = Cardinality({u \in S : u.pattern = t.pattern})
            /\ w.word = "longest" => w.among = Cardinality(S) - 1
<1> DEFINE S == matchAt(r, sp, at)
           t == best(S)
           L == Longest(S)
           tied == Cardinality(L)
<1>1. t \in S /\ \A u \in S \ {t} : Contract!Beats(t, u)
  BY BestBeats
<1>2. IsFiniteSet(S) /\ S \subseteq Tiles /\ \A u \in S : Matches(u, sp, at)
  BY TilesFinite, FS_Subset DEF matchAt
<1> HIDE DEF S, t
<1>3. \A u \in S : Len(u.pattern) \in Nat /\ u.priority \in Int
  BY <1>2 DEF Tiles
<1>4. \A u \in S : Len(u.pattern) = Len(t.pattern) => u.pattern = t.pattern
  BY <1>1, <1>2, SameLengthSamePattern
<1>5. \A u \in S \ {t} :
        \/ Len(t.pattern) > Len(u.pattern)
        \/ u.pattern = t.pattern /\ t.priority < u.priority
  BY <1>1 DEF Contract!Beats
<1>6. \A u \in S : Len(u.pattern) <= Len(t.pattern)
  <2> TAKE u \in S
  <2>1. CASE u = t
    BY <1>3, <2>1
  <2>2. CASE u # t
    <3>1. Len(t.pattern) > Len(u.pattern) \/ u.pattern = t.pattern
      BY <1>5, <2>2
    <3> QED BY <1>1, <1>3, <3>1
  <2> QED BY <2>1, <2>2
<1>7. L = {u \in S : u.pattern = t.pattern}
  <2>1. \A u \in L : u \in S /\ Len(u.pattern) = Len(t.pattern)
    BY <1>1, <1>3, <1>6 DEF Longest
  <2>2. \A u \in S : u.pattern = t.pattern => u \in L
    BY <1>6 DEF Longest
  <2>3. L \subseteq S
    BY DEF Longest
  <2> HIDE DEF L
  <2> QED BY <1>4, <2>1, <2>2, <2>3
<1>8. why(S) = IF Cardinality(S) = 1 THEN [word |-> "only", among |-> 1]
               ELSE IF tied > 1 THEN [word |-> "priority", among |-> tied]
               ELSE [word |-> "longest", among |-> Cardinality(S) - 1]
  BY DEF why
<1>9. tied \in Nat /\ t \in L /\ IsFiniteSet(L)
  BY <1>1, <1>2, <1>7, FS_Subset, FS_CardinalityType
<1> HIDE DEF L, tied
<1>10. CASE Cardinality(S) = 1
  <2>1. S = {t}
    BY <1>1, <1>2, <1>10, FS_Singleton
  <2>2. why(S).word = "only"
    BY <1>8, <1>10
  <2> QED BY <2>1, <2>2 DEF S, t
<1>11. CASE Cardinality(S) # 1 /\ tied > 1
  <2>1. why(S).word = "priority" /\ why(S).among = tied
    BY <1>8, <1>11
  <2>2. \A u \in S \ {t} : Len(u.pattern) = Len(t.pattern) => t.priority < u.priority
    <3> TAKE u \in S \ {t}
    <3> HAVE Len(u.pattern) = Len(t.pattern)
    <3> QED BY <1>1, <1>3, <1>5
  <2> QED BY <1>7, <2>1, <2>2 DEF S, t, tied
<1>12. CASE Cardinality(S) # 1 /\ ~(tied > 1)
  <2>1. why(S).word = "longest" /\ why(S).among = Cardinality(S) - 1
    BY <1>8, <1>12
  <2>2. tied = 1
    <3>1. tied # 0
      BY <1>9, FS_EmptySet DEF tied
    <3> QED BY <1>9, <1>12, <3>1
  <2>3. L = {t}
    BY <1>9, <2>2, FS_Singleton DEF tied
  <2>4. \A u \in S \ {t} : Len(t.pattern) > Len(u.pattern)
    BY <1>5, <1>7, <2>3
  <2> QED BY <2>1, <2>4 DEF S, t
<1> QED BY <1>10, <1>11, <1>12

----------------------------------------------------------------------------
\* The walk.

Step(at) == StepAt(tiles, spine, at)

\* A step that chooses a tile goes on further in, and not past the end.
LEMMA StepGoesOn ==
  ASSUME TypeOK, Accepted(tiles), NEW at \in 0..Len(spine), Step(at).chosen # {}
  PROVE  LET t == best(matchAt(tiles, spine, at))
         IN /\ Step(at).chosen = {t}
            /\ Width(Step(at)) = Len(t.pattern)
            /\ at + Width(Step(at)) \in (at + 1)..Len(spine)
<1> DEFINE S == matchAt(tiles, spine, at)
           t == best(S)
<1>1. tiles \in Seq(Tiles) /\ Len(spine) \in Nat /\ at \in Nat
  BY TilesTyped
<1>2. S # {} /\ Step(at).chosen = {t}
  BY <1>1, StepReads DEF Step
<1>3. t \in S
  BY <1>1, <1>2, BestBeats
<1>4. t \in TilesOf(tiles) /\ Matches(t, spine, at)
  BY <1>3 DEF matchAt
<1> HIDE DEF S, t
<1>5. (CHOOSE u \in {t} : TRUE) = t
  OBVIOUS
<1>6. Width(Step(at)) = Len(t.pattern)
  BY <1>2, <1>5 DEF Width
<1>7. Len(t.pattern) \in Nat \ {0}
  BY <1>4, PatternNotEmpty
<1>8. at + Len(t.pattern) <= Len(spine)
  BY <1>4 DEF Matches
<1>9. at + Width(Step(at)) \in (at + 1)..Len(spine)
  BY <1>1, <1>6, <1>7, <1>8
<1> QED BY <1>2, <1>6, <1>9 DEF S, t

\* The walk from a position, from the walks of the positions further on.
WalkOver(g, at) ==
  IF at = Len(spine) THEN [steps |-> << >>, i |-> at]
  ELSE IF Step(at).chosen = {} THEN [steps |-> <<Step(at)>>, i |-> at]
  ELSE [steps |-> <<Step(at)>> \o g[at + Width(Step(at))].steps,
        i     |-> g[at + Width(Step(at))].i]

\* It looks only at positions further on, and within the spine.
LEMMA WalkLooksAhead ==
  ASSUME TypeOK, Accepted(tiles), NEW at \in 0..Len(spine), NEW g, NEW h,
         \A l \in (at + 1)..Len(spine) : g[l] = h[l]
  PROVE  WalkOver(g, at) = WalkOver(h, at)
<1>1. Step(at).chosen # {} => at + Width(Step(at)) \in (at + 1)..Len(spine)
  BY StepGoesOn
<1>2. Step(at).chosen # {} => g[at + Width(Step(at))] = h[at + Width(Step(at))]
  BY <1>1
<1> QED BY <1>2 DEF WalkOver

\* A function that is the walk from a position on.
WalksFrom(g, from) == g = [at \in from..Len(spine) |-> WalkOver(g, at)]

\* From the last position backwards there is always one.
LEMMA WalkExists ==
  ASSUME TypeOK, Accepted(tiles)
  PROVE  \E g : WalksFrom(g, 0)
<1> PICK n \in Nat : n = Len(spine)
  BY TilesTyped
<1> DEFINE T == {m \in 0..(n + 1) : ~ \E g : WalksFrom(g, (n + 1) - m)}
<1>1. T = {}
  <2> SUFFICES ASSUME T # {} PROVE FALSE
    OBVIOUS
  <2>1. PICK m \in T : \A l \in T : m <= l
    <3>1. T \subseteq Nat
      OBVIOUS
    <3> HIDE DEF T
    <3> QED BY <3>1, LeastNumber
  <2>2. m \in 0..(n + 1) /\ ~ \E g : WalksFrom(g, (n + 1) - m)
    OBVIOUS
  <2>3. m # 0
    <3>1. (n + 1)..Len(spine) = {}
      OBVIOUS
    <3>2. WalksFrom([at \in {} |-> {}], n + 1)
      BY <3>1 DEF WalksFrom
    <3> QED BY <2>2, <3>2
  <2>4. m - 1 \in 0..(n + 1) /\ m - 1 \notin T
    BY <2>1, <2>2, <2>3
  <2> DEFINE from == (n + 1) - m
  <2>5. from \in 0..n /\ (n + 1) - (m - 1) = from + 1
    BY <2>2, <2>3
  <2>6. PICK h : WalksFrom(h, from + 1)
    BY <2>4, <2>5
  <2> HIDE DEF T, from
  <2> DEFINE g == [at \in from..n |-> IF at = from THEN WalkOver(h, at) ELSE h[at]]
  <2>7. \A at \in (from + 1)..n : g[at] = h[at]
    BY <2>5
  <2>8. \A at \in (from + 1)..n : h[at] = WalkOver(h, at)
    BY <2>6 DEF WalksFrom
  <2>9. \A at \in from..n : g[at] = WalkOver(h, at)
    <3> TAKE at \in from..n
    <3>1. CASE at = from
      BY <3>1
    <3>2. CASE at # from
      <4>1. at \in (from + 1)..n
        BY <2>5, <3>2
      <4> QED BY <2>7, <2>8, <4>1, Zenon
    <3> QED BY <3>1, <3>2
  <2> HIDE DEF g
  <2>10. \A at \in from..n : WalkOver(h, at) = WalkOver(g, at)
    <3> TAKE at \in from..n
    <3>1. at \in 0..Len(spine) /\ \A l \in (at + 1)..Len(spine) : l \in (from + 1)..n
      BY <2>5
    <3>2. \A l \in (at + 1)..Len(spine) : g[l] = h[l]
      BY <2>7, <3>1, Zenon
    <3> QED BY <3>1, <3>2, WalkLooksAhead
  <2>11. g = [at \in from..n |-> g[at]]
    BY DEF g
  <2>12. g = [at \in from..n |-> WalkOver(g, at)]
    BY <2>9, <2>10, <2>11, Zenon
  <2>13. WalksFrom(g, from)
    BY <2>12 DEF WalksFrom
  <2> QED BY <2>2, <2>13 DEF from
<1>2. n + 1 \in 0..(n + 1) /\ (n + 1) - (n + 1) = 0
  OBVIOUS
<1> QED BY <1>1, <1>2

\* So Explain's recursive walk is defined.
LEMMA WalkDefined ==
  ASSUME TypeOK, Accepted(tiles)
  PROVE  LET w == Walk(tiles, spine)
         IN \A at \in 0..Len(spine) : w[at] = WalkOver(w, at)
<1>1. Walk(tiles, spine) = CHOOSE g : WalksFrom(g, 0)
  BY Zenon DEF Walk, WalksFrom, WalkOver, Step
<1>2. WalksFrom(Walk(tiles, spine), 0)
  BY <1>1, WalkExists
<1> QED BY <1>2 DEF WalksFrom

\* The walk, case by case.
LEMMA WalkAt ==
  ASSUME TypeOK, Accepted(tiles), NEW at \in 0..Len(spine)
  PROVE  LET w == Walk(tiles, spine)
             n == at + Width(Step(at))
         IN /\ at = Len(spine) => w[at].steps = << >> /\ w[at].i = at
            /\ at # Len(spine) /\ Step(at).chosen = {} =>
                 w[at].steps = <<Step(at)>> /\ w[at].i = at
            /\ at # Len(spine) /\ Step(at).chosen # {} =>
                 w[at].steps = <<Step(at)>> \o w[n].steps /\ w[at].i = w[n].i
<1> DEFINE w == Walk(tiles, spine)
           n == at + Width(Step(at))
<1>1. w[at] = WalkOver(w, at)
  BY WalkDefined
<1> HIDE DEF w, n
<1>2. CASE at = Len(spine)
  BY <1>1, <1>2 DEF WalkOver, w
<1>3. CASE at # Len(spine) /\ Step(at).chosen = {}
  BY <1>1, <1>3 DEF WalkOver, w
<1>4. CASE at # Len(spine) /\ Step(at).chosen # {}
  <2>1. w[at] = [steps |-> <<Step(at)>> \o w[n].steps, i |-> w[n].i]
    BY <1>1, <1>4 DEF WalkOver, n
  <2>2. w[at].steps = <<Step(at)>> \o w[n].steps /\ w[at].i = w[n].i
    BY <2>1
  <2> QED BY <1>4, <2>2 DEF w, n
<1> QED BY <1>2, <1>3, <1>4

\* All it records are steps at positions of the spine.
LEMMA WalkSteps ==
  ASSUME TypeOK, Accepted(tiles)
  PROVE  \A at \in 0..Len(spine) :
           Walk(tiles, spine)[at].steps \in Seq({Step(l) : l \in 0..Len(spine)})
<1> PICK n \in Nat : n = Len(spine)
  BY TilesTyped
<1> DEFINE w == Walk(tiles, spine)
           A == {Step(l) : l \in 0..Len(spine)}
           T == {m \in 0..n : w[n - m].steps \notin Seq(A)}
<1>1. T = {}
  <2> SUFFICES ASSUME T # {} PROVE FALSE
    OBVIOUS
  <2>1. PICK m \in T : \A l \in T : m <= l
    <3>1. T \subseteq Nat
      OBVIOUS
    <3> HIDE DEF T
    <3> QED BY <3>1, LeastNumber
  <2> DEFINE at == n - m
             next == at + Width(Step(at))
  <2>2. m \in 0..n /\ w[at].steps \notin Seq(A) /\ at \in 0..Len(spine)
    OBVIOUS
  <2>3. Step(at) \in A
    BY <2>2
  <2>4. Step(at).chosen # {} => w[next].steps \in Seq(A)
    <3> SUFFICES ASSUME Step(at).chosen # {} PROVE w[next].steps \in Seq(A)
      OBVIOUS
    <3>1. next \in (at + 1)..n
      BY <2>2, StepGoesOn
    <3> HIDE DEF next
    <3>2. n - next \in 0..n /\ ~(m <= n - next) /\ n - (n - next) = next
      BY <2>2, <3>1
    <3>3. n - next \notin T
      BY <2>1, <3>2
    <3> QED BY <3>2, <3>3
  <2>5. /\ at = Len(spine) => w[at].steps = << >>
        /\ at # Len(spine) /\ Step(at).chosen = {} => w[at].steps = <<Step(at)>>
        /\ at # Len(spine) /\ Step(at).chosen # {} =>
             w[at].steps = <<Step(at)>> \o w[next].steps
    BY <2>2, WalkAt
  <2> HIDE DEF at, next, w, A, T
  <2>6. << >> \in Seq(A) /\ <<Step(at)>> \in Seq(A)
    BY <2>3
  <2>7. Step(at).chosen # {} => <<Step(at)>> \o w[next].steps \in Seq(A)
    BY <2>4, <2>6
  <2> QED BY <2>2, <2>5, <2>6, <2>7
<1>2. \A at \in 0..Len(spine) : n - at \in 0..n /\ n - (n - at) = at
  OBVIOUS
<1> HIDE DEF w, A
<1>3. \A at \in 0..Len(spine) : w[at].steps \in Seq(A)
  BY <1>1, <1>2
<1> QED BY <1>3 DEF w, A

\* What ReasonsHold says of one step: of the bids,
BidsAreTrue(s) ==
  \A j \in 1..Len(tiles) :
    LET t == tiles[j]
        a == s.attempts[j]
    IN /\ a = Match <=> t \in matchAt(tiles, spine, s.at)
       /\ a.reason = "differs" =>
            /\ spine[a.layer + 1].name # t.pattern[a.layer - s.at + 1]
            /\ \A l \in s.at..(a.layer - 1) :
                 spine[l + 1].name = t.pattern[l - s.at + 1]

\* and of the choice.
ChoiceIsTrue(s) ==
  LET matching == matchAt(tiles, spine, s.at)
  IN /\ \A t \in s.chosen : \A u \in matching \ {t} :
          CASE s.because.word = "only"     -> FALSE
            [] s.because.word = "longest"  -> Len(t.pattern) > Len(u.pattern)
            [] s.because.word = "priority" ->
                 Len(u.pattern) = Len(t.pattern) => t.priority < u.priority
     /\ s.because.word = "priority" =>
          s.because.among = Cardinality({u \in matching : \A t \in s.chosen :
                                           u.pattern = t.pattern})
     /\ s.because.word = "longest" => s.because.among = Cardinality(matching) - 1

\* Every step Explain can record is true.
LEMMA StepsAreTrue ==
  ASSUME TypeOK, Accepted(tiles), NEW at \in 0..Len(spine)
  PROVE  BidsAreTrue(Step(at)) /\ ChoiceIsTrue(Step(at))
<1> DEFINE s == Step(at)
           S == matchAt(tiles, spine, at)
           t == best(S)
<1>1. tiles \in Seq(Tiles) /\ Len(spine) \in Nat /\ at \in Nat
  BY TilesTyped
<1>2. /\ s.at = at
      /\ s.attempts = [j \in 1..Len(tiles) |-> bid(tiles[j], spine, at)]
      /\ S = {} => s.chosen = {} /\ s.because = [word |-> "", among |-> 0]
      /\ S # {} => s.chosen = {t} /\ s.because = why(S)
  BY <1>1, StepReads DEF Step
<1>3. BidsAreTrue(s)
  <2> SUFFICES ASSUME NEW j \in 1..Len(tiles)
               PROVE  LET a == s.attempts[j]
                      IN /\ a = Match <=> tiles[j] \in matchAt(tiles, spine, s.at)
                         /\ a.reason = "differs" =>
                              /\ spine[a.layer + 1].name # tiles[j].pattern[a.layer - s.at + 1]
                              /\ \A l \in s.at..(a.layer - 1) :
                                   spine[l + 1].name = tiles[j].pattern[l - s.at + 1]
    BY Zenon DEF BidsAreTrue
  <2>1. tiles[j] \in Tiles /\ tiles[j] \in TilesOf(tiles)
    BY <1>1 DEF TilesOf
  <2>2. s.attempts[j] = bid(tiles[j], spine, at)
    BY <1>2
  <2>3. bid(tiles[j], spine, at) = Match <=> tiles[j] \in S
    BY <1>1, <2>1, BidIsMatch DEF matchAt
  <2>4. s.at = at /\ S = matchAt(tiles, spine, s.at)
    BY <1>2
  <2> HIDE DEF s, S
  <2> QED BY <1>1, <2>1, <2>2, <2>3, <2>4, BidNamesFirst
<1>4. s.at = at
  BY <1>2
<1>5. ASSUME S = {} PROVE s.chosen = {} /\ s.because = [word |-> "", among |-> 0]
  BY <1>2, <1>5, Zenon
<1>6. ASSUME S # {} PROVE s.chosen = {t} /\ s.because = why(S)
  BY <1>2, <1>6, Zenon
<1> HIDE DEF s, S, t
<1>7. CASE S = {}
  <2> DEFINE none == [word |-> "", among |-> 0]
  <2>1. none.word = ""
    OBVIOUS
  <2>2. s.chosen = {} /\ s.because = none
    BY <1>5, <1>7, Zenon
  <2> HIDE DEF none
  <2>3. s.because.word = ""
    BY <2>1, <2>2
  <2>4. ChoiceIsTrue(s)
    BY <2>2, <2>3 DEF ChoiceIsTrue
  <2> QED BY <1>3, <2>4 DEF s
<1>8. CASE S # {}
  <2> DEFINE w == why(S)
  <2>1. /\ w.word = "only" => S = {t}
        /\ w.word = "longest" => \A u \in S \ {t} : Len(t.pattern) > Len(u.pattern)
        /\ w.word = "priority" =>
             \A u \in S \ {t} : Len(u.pattern) = Len(t.pattern) => t.priority < u.priority
        /\ w.word \in {"only", "longest", "priority"}
        /\ w.word = "priority" =>
             w.among = Cardinality({u \in S : u.pattern = t.pattern})
        /\ w.word = "longest" => w.among = Cardinality(S) - 1
    BY <1>1, <1>8, WhyHolds DEF S, t
  <2>2. s.chosen = {t} /\ s.because = w
    BY <1>6, <1>8
  <2> HIDE DEF w
  <2>3. \A u \in S \ {t} :
          CASE w.word = "only"     -> FALSE
            [] w.word = "longest"  -> Len(t.pattern) > Len(u.pattern)
            [] w.word = "priority" ->
                 Len(u.pattern) = Len(t.pattern) => t.priority < u.priority
    BY <2>1
  <2>4. {u \in S : \A x \in s.chosen : u.pattern = x.pattern} = {u \in S : u.pattern = t.pattern}
    BY <2>2
  <2>5. S = matchAt(tiles, spine, s.at)
    BY <1>4 DEF S
  <2>6. /\ \A x \in s.chosen : \A u \in S \ {x} :
             CASE s.because.word = "only"     -> FALSE
               [] s.because.word = "longest"  -> Len(x.pattern) > Len(u.pattern)
               [] s.because.word = "priority" ->
                    Len(u.pattern) = Len(x.pattern) => x.priority < u.priority
    <3> SUFFICES ASSUME NEW u \in S \ {t}
                 PROVE  CASE w.word = "only"     -> FALSE
                          [] w.word = "longest"  -> Len(t.pattern) > Len(u.pattern)
                          [] w.word = "priority" ->
                               Len(u.pattern) = Len(t.pattern) => t.priority < u.priority
      BY <2>2
    <3> QED BY <2>3
  <2>7. s.because.word = "priority" =>
          s.because.among = Cardinality({u \in S : \A x \in s.chosen : u.pattern = x.pattern})
    BY <2>1, <2>2, <2>4
  <2>8. s.because.word = "longest" => s.because.among = Cardinality(S) - 1
    BY <2>1, <2>2
  <2>9. ChoiceIsTrue(s)
    BY <2>5, <2>6, <2>7, <2>8, Zenon DEF ChoiceIsTrue
  <2> QED BY <1>3, <2>9 DEF s
<1> QED BY <1>7, <1>8

\* explain.go:43: what Explain's lines say is so, whatever the registry and the
\* spine; the layer it names is the one that stopped the tile.
THEOREM ExplanationsAreTrue == Spec => []ReasonsHold
<1>1. CoverInv => ReasonsHold
  <2> SUFFICES ASSUME CoverInv, phase \in {"done", "nolowering", "failed"},
                      NEW s \in ToSet(ExplainResult(tiles, spine).steps)
               PROVE  BidsAreTrue(s) /\ ChoiceIsTrue(s)
    BY Zenon DEF ReasonsHold, BidsAreTrue, ChoiceIsTrue
  <2>1. TypeOK /\ Accepted(tiles) /\ Len(spine) \in Nat
    BY TilesTyped DEF CoverInv, Loaded
  <2>2. ExplainResult(tiles, spine).steps = Walk(tiles, spine)[0].steps
    BY DEF ExplainResult
  <2>3. Walk(tiles, spine)[0].steps \in Seq({Step(l) : l \in 0..Len(spine)})
    BY <2>1, WalkSteps
  <2>4. PICK l \in 0..Len(spine) : s = Step(l)
    BY <2>2, <2>3 DEF ToSet
  <2> QED BY <2>1, <2>4, StepsAreTrue
<1> QED BY <1>1, CoverInvariant, PTL

----------------------------------------------------------------------------
\* Explain and Cover.

\* Nothing is placed before the registry is accepted.
Fresh == phase = "load" => i = 0 /\ placed = << >>

\* While Cover tiles, Explain's steps are those of the tiles placed, and then
\* those of the walk from where Cover stands.
Told ==
  LET w == Walk(tiles, spine)
  IN /\ Len(w[0].steps) = Len(placed) + Len(w[i].steps)
     /\ \A j \in 1..Len(placed) :
          w[0].steps[j].at = placed[j].at /\ w[0].steps[j].chosen = {placed[j].tile}
     /\ \A j \in 1..Len(w[i].steps) : w[0].steps[Len(placed) + j] = w[i].steps[j]
     /\ w[0].i = w[i].i

ExplainInv ==
  /\ CoverInv
  /\ Fresh
  /\ phase \in {"head", "match", "best"} => Told
  /\ ExplainAgreesWithCover

\* Is s the sequence q with x in front of it?
InFront(x, q, s) ==
  /\ Len(q) \in Nat /\ Len(s) = 1 + Len(q) /\ s[1] = x
  /\ \A j \in 1..Len(q) : s[1 + j] = q[j]

\* Explain's append, read from the other end.
LEMMA Prepended ==
  ASSUME NEW x, NEW A, NEW q \in Seq(A)
  PROVE  InFront(x, q, <<x>> \o q)
<1>1. q \in Seq(A \cup {x}) /\ <<x>> \in Seq(A \cup {x})
  OBVIOUS
<1> QED BY <1>1 DEF InFront

\* A tile is lowered: it is the one Explain chooses there, and its walk goes on
\* where Cover does.
LEMMA LowerTileTold ==
  ASSUME CoverInv, Told, LowerTile
  PROVE  Told'
<1> DEFINE w == Walk(tiles, spine)
           S == matchAt(tiles, spine, i)
<1>1. /\ TypeOK /\ Accepted(tiles) /\ i \in 0..Len(spine) /\ i \in Nat
      /\ Len(spine) \in Nat /\ tiles \in Seq(Tiles)
  BY TilesTyped DEF CoverInv, TypeOK, Loaded, LowerTile
<1>2. /\ UNCHANGED <<tiles, spine>> /\ i' = i + Len(pick.pattern)
      /\ placed' = Append(placed, [at |-> i, tile |-> pick])
  BY DEF LowerTile
<1>3. pick \in S /\ pick = best(S)
  <2>1. LoopsComputeBest
    BY BestIsPicked
  <2> QED BY <2>1 DEF LoopsComputeBest, LowerTile, CoverInv, PickSoFar, matchAt
<1>4. Step(i).at = i /\ Step(i).chosen = {pick}
  BY <1>1, <1>3, StepReads DEF Step
<1>5. i' = i + Width(Step(i)) /\ i' \in (i + 1)..Len(spine)
  BY <1>1, <1>2, <1>3, <1>4, StepGoesOn
<1>6. i # Len(spine)
  BY <1>1, <1>5
<1>7. w[i].steps = <<Step(i)>> \o w[i'].steps /\ w[i].i = w[i'].i
  BY <1>1, <1>4, <1>5, <1>6, WalkAt
<1>8. w[i'].steps \in Seq({Step(l) : l \in 0..Len(spine)})
  <2>1. i' \in 0..Len(spine)
    BY <1>1, <1>5
  <2> QED BY <1>1, <2>1, WalkSteps
<1>9. Len(placed) \in Nat /\ placed \in Seq([at : Nat, tile : TilesOf(tiles)])
  BY <1>1 DEF TypeOK
<1>10. w' = w
  BY <1>2
<1>11. /\ Len(w[0].steps) = Len(placed) + Len(w[i].steps)
       /\ \A j \in 1..Len(placed) :
            w[0].steps[j].at = placed[j].at /\ w[0].steps[j].chosen = {placed[j].tile}
       /\ \A j \in 1..Len(w[i].steps) : w[0].steps[Len(placed) + j] = w[i].steps[j]
       /\ w[0].i = w[i].i
  BY DEF Told
<1> DEFINE p == [at |-> i, tile |-> pick]
<1>12. p.at = i /\ p.tile = pick /\ p \in [at : Nat, tile : TilesOf(tiles)]
  BY <1>1, <1>3 DEF matchAt
<1> HIDE DEF w, S, p
<1>13. /\ Len(placed') = Len(placed) + 1 /\ placed'[Len(placed) + 1] = p
       /\ \A j \in 1..Len(placed) : placed'[j] = placed[j]
  BY <1>2, <1>9, <1>12 DEF p
<1>14. /\ Len(w[i'].steps) \in Nat /\ Len(w[i].steps) = 1 + Len(w[i'].steps)
       /\ w[i].steps[1] = Step(i)
       /\ \A j \in 1..Len(w[i'].steps) : w[i].steps[1 + j] = w[i'].steps[j]
  <2>1. InFront(Step(i), w[i'].steps, <<Step(i)>> \o w[i'].steps)
    BY <1>8, Prepended, Zenon
  <2>2. InFront(Step(i), w[i'].steps, w[i].steps)
    BY <1>7, <2>1
  <2> QED BY <2>2 DEF InFront
<1> DEFINE n == Len(placed)
           q == w[i'].steps
           v == w[0].steps
<1>15. n \in Nat /\ Len(q) \in Nat /\ Len(v) = n + (1 + Len(q))
  BY <1>9, <1>11, <1>14
<1>16. v[n + 1] = Step(i) /\ \A j \in 1..Len(q) : v[n + (1 + j)] = q[j]
  <2>1. 1 \in 1..Len(w[i].steps) /\ \A j \in 1..Len(q) : 1 + j \in 1..Len(w[i].steps)
    BY <1>14
  <2> QED BY <1>11, <1>14, <2>1
<1>17. \A j \in 1..n : v[j].at = placed'[j].at /\ v[j].chosen = {placed'[j].tile}
  BY <1>11, <1>13
<1>18. v[n + 1].at = placed'[n + 1].at /\ v[n + 1].chosen = {placed'[n + 1].tile}
  BY <1>4, <1>12, <1>13, <1>16
<1> HIDE DEF n, q, v
<1>19. Len(placed') = n + 1
  BY <1>13 DEF n
<1>20. Len(v) = Len(placed') + Len(q)
  BY <1>15, <1>19
<1>21. \A j \in 1..Len(placed') : v[j].at = placed'[j].at /\ v[j].chosen = {placed'[j].tile}
  <2> TAKE j \in 1..Len(placed')
  <2>1. j \in 1..n \/ j = n + 1
    BY <1>15, <1>19
  <2> QED BY <1>17, <1>18, <2>1, Zenon
<1>22. \A j \in 1..Len(q) : v[Len(placed') + j] = q[j]
  <2> TAKE j \in 1..Len(q)
  <2>1. Len(placed') + j = n + (1 + j)
    BY <1>15, <1>19
  <2> QED BY <1>16, <2>1
<1>23. w[0].i = w[i'].i
  BY <1>7, <1>11
<1> QED BY <1>10, <1>20, <1>21, <1>22, <1>23, Zenon DEF Told, w, q, v

\* A tile's Lower fails: it is the tile Explain shows at that place.
LEMMA LowerFailsTold ==
  ASSUME CoverInv, Told, LowerFails
  PROVE  ExplainAgreesWithCover'
<1> DEFINE w == Walk(tiles, spine)
           S == matchAt(tiles, spine, i)
           j == Len(placed) + 1
<1>1. /\ TypeOK /\ Accepted(tiles) /\ i \in 0..Len(spine) /\ i \in Nat
      /\ Len(spine) \in Nat /\ tiles \in Seq(Tiles)
  BY TilesTyped DEF CoverInv, TypeOK, Loaded, LowerFails
<1>2. UNCHANGED <<tiles, spine, i, pick>> /\ phase' = "failed"
  BY DEF LowerFails
<1>3. pick \in S /\ pick = best(S)
  <2>1. LoopsComputeBest
    BY BestIsPicked
  <2> QED BY <2>1 DEF LoopsComputeBest, LowerFails, CoverInv, PickSoFar, matchAt
<1>4. Step(i).at = i /\ Step(i).chosen = {pick}
  BY <1>1, <1>3, StepReads DEF Step
<1>5. i + Width(Step(i)) \in (i + 1)..Len(spine) /\ i # Len(spine)
  BY <1>1, <1>4, StepGoesOn
<1>6. w[i].steps = <<Step(i)>> \o w[i + Width(Step(i))].steps
  BY <1>1, <1>4, <1>5, WalkAt
<1>7. w[i + Width(Step(i))].steps \in Seq({Step(l) : l \in 0..Len(spine)})
  <2>1. i + Width(Step(i)) \in 0..Len(spine)
    BY <1>1, <1>5
  <2> QED BY <1>1, <2>1, WalkSteps
<1>8. Len(placed) \in Nat
  BY <1>1 DEF TypeOK
<1>9. /\ Len(w[0].steps) = Len(placed) + Len(w[i].steps)
      /\ \A m \in 1..Len(w[i].steps) : w[0].steps[Len(placed) + m] = w[i].steps[m]
  BY DEF Told
<1> HIDE DEF w, S
<1> DEFINE q == w[i + Width(Step(i))].steps
<1>10. Len(q) \in Nat /\ Len(w[i].steps) = 1 + Len(q) /\ w[i].steps[1] = Step(i)
  <2>1. InFront(Step(i), q, <<Step(i)>> \o q)
    BY <1>7, Prepended, Zenon
  <2> HIDE DEF q
  <2>2. InFront(Step(i), q, w[i].steps)
    BY <1>6, <2>1 DEF q
  <2> QED BY <2>2 DEF InFront
<1> HIDE DEF q
<1>11. j \in 1..Len(w[0].steps) /\ w[0].steps[j] = Step(i)
  BY <1>8, <1>9, <1>10
<1>12. ExplainResult(tiles, spine).steps = w[0].steps
  BY DEF ExplainResult, w
<1>13. (ExplainResult(tiles, spine).steps)' = w[0].steps
  BY <1>2, <1>12
<1>14. w[0].steps[j].at = i' /\ w[0].steps[j].chosen = {pick'}
  BY <1>2, <1>4, <1>11
<1> HIDE DEF j
<1>15. \E l \in 1..Len(w[0].steps) : w[0].steps[l].at = i' /\ w[0].steps[l].chosen = {pick'}
  BY <1>11, <1>14
<1> QED BY <1>2, <1>13, <1>15 DEF ExplainAgreesWithCover

\* The loop ends: so does the walk, at the same place and for the same reason.
LEMMA LoopEndsTold ==
  ASSUME CoverInv, Told, LoopEnds
  PROVE  ExplainAgreesWithCover'
<1> DEFINE w  == Walk(tiles, spine)
           v  == w[0].steps
           n  == Len(placed)
           ex == ExplainResult(tiles, spine)
<1>1. /\ TypeOK /\ Accepted(tiles) /\ i \in 0..Len(spine) /\ i \in Nat
      /\ Len(spine) \in Nat /\ tiles \in Seq(Tiles) /\ n \in Nat
  BY TilesTyped DEF CoverInv, TypeOK, Loaded, LoopEnds
<1>2. /\ UNCHANGED <<tiles, spine, i, placed>>
      /\ phase' = IF i = 0 THEN "nolowering" ELSE "done"
  BY DEF LoopEnds
<1>3. matchAt(tiles, spine, i) = {}
  BY NothingMatches DEF matchAt
<1>4. Step(i).chosen = {}
  BY <1>1, <1>3, StepReads DEF Step
<1>5. (w[i].steps = << >> \/ w[i].steps = <<Step(i)>>) /\ w[i].i = i
  BY <1>1, <1>4, WalkAt
<1>6. /\ Len(v) = n + Len(w[i].steps) /\ w[0].i = w[i].i
      /\ \A j \in 1..n : v[j].at = placed[j].at /\ v[j].chosen = {placed[j].tile}
      /\ \A j \in 1..Len(w[i].steps) : v[n + j] = w[i].steps[j]
  BY DEF Told
<1>7. /\ ex.steps = v
      /\ ex.leftover = Slice(spine, w[0].i, Len(spine))
      /\ ex.note = "no lowering" <=> w[0].i = 0
  <2> DEFINE rest == Slice(spine, w[0].i, Len(spine))
             note == IF w[0].i = 0 THEN "no lowering"
                     ELSE IF rest # << >> THEN "traffic" ELSE ""
  <2>1. ex = [steps |-> v, leftover |-> rest, note |-> note]
    BY Zenon DEF ExplainResult
  <2>2. note = "no lowering" <=> w[0].i = 0
    OBVIOUS
  <2> HIDE DEF ex, v, rest, note, w
  <2>3. ex.steps = v /\ ex.leftover = rest /\ ex.note = note
    BY <2>1
  <2> QED BY <2>2, <2>3 DEF rest
<1>8. ex' = ex
  BY <1>2
<1> HIDE DEF w, v, n, ex
<1>9. n <= Len(v) /\ \A j \in (n + 1)..Len(v) : v[j].chosen = {}
  <2>1. CASE w[i].steps = << >>
    BY <1>1, <1>6, <2>1
  <2>2. CASE w[i].steps = <<Step(i)>>
    <3>1. Len(w[i].steps) = 1 /\ w[i].steps[1] = Step(i)
      BY <2>2
    <3>2. Len(v) = n + 1 /\ v[n + 1] = Step(i)
      BY <1>6, <3>1
    <3> QED BY <1>1, <1>4, <3>2
  <2> QED BY <1>5, <2>1, <2>2
<1>10. phase' # "failed" /\ (phase' = "nolowering" <=> i = 0)
  BY <1>2
<1>11. /\ Len(placed) <= Len(ex.steps)
       /\ \A j \in 1..Len(placed) :
            ex.steps[j].at = placed[j].at /\ ex.steps[j].chosen = {placed[j].tile}
       /\ \A j \in (Len(placed) + 1)..Len(ex.steps) : ex.steps[j].chosen = {}
       /\ ex.leftover = Slice(spine, i, Len(spine))
       /\ ex.note = "no lowering" <=> phase' = "nolowering"
  BY <1>5, <1>6, <1>7, <1>9, <1>10 DEF n
<1> QED BY <1>2, <1>8, <1>10, <1>11 DEF ExplainAgreesWithCover, ex

\* Every step keeps the agreement.
LEMMA ExplainStep == ExplainInv /\ [Next]_vars => ExplainInv'
<1> SUFFICES ASSUME ExplainInv, [Next]_vars PROVE ExplainInv'
  OBVIOUS
<1>1. /\ CoverInv /\ Fresh /\ ExplainAgreesWithCover /\ CoverInv'
      /\ phase \in {"head", "match", "best"} => Told
  BY CoverInvNext DEF ExplainInv
<1>2. CASE NewRegistry
  <2>1. /\ UNCHANGED <<tiles, spine, i, placed>> /\ i = 0 /\ placed = << >>
        /\ phase' \in {"head", "rejected"} /\ (phase' = "head" => Accepted(tiles))
    BY <1>1, <1>2 DEF NewRegistry, Fresh
  <2>2. phase' = "head" => Told'
    <3> SUFFICES ASSUME phase' = "head" PROVE Told'
      OBVIOUS
    <3>1. TypeOK /\ Accepted(tiles) /\ 0 \in 0..Len(spine)
      BY <1>1, <2>1, TilesTyped DEF CoverInv
    <3> DEFINE v == Walk(tiles, spine)[0].steps
    <3>2. v \in Seq({Step(l) : l \in 0..Len(spine)})
      BY <3>1, WalkSteps
    <3> HIDE DEF v
    <3>3. Len(v) \in Nat
      BY <3>2
    <3>4. Len(v) = 0 + Len(v) /\ \A j \in 1..Len(v) : v[0 + j] = v[j]
      BY <3>3
    <3>5. Len(placed) = 0 /\ 1..0 = {}
      BY <2>1
    <3>6. Told
      BY <2>1, <3>4, <3>5 DEF Told, v
    <3> QED BY <2>1, <3>6 DEF Told
  <2> QED BY <1>1, <2>1, <2>2 DEF ExplainInv, Fresh, ExplainAgreesWithCover
<1>3. CASE LowerTile
  <2>1. Told' /\ phase' = "head"
    BY <1>1, <1>3, LowerTileTold DEF LowerTile
  <2> QED BY <1>1, <2>1 DEF ExplainInv, Fresh, ExplainAgreesWithCover
<1>4. CASE LowerFails
  <2>1. ExplainAgreesWithCover' /\ phase' = "failed"
    BY <1>1, <1>4, LowerFailsTold DEF LowerFails
  <2> QED BY <1>1, <2>1 DEF ExplainInv, Fresh
<1>5. CASE LoopEnds
  <2>1. ExplainAgreesWithCover' /\ phase' \in {"nolowering", "done"}
    BY <1>1, <1>5, LoopEndsTold DEF LoopEnds
  <2> QED BY <1>1, <2>1 DEF ExplainInv, Fresh
<1>6. CASE LoopHead \/ MatchTile \/ Matched \/ BestStep
  <2>1. /\ UNCHANGED <<tiles, spine, i, placed>> /\ phase \in {"head", "match", "best"}
        /\ phase' \in {"head", "match", "best"}
    BY <1>6 DEF LoopHead, MatchTile, Matched, BestStep
  <2>2. Told'
    BY <1>1, <2>1 DEF Told
  <2> QED BY <1>1, <2>1, <2>2 DEF ExplainInv, Fresh, ExplainAgreesWithCover
<1>7. CASE UNCHANGED vars
  <2>1. UNCHANGED <<tiles, spine, phase, i, pick, placed>>
    BY <1>7 DEF vars
  <2> QED BY <1>1, <2>1 DEF ExplainInv, Fresh, ExplainAgreesWithCover, Told
<1> QED BY <1>2, <1>3, <1>4, <1>5, <1>6, <1>7 DEF Next, Terminated

\* explain.go:38: Explain chooses the tiles Cover lowers, at the same places, and
\* stops where Cover stops, whatever the registry and the spine.
THEOREM ExplainTellsCover == Spec => []ExplainAgreesWithCover
<1>1. Init => ExplainInv
  BY CoverInvInit DEF ExplainInv, Init, Fresh, ExplainAgreesWithCover
<1>2. ExplainInv => ExplainAgreesWithCover
  BY DEF ExplainInv
<1> QED BY <1>1, <1>2, ExplainStep, PTL DEF Spec

============================================================================
