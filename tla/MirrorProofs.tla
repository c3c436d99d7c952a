---------------------------- MODULE MirrorProofs ----------------------------
(* Proofs about `pktc mirror': what is proved of the scripts of `pktc       *)
(* lower' holds of both ends, and the two ends predict one underlay.        *)
EXTENDS Mirror, AccountProofs

----------------------------------------------------------------------------
\* The inductive invariant.

\* A rule is only printed once a tile has matched its first layers: it has a
\* second layer, and that has a name.
HasTunnel(layers) == Len(layers) >= 2 /\ layers[2].name # ""

\* Where the near end stands: one rule, whose devices are all there are.
NearEnd ==
  /\ base = 0
  /\ phase \in {"rule", "cover", "done"} => Len(file) = 1
  /\ phase \in {"read", "rule"} /\ rule = 1 => created = << >>
  /\ phase \in {"read", "cover"} => rule = 1
  /\ phase = "cover" /\ at > 0 => HasTunnel(sp)
  /\ phase = "rule" /\ rule > 1 => HasTunnel(file[1].layers)

\* The tree in hand is the one read, or what Peer makes of it.
Trees ==
  /\ side \in {"near", "far"}
  /\ side = "near" => file \in Files
  /\ side = "far" =>
       /\ \E f \in Files : Len(f) = 1 /\ near.layers = f[1].layers
       /\ HasTunnel(near.layers)
       /\ file = <<[defect |-> "none", layers |-> PeerLayers(near.layers, inner)]>>

MirrorInv == LowerInv /\ NearEnd /\ Trees

\* It holds before the file is read.
LEMMA MirrorInitially == MirrorInit => MirrorInv
<1> SUFFICES ASSUME MirrorInit PROVE MirrorInv
  OBVIOUS
<1>1. LowerInv
  BY LowerInit DEF MirrorInit
<1>2. NearEnd
  BY DEF MirrorInit, Init, EnvInit, NearEnd
<1>3. Trees
  BY DEF MirrorInit, Init, Trees
<1> QED BY <1>1, <1>2, <1>3 DEF MirrorInv

\* While a tree is read or lowered, it stays the tree in hand.
LEMMA TreesKept ==
  ASSUME Trees, UNCHANGED <<file, mirrorVars>>
  PROVE  Trees'
BY DEF Trees, mirrorVars

\* An error return leaves the one rule's frame as it is.
LEMMA NearEndAborts ==
  ASSUME NearEnd, Abort
  PROVE  NearEnd'
BY DEF NearEnd, Abort

\* readTree refuses the file or hands over its one rule.
LEMMA ReadTreeKeeps ==
  ASSUME MirrorInv, ReadTree
  PROVE  MirrorInv'
<1>1. LowerInv /\ NearEnd /\ Trees /\ UNCHANGED mirrorVars /\ phase = "read"
  BY DEF MirrorInv, ReadTree, ReadTrees
<1>2. Trees'
  <2>1. UNCHANGED file
    BY DEF ReadTree, ReadTrees, Abort
  <2> QED BY <1>1, <2>1, TreesKept
<1>3. CASE Len(file) = 1 /\ ReadTrees
  <2>1. LowerInv'
    BY <1>1, <1>3, ReadTreesKeeps
  <2>2. CASE Abort
    BY <1>1, <1>2, <2>1, <2>2, NearEndAborts DEF MirrorInv
  <2>3. CASE phase' = "rule" /\ UNCHANGED <<file, rule, at, base, script, applied, out>>
    <3>1. created' = created
      BY <1>3 DEF ReadTrees, envVars
    <3>2. NearEnd'
      BY <1>1, <1>3, <2>3, <3>1 DEF NearEnd
    <3> QED BY <1>2, <2>1, <3>2 DEF MirrorInv
  <2> QED BY <1>3, <2>2, <2>3 DEF ReadTrees
<1>4. CASE Abort /\ UNCHANGED envVars
  <2>1. LowerInv'
    <3>1. UNCHANGED <<created, used, count>> /\ dev' \in used
      BY <1>1, <1>4 DEF envVars, LowerInv, TypeOK
    <3> QED BY <1>1, <1>4, <3>1, AbortHere
  <2>2. NearEnd'
    BY <1>1, <1>4, NearEndAborts
  <2> QED BY <1>2, <2>1, <2>2 DEF MirrorInv
<1> QED BY <1>3, <1>4 DEF ReadTree

\* render, of either end: the actions of `pktc lower'.
LEMMA RenderKeeps ==
  ASSUME MirrorInv, Render
  PROVE  MirrorInv'
<1>1. LowerInv /\ NearEnd /\ Trees /\ UNCHANGED mirrorVars
  BY DEF MirrorInv, Render
<1>2. ASSUME StartRule PROVE NearEnd' /\ UNCHANGED file
  <2>1. CASE Abort
    BY <1>1, <2>1, NearEndAborts DEF Abort
  <2>2. CASE ~Abort
    <3>1. /\ phase = "rule" /\ rule <= Len(file) /\ phase' = "cover" /\ at' = 0
          /\ base' = Len(created) /\ UNCHANGED <<file, rule, created>>
      BY <1>2, <2>2 DEF StartRule, Reset
    <3>2. Len(file) = 1 /\ rule \in 1..(Len(file) + 1)
      BY <1>1, <3>1, Lengths DEF NearEnd
    <3>3. rule = 1
      BY <3>1, <3>2
    <3>4. created = << >>
      BY <1>1, <3>1, <3>3 DEF NearEnd
    <3>5. base' = 0
      BY <3>1, <3>4
    <3> QED BY <3>1, <3>2, <3>3, <3>5 DEF NearEnd
  <2> QED BY <2>1, <2>2
<1>3. ASSUME NEW t \in Picks, LowerTile(t) PROVE NearEnd' /\ UNCHANGED file
  <2>1. CASE Abort
    BY <1>1, <2>1, NearEndAborts DEF Abort
  <2>2. CASE ~Abort
    <3>1. /\ phase = "cover" /\ at' = at + Len(t.pattern)
          /\ UNCHANGED <<file, rule, phase, base, out>>
      BY <1>3, <2>2, Zenon DEF LowerTile
    <3>2. t \in TilesOf(Registry) /\ Matches(t, sp, at)
      BY <1>3 DEF Picks, Candidates
    <3>3. Len(t.pattern) \in Nat /\ Len(t.pattern) >= 2 /\ t.pattern[2] # ""
      BY <3>2, SixTiles
    <3>4. at \in 0..Len(sp) /\ sp' = sp
      BY <1>1, <3>1 DEF LowerInv, TypeOK, sp
    <3>5. HasTunnel(sp)
      <4>1. CASE at > 0
        BY <1>1, <3>1, <4>1 DEF NearEnd
      <4>2. CASE at = 0
        <5>1. at + Len(t.pattern) <= Len(sp) /\ 2 \in 1..Len(t.pattern)
          <6>1. at + Len(t.pattern) <= Len(sp)
            BY <3>2 DEF Matches
          <6>2. 2 \in 1..Len(t.pattern)
            <7>1. \A k \in Nat : k >= 2 => 2 \in 1..k
              OBVIOUS
            <7> QED BY <3>3, <7>1, Zenon
          <6> QED BY <6>1, <6>2
        <5>2. sp[at + 2].name = t.pattern[2]
          BY <3>2, <5>1 DEF Matches
        <5>3. at + 2 = 2
          BY <4>2
        <5>4. Len(sp) >= 2
          <6>1. Len(sp) \in Nat
            <7>1. rule \in 1..Len(file)
              <8>1. rule <= Len(file)
                BY <1>1, <3>1 DEF LowerInv, Shape
              <8> QED BY <1>1, <8>1, Lengths
            <7> QED BY <1>1, <7>1, Lengths DEF sp
          <6>2. PICK k \in Nat, m \in Nat : k = Len(t.pattern) /\ m = Len(sp)
            BY <3>3, <6>1
          <6>3. 0 + k <= m /\ k >= 2
            BY <3>3, <4>2, <5>1, <6>2
          <6>4. m >= 2
            BY <6>3
          <6> QED BY <6>2, <6>4
        <5> QED BY <3>3, <5>2, <5>3, <5>4 DEF HasTunnel
      <4> QED BY <3>4, <4>1, <4>2
    <3> HIDE DEF HasTunnel
    <3> QED BY <1>1, <3>1, <3>4, <3>5 DEF NearEnd
  <2> QED BY <2>1, <2>2
<1>4. ASSUME NoLowering PROVE NearEnd' /\ UNCHANGED file
  BY <1>1, <1>4, NearEndAborts DEF NoLowering, Abort
<1>5. ASSUME FinishRule PROVE NearEnd' /\ UNCHANGED file
  <2>1. CASE Abort
    BY <1>1, <2>1, NearEndAborts DEF Abort
  <2>2. CASE ~Abort
    <3>1. /\ phase = "cover" /\ at > 0 /\ rule' = rule + 1 /\ phase' = "rule"
          /\ UNCHANGED <<file, at, base>>
      BY <1>5, <2>2, Zenon DEF FinishRule
    <3>2. Len(file) = 1 /\ rule = 1 /\ base = 0 /\ HasTunnel(sp)
      BY <1>1, <3>1 DEF NearEnd
    <3>3. HasTunnel(file'[1].layers)
      BY <3>1, <3>2 DEF sp
    <3> HIDE DEF HasTunnel
    <3> QED BY <3>1, <3>2, <3>3 DEF NearEnd
  <2> QED BY <2>1, <2>2
<1>6. LowerInv'
  BY <1>1, LowerStep DEF Render, Next
<1>7. NearEnd' /\ UNCHANGED file
  BY <1>2, <1>3, <1>4, <1>5 DEF Render
<1>8. Trees'
  BY <1>1, <1>7, TreesKept
<1> QED BY <1>6, <1>7, <1>8 DEF MirrorInv

\* Peer gives one layer for one.
LEMMA PeerLayersIsSeq ==
  ASSUME NEW layers, IsSeq(layers), NEW v
  PROVE  IsSeq(PeerLayers(layers, v)) /\ Len(PeerLayers(layers, v)) = Len(layers)
<1> PICK n \in Nat : n = Len(layers)
  BY DEF IsSeq
<1> DEFINE p == PeerLayers(layers, v)
<1>1. p = [j \in 1..n |-> p[j]]
  BY DEF PeerLayers
<1> HIDE DEF p
<1>2. p \in Seq({p[j] : j \in 1..n}) /\ Len(p) = n
  BY <1>1
<1> QED BY <1>2, SeqIsSeq DEF p

\* The near end is printed: Peer refuses, or the far end begins with a new Env.
LEMMA MirrorPeerKeeps ==
  ASSUME MirrorInv, MirrorPeer
  PROVE  MirrorInv'
<1>1. LowerInv /\ NearEnd /\ Trees /\ phase = "rule" /\ rule > Len(file) /\ side = "near"
  BY DEF MirrorInv, MirrorPeer
<1>2. CASE Abort /\ UNCHANGED <<envVars, mirrorVars>>
  <2>1. LowerInv'
    <3>1. UNCHANGED <<created, used, count>> /\ dev' \in used
      BY <1>1, <1>2 DEF envVars, LowerInv, TypeOK
    <3> QED BY <1>1, <1>2, <3>1, AbortHere
  <2>2. NearEnd'
    BY <1>1, <1>2, NearEndAborts
  <2>3. Trees'
    BY <1>1, <1>2, TreesKept DEF Abort
  <2> QED BY <2>1, <2>2, <2>3 DEF MirrorInv
<1>3. CASE ~PeerRefuses
  <2> DEFINE layers == file[1].layers
             far    == [defect |-> "none", layers |-> PeerLayers(layers, inner)]
  <2>1. /\ near'.layers = layers /\ file' = <<far>> /\ side' = "far" /\ rule' = 1
        /\ out' = << >> /\ dev' = Root /\ created' = << >> /\ used' = {Root}
        /\ count' = [p \in NamePrefixes |-> 0]
        /\ UNCHANGED <<phase, base, script, inner>>
    BY <1>3 DEF MirrorPeer
  <2>2. Len(file) = 1 /\ rule \in 1..(Len(file) + 1)
    BY <1>1, Lengths DEF NearEnd
  <2>3. rule > 1 /\ 1 \in 1..Len(file)
    BY <1>1, <2>2
  <2>4. HasTunnel(layers) /\ base = 0
    BY <1>1, <2>3 DEF NearEnd
  <2>5. IsSeq(layers)
    BY <1>1, <2>3 DEF LowerInv, Shape
  <2>6. far.layers = PeerLayers(layers, inner) /\ IsSeq(far.layers)
    BY <2>5, PeerLayersIsSeq
  <2>7. file' = <<[defect |-> "none", layers |-> PeerLayers(near'.layers, inner')]>>
    BY <2>1
  <2>8. file \in Files
    BY <1>1 DEF Trees
  <2> HIDE DEF layers, far
  <2>9. IsSeq(file') /\ Len(file') = 1 /\ file'[1] = far
    <3>1. <<far>> \in Seq({far})
      OBVIOUS
    <3>2. IsSeq(<<far>>)
      BY <3>1, SeqIsSeq
    <3> QED BY <2>1, <3>2
  <2>10. IsSeq(<< >>) /\ Len(<< >>) = 0
    <3>1. << >> \in Seq({1})
      OBVIOUS
    <3> QED BY <3>1, SeqIsSeq
  <2>11. Trees'
    <3>1. \E f \in Files : Len(f) = 1 /\ near'.layers = f[1].layers
      BY <2>1, <2>2, <2>8 DEF layers
    <3>2. HasTunnel(near'.layers)
      BY <2>1, <2>4
    <3> HIDE DEF HasTunnel
    <3> QED BY <2>1, <2>7, <3>1, <3>2 DEF Trees
  <2>12. NearEnd'
    BY <1>1, <2>1, <2>4, <2>9 DEF NearEnd
  <2>13. LowerInv'
    <3>1. MaxCount \in Nat /\ MaxCount > 0
      BY EnvAssumption, LowerAssumption
    <3>2. Shape'
      <4>1. IsFiniteSet(used') /\ Root \in used'
        BY <2>1, FS_Singleton
      <4>2. \A r \in 1..Len(file') : IsSeq(file'[r].layers)
        BY <2>6, <2>9
      <4>3. IsSeq(script')
        BY <1>1, <2>1 DEF LowerInv, Shape
      <4>4. \A p \in NamePrefixes : count'[p] < MaxCount
        BY <2>1, <3>1
      <4> QED BY <1>1, <2>1, <2>9, <2>10, <4>1, <4>2, <4>3, <4>4 DEF Shape
    <3>3. TypeOK'
      <4>1. count' \in [NamePrefixes -> 0..MaxCount]
        BY <2>1, <3>1
      <4>2. Len(created') = 0 /\ Len(out') = 0
        BY <2>1, <2>10
      <4>3. rule' \in 1..(Len(file') + 1) /\ Len(out') = rule' - 1 /\ base' \in 0..Len(created')
        BY <2>1, <2>4, <2>9, <4>2
      <4>4. \A j \in 1..Len(created') : created'[j] \in used'
        BY <4>2
      <4> QED BY <1>1, <2>1, <4>1, <4>3, <4>4 DEF TypeOK
    <3>4. Rules' = {} /\ 1..Len(out') = {}
      BY <1>1, <2>1, <2>10 DEF Rules
    <3>5. DevicesTaken' /\ ScriptsSound' /\ NamesUnique'
      BY <3>4 DEF DevicesTaken, ScriptsSound, NamesUnique
    <3>6. BroughtUpOnce'
      BY <3>4 DEF BroughtUpOnce
    <3>7. InHand'
      BY <1>1, <2>1 DEF InHand
    <3> QED BY <3>2, <3>3, <3>5, <3>6, <3>7 DEF LowerInv
  <2> QED BY <2>11, <2>12, <2>13 DEF MirrorInv
<1> QED BY <1>2, <1>3 DEF MirrorPeer

\* Every step keeps it.
LEMMA MirrorStep == MirrorInv /\ [MirrorNext]_allVars => MirrorInv'
<1> SUFFICES ASSUME MirrorInv, [MirrorNext]_allVars PROVE MirrorInv'
  OBVIOUS
<1>1. LowerInv /\ NearEnd /\ Trees
  BY DEF MirrorInv
<1>2. CASE ReadTree
  BY <1>2, ReadTreeKeeps
<1>3. CASE Render
  BY <1>3, RenderKeeps
<1>4. CASE MirrorPeer
  BY <1>4, MirrorPeerKeeps
<1>5. CASE FarPrinted
  <2>1. LowerInv'
    BY <1>1, <1>5, EndOfFileKeeps DEF FarPrinted
  <2>2. Trees'
    BY <1>1, <1>5, TreesKept DEF FarPrinted, EndOfFile
  <2>3. NearEnd'
    BY <1>1, <1>5 DEF FarPrinted, EndOfFile, NearEnd
  <2> QED BY <2>1, <2>2, <2>3 DEF MirrorInv
<1>6. CASE UNCHANGED allVars
  <2>1. LowerInv'
    BY <1>1, <1>6, StutterKeeps DEF allVars, vars
  <2>2. Trees'
    BY <1>1, <1>6, TreesKept DEF allVars, mirrorVars
  <2>3. NearEnd'
    BY <1>1, <1>6 DEF allVars, NearEnd, sp
  <2> QED BY <2>1, <2>2, <2>3 DEF MirrorInv
<1>7. CASE Terminated /\ UNCHANGED mirrorVars
  BY <1>6, <1>7 DEF Terminated, vars, mirrorVars, allVars
<1> QED BY <1>2, <1>3, <1>4, <1>5, <1>6, <1>7 DEF MirrorNext

\* The invariant holds of `pktc mirror' on every file and every -peer-inner.
THEOREM MirrorInvariant == MirrorSpec => []MirrorInv
<1> QED BY MirrorInitially, MirrorStep, PTL DEF MirrorSpec

\* What is printed for the far end, from a tree nobody wrote, keeps the promises
\* of what is printed for the near end: its commands are in order, its chain
\* stands on its underlay, no name is given twice, and all its devices come up.
THEOREM BothEndsAreSound ==
  MirrorSpec => [](NamesUnique /\ BuiltBeforeUsed /\ BroughtUpOnce /\ ChainOnUnderlay)
<1>1. LowerInv => NamesUnique /\ BuiltBeforeUsed /\ BroughtUpOnce /\ ChainOnUnderlay
  BY SoundScriptsSuffice
<1>2. MirrorInv => LowerInv
  BY DEF MirrorInv
<1> QED BY <1>1, <1>2, MirrorInvariant, PTL

----------------------------------------------------------------------------
\* What Peer changes of one layer.

\* Do two layers read alike but for their ends?
SameButEnds(n, f) ==
  /\ f.name = n.name
  /\ \A key \in {"src_port", "dst_port", "vni", "key", "id", "peer"} :
       /\ Lookup(f, key) <=> Lookup(n, key)
       /\ Lookup(n, key) => f.props[key] = n.props[key]

\* The ends of a layer that names both change places, each with the length of
\* its new position, and nothing else of the layer changes.
LEMMA SwapEndpoints ==
  ASSUME NEW n, IsLayer(n), TwoEnded(n)
  PROVE  LET f == swapEndpoints(n)
         IN /\ IsLayer(f) /\ DOMAIN f.props = DOMAIN n.props
            /\ f.props.src = rebuild(n.props.dst, LengthOf(n.props.src))
            /\ f.props.dst = rebuild(n.props.src, LengthOf(n.props.dst))
            /\ SameButEnds(n, f)
<1> DEFINE a == rebuild(n.props.dst, LengthOf(n.props.src))
           b == rebuild(n.props.src, LengthOf(n.props.dst))
           q == [n.props EXCEPT !.src = a, !.dst = b]
<1>1. swapEndpoints(n) = [[name |-> n.name, props |-> n.props] EXCEPT !.props.src = a, !.props.dst = b]
  BY DEF IsLayer, Layer, swapEndpoints
<1>2. swapEndpoints(n) = Layer(n.name, q)
  BY <1>1 DEF Layer
<1>3. /\ DOMAIN q = DOMAIN n.props /\ q = [k \in DOMAIN n.props |-> q[k]]
      /\ q.src = a /\ q.dst = b
      /\ \A k \in DOMAIN n.props \ {"src", "dst"} : q[k] = n.props[k]
  BY DEF IsLayer, TwoEnded, Lookup
<1> HIDE DEF a, b, q
<1> QED BY <1>2, <1>3 DEF SameButEnds, Lookup, IsLayer, Layer, a, b

\* Placing or dropping the innermost address touches :src only.
LEMMA SetProp ==
  ASSUME NEW n, IsLayer(n), NEW v
  PROVE  SameButEnds(n, setProp(n, "src", v))
<1> DEFINE q == [n.props EXCEPT !["src"] = v]
<1>1. setProp(n, "src", v) = Layer(n.name, q)
  BY DEF IsLayer, Layer, setProp
<1>2. /\ DOMAIN q = DOMAIN n.props 
      /\ \A k \in DOMAIN n.props \ {"src"} : q[k] = n.props[k]
  BY DEF IsLayer
<1> HIDE DEF q
<1> QED BY <1>1, <1>2 DEF SameButEnds, Lookup, Layer

\* The same of an address that is dropped.
LEMMA RemoveProp ==
  ASSUME NEW n, IsLayer(n)
  PROVE  SameButEnds(n, removeProp(n, "src"))
<1> DEFINE q == [k \in DOMAIN n.props \ {"src"} |-> n.props[k]]
<1>1. removeProp(n, "src") = Layer(n.name, q)
  BY DEF IsLayer, Layer, removeProp
<1>2. /\ DOMAIN q = DOMAIN n.props \ {"src"}
      /\ \A k \in DOMAIN n.props \ {"src"} : q[k] = n.props[k]
  OBVIOUS
<1> HIDE DEF q
<1> QED BY <1>1, <1>2 DEF SameButEnds, Lookup, Layer

\* Peer keeps the name of every layer, and every property but its ends.
LEMMA PeerKeepsTheRest ==
  ASSUME NEW layers, NEW v, NEW j \in 1..Len(layers), IsLayer(layers[j])
  PROVE  SameButEnds(layers[j], PeerLayers(layers, v)[j])
<1> DEFINE n == layers[j]
           t == TurnedAround(layers)[j]
           f == PeerLayers(layers, v)[j]
<1>1. t = IF TwoEnded(n) THEN swapEndpoints(n) ELSE n
  BY DEF TurnedAround
<1>2. f \in {t, removeProp(t, "src"), setProp(t, "src", v)}
  BY DEF PeerLayers
<1> HIDE DEF n, t, f
<1>3. IsLayer(t) /\ SameButEnds(n, t)
  <2>1. CASE TwoEnded(n)
    BY <1>1, <2>1, SwapEndpoints DEF n
  <2>2. CASE ~TwoEnded(n)
    BY <1>1, <2>2 DEF SameButEnds, n
  <2> QED BY <2>1, <2>2
<1>4. SameButEnds(t, f)
  <2>1. SameButEnds(t, t)
    BY DEF SameButEnds
  <2> QED BY <1>2, <1>3, <2>1, SetProp, RemoveProp
<1> QED BY <1>3, <1>4 DEF SameButEnds, n, f

\* Is f the header n as the other end would write it?
Turned(n, f) ==
  /\ Src(f) = Dst(n) /\ Dst(f) = Src(n)
  /\ Dst(n) = "concrete" => f.props.src.addr = n.props.dst.addr
  /\ Src(n) = "concrete" => f.props.dst.addr = n.props.src.addr

\* Each end of an outer header is absent, a `*' or an address: turned around it
\* carries no address for its device, so Peer leaves it at that.
LEMMA OuterTurned ==
  ASSUME NEW layers, NEW v, Len(layers) \in Nat, Len(layers) >= 1, IsLayer(layers[1]),
         TwoEnded(layers[1]), "error" \notin {Src(layers[1]), Dst(layers[1])}
  PROVE  LET n == layers[1]
             f == PeerLayers(layers, v)[1]
         IN Turned(n, f)
<1> DEFINE n == layers[1]
           t == swapEndpoints(n)
           turned == TurnedAround(layers)
<1>1. /\ DOMAIN t.props = DOMAIN n.props
      /\ t.props.src = rebuild(n.props.dst, LengthOf(n.props.src))
      /\ t.props.dst = rebuild(n.props.src, LengthOf(n.props.dst))
  BY SwapEndpoints
<1>2. /\ 1 \in 1..Len(layers) /\ turned[1] = t /\ Len(turned) = Len(layers)
  BY DEF TurnedAround
<1> HIDE DEF n, t, turned
<1>3. Lookup(n, "src") /\ Lookup(n, "dst") /\ Lookup(t, "src") /\ Lookup(t, "dst")
  BY <1>1 DEF TwoEnded, Lookup, n
<1>4. n.props.src = Star \/ (n.props.src # Star /\ n.props.src.kind = "addr")
  BY <1>3 DEF Src, Get, Parses, ParseAddr, n
<1>5. n.props.dst = Star \/ (n.props.dst # Star /\ n.props.dst.kind = "addr")
  BY <1>3 DEF Dst, Get, Parses, ParseAddr, n
<1>6. Star.kind = "star" /\ \A x : Addr(x).kind = "addr" /\ Addr(x).addr = x /\ Addr(x) # Star
  BY DEF Star, Addr
<1>7. LengthOf(n.props.src) = NoLength /\ LengthOf(n.props.dst) = NoLength
  BY <1>4, <1>5, <1>6 DEF LengthOf
<1>8. t.props.src = IF n.props.dst = Star THEN Star ELSE Addr(n.props.dst.addr)
  BY <1>1, <1>5, <1>6, <1>7 DEF rebuild, WithLength, LengthFits
<1>9. t.props.dst = IF n.props.src = Star THEN Star ELSE Addr(n.props.src.addr)
  BY <1>1, <1>4, <1>6, <1>7 DEF rebuild, WithLength, LengthFits
<1>10. ~CarriesAddress(t)
  BY <1>3, <1>6, <1>8 DEF CarriesAddress, SrcPrefix, Get, Parses, ParsePrefix
<1>11. 1 \notin innermostAddressed(turned)
  BY <1>2, <1>10 DEF innermostAddressed
<1>12. PeerLayers(layers, v)[1] = t
  BY <1>2, <1>11 DEF PeerLayers, turned
<1>13. Src(t) = Dst(n) /\ Dst(t) = Src(n)
  BY <1>3, <1>4, <1>5, <1>6, <1>8, <1>9 DEF Src, Dst, Get, Parses, ParseAddr
<1>14. /\ Dst(n) = "concrete" => t.props.src.addr = n.props.dst.addr
       /\ Src(n) = "concrete" => t.props.dst.addr = n.props.src.addr
  BY <1>3, <1>6, <1>8, <1>9 DEF Src, Dst, Get
<1> QED BY <1>12, <1>13, <1>14 DEF n, Turned

----------------------------------------------------------------------------
\* What a prediction says, as labels and values.

Pairs(facts) == {<<g.label, g.value>> : g \in facts}

Ends == {"outer source", "outer destination"}

NotOfEnds(facts) == \A g \in facts : g.label \notin Ends

\* Both readings of a set of facts go fact by fact.
LEMMA PairsOfUnion ==
  ASSUME NEW A, NEW B
  PROVE  /\ Pairs(A \cup B) = Pairs(A) \cup Pairs(B)
         /\ FromAfar(A \cup B) = FromAfar(A) \cup FromAfar(B)
<1>1. Pairs(A \cup B) = Pairs(A) \cup Pairs(B)
  BY Zenon DEF Pairs
<1>2. FromAfar(A \cup B) = FromAfar(A) \cup FromAfar(B)
  BY Zenon DEF FromAfar
<1> QED BY <1>1, <1>2

\* A fact that is not about an end is the same from afar.
LEMMA SameFromAfar ==
  ASSUME NEW A, NotOfEnds(A)
  PROVE  FromAfar(A) = Pairs(A)
<1> DEFINE L(g) == CASE g.label = "outer source"      -> "outer destination"
                     [] g.label = "outer destination" -> "outer source"
                     [] OTHER                         -> g.label
<1>1. \A g \in A : L(g) = g.label
  BY DEF NotOfEnds, Ends
<1>2. FromAfar(A) = {<<L(g), g.value>> : g \in A}
  BY DEF FromAfar
<1> HIDE DEF L
<1> QED BY <1>1, <1>2, Zenon DEF Pairs

\* One fact, read here and from afar.
LEMMA OneFact ==
  ASSUME NEW l, NEW x, NEW y
  PROVE  /\ Pairs({Fact(l, x, y)}) = {<<l, x>>}
         /\ l = "outer source" => FromAfar({Fact(l, x, y)}) = {<<"outer destination", x>>}
         /\ l = "outer destination" => FromAfar({Fact(l, x, y)}) = {<<"outer source", x>>}
<1> DEFINE g == Fact(l, x, y)
<1>1. g.label = l /\ g.value = x
  BY DEF Fact
<1> HIDE DEF g
<1>2. Pairs({g}) = {<<l, x>>}
  <2>1. Pairs({g}) = {<<g.label, g.value>>}
    BY Zenon DEF Pairs
  <2> QED BY <1>1, <2>1
<1>3. FromAfar({g}) =
        {<<CASE g.label = "outer source"      -> "outer destination"
             [] g.label = "outer destination" -> "outer source"
             [] OTHER                         -> g.label, g.value>>}
  BY Zenon DEF FromAfar
<1> QED BY <1>1, <1>2, <1>3 DEF g

\* The far end's source is the near end's destination, and the other way round,
\* whatever substrings they are looked for by.
LEMMA EndsFromAfar ==
  ASSUME NEW n, NEW f, NEW m, NEW mm, Turned(n, f)
  PROVE  /\ Pairs(SourceFact(f)) = FromAfar(DestinationFact(n, m))
         /\ Pairs(DestinationFact(f, mm)) = FromAfar(SourceFact(n))
<1>1. Pairs({}) = {} /\ FromAfar({}) = {}
  BY DEF Pairs, FromAfar
<1>2. Pairs(SourceFact(f)) = FromAfar(DestinationFact(n, m))
  <2>1. CASE Dst(n) = "concrete"
    <3>1. SourceFact(f) = {Fact("outer source", n.props.dst.addr, <<"%s.", n.props.dst.addr>>)}
      BY <2>1 DEF Turned, SourceFact, When
    <3>2. DestinationFact(n, m) = {Fact("outer destination", n.props.dst.addr, m)}
      BY <2>1 DEF Turned, DestinationFact, When
    <3>3. Pairs({Fact("outer source", n.props.dst.addr, <<"%s.", n.props.dst.addr>>)})
            = {<<"outer source", n.props.dst.addr>>}
      BY OneFact, Zenon
    <3>4. FromAfar({Fact("outer destination", n.props.dst.addr, m)})
            = {<<"outer source", n.props.dst.addr>>}
      BY OneFact, Zenon
    <3> QED BY <3>1, <3>2, <3>3, <3>4
  <2>2. CASE Dst(n) # "concrete"
    BY <2>2, <1>1 DEF Turned, SourceFact, DestinationFact, When
  <2> QED BY <2>1, <2>2
<1>3. Pairs(DestinationFact(f, mm)) = FromAfar(SourceFact(n))
  <2>1. CASE Src(n) = "concrete"
    <3>1. DestinationFact(f, mm) = {Fact("outer destination", n.props.src.addr, mm)}
      BY <2>1 DEF Turned, DestinationFact, When
    <3>2. SourceFact(n) = {Fact("outer source", n.props.src.addr, <<"%s.", n.props.src.addr>>)}
      BY <2>1 DEF Turned, SourceFact, When
    <3>3. Pairs({Fact("outer destination", n.props.src.addr, mm)})
            = {<<"outer destination", n.props.src.addr>>}
      BY OneFact, Zenon
    <3>4. FromAfar({Fact("outer source", n.props.src.addr, <<"%s.", n.props.src.addr>>)})
            = {<<"outer destination", n.props.src.addr>>}
      BY OneFact, Zenon
    <3> QED BY <3>1, <3>2, <3>3, <3>4
  <2>2. CASE Src(n) # "concrete"
    BY <2>2, <1>1 DEF Turned, SourceFact, DestinationFact, When
  <2> QED BY <2>1, <2>2
<1> QED BY <1>2, <1>3

\* Does F say from the far end what N says from the near one?
TurnsAround(N, F) == Pairs(F) = FromAfar(N)

\* The facts of an outer header among others.
With(outer, match, A, B) ==
  A \cup SourceFact(outer) \cup DestinationFact(outer, match) \cup B

\* The facts of a prediction other than its ends are the same from afar, so it
\* turns around as a whole.
LEMMA FactsFromAfar ==
  ASSUME NEW n, NEW f, NEW m, NEW mm, NEW A, NEW B,
         Turned(n, f),
         NotOfEnds(A), NotOfEnds(B)
  PROVE  TurnsAround(With(n, m, A, B), With(f, mm, A, B))
<1>1. FromAfar(A) = Pairs(A) /\ FromAfar(B) = Pairs(B)
  BY SameFromAfar
<1>2. /\ Pairs(SourceFact(f)) = FromAfar(DestinationFact(n, m))
      /\ Pairs(DestinationFact(f, mm)) = FromAfar(SourceFact(n))
  BY EndsFromAfar
<1>3. \A S, D : /\ Pairs(A \cup S \cup D \cup B) = Pairs(A) \cup Pairs(S) \cup Pairs(D) \cup Pairs(B)
                /\ FromAfar(A \cup S \cup D \cup B)
                     = FromAfar(A) \cup FromAfar(S) \cup FromAfar(D) \cup FromAfar(B)
  <2> TAKE S, D
  <2>1. /\ Pairs(A \cup S) = Pairs(A) \cup Pairs(S)
        /\ FromAfar(A \cup S) = FromAfar(A) \cup FromAfar(S)
    BY PairsOfUnion, Zenon
  <2>2. /\ Pairs((A \cup S) \cup D) = Pairs(A \cup S) \cup Pairs(D)
        /\ FromAfar((A \cup S) \cup D) = FromAfar(A \cup S) \cup FromAfar(D)
    BY PairsOfUnion, Zenon
  <2>3. /\ Pairs((A \cup S \cup D) \cup B) = Pairs(A \cup S \cup D) \cup Pairs(B)
        /\ FromAfar((A \cup S \cup D) \cup B) = FromAfar(A \cup S \cup D) \cup FromAfar(B)
    BY PairsOfUnion, Zenon
  <2> QED BY <2>1, <2>2, <2>3
<1>4. /\ Pairs(A \cup SourceFact(f) \cup DestinationFact(f, mm) \cup B)
           = Pairs(A) \cup Pairs(SourceFact(f)) \cup Pairs(DestinationFact(f, mm)) \cup Pairs(B)
      /\ FromAfar(A \cup SourceFact(n) \cup DestinationFact(n, m) \cup B)
           = FromAfar(A) \cup FromAfar(SourceFact(n)) \cup FromAfar(DestinationFact(n, m))
               \cup FromAfar(B)
  BY <1>3, Zenon
<1> QED BY <1>1, <1>2, <1>4 DEF With, TurnsAround

\* Layers that agree but for their ends show the same under UDP.
LEMMA SameTunnel ==
  ASSUME NEW n, NEW f, SameButEnds(n, f)
  PROVE  /\ VNI(f) = VNI(n) /\ DstPort(f) = DstPort(n)
         /\ DstPort(n) = "concrete" => f.props.dst_port = n.props.dst_port
         /\ tunnelFacts(f) = tunnelFacts(n)
         /\ NotOfEnds(tunnelFacts(n))
<1>1. /\ f.name = n.name
      /\ Lookup(f, "vni") <=> Lookup(n, "vni")
      /\ Lookup(n, "vni") => f.props["vni"] = n.props["vni"]
      /\ Lookup(f, "dst_port") <=> Lookup(n, "dst_port")
      /\ Lookup(n, "dst_port") => f.props["dst_port"] = n.props["dst_port"]
  BY DEF SameButEnds
<1>2. VNI(f) = VNI(n) /\ DstPort(f) = DstPort(n)
  BY <1>1 DEF VNI, DstPort, Get
<1>3. DstPort(n) = "concrete" => f.props.dst_port = n.props.dst_port
  BY <1>1 DEF DstPort, Get
<1>4. VNI(n) = "concrete" => f.props.vni = n.props.vni
  BY <1>1 DEF VNI, Get
<1>5. tunnelFacts(f) = tunnelFacts(n)
  BY <1>1, <1>2, <1>4 DEF tunnelFacts, When
<1>6. NotOfEnds(tunnelFacts(n))
  <2>1. \A l, x, y : Fact(l, x, y).label = l
    BY DEF Fact
  <2>2. tunnelFacts(n) \subseteq
          {Fact("VXLAN VNI", n.props.vni.num, <<"vni %d", n.props.vni.num>>)}
            \cup {Fact("encapsulation", w, <<w>>) : w \in {"VXLAN", "Geneve", "UDP"}}
    BY DEF tunnelFacts, When, Encapsulation
  <2>3. Fact("VXLAN VNI", n.props.vni.num, <<"vni %d", n.props.vni.num>>).label = "VXLAN VNI"
    BY <2>1, Zenon
  <2>4. \A w : Fact("encapsulation", w, <<w>>).label = "encapsulation"
    BY <2>1, Zenon
  <2>5. \A g \in tunnelFacts(n) : g.label \in {"VXLAN VNI", "encapsulation"}
    BY <2>2, <2>3, <2>4, Zenon
  <2> QED BY <2>5 DEF Ends, NotOfEnds
<1> QED BY <1>2, <1>3, <1>5, <1>6

\* No header below, or two that agree but for ends.
Alongside(N, F) ==
  \/ N = {} /\ F = {}
  \/ \E x, y : N = {x} /\ F = {y} /\ SameButEnds(x, y)

\* Under UDP, where the transport and the header below it agree but for ends.
LEMMA UnderUDP ==
  ASSUME NEW n1, NEW f1, NEW n2, NEW f2, NEW N3, NEW F3, SameButEnds(n2, f2),
         Alongside(N3, F3),
         Turned(n1, f1),
         ExpectUDP(n1, n2, N3).ok
  PROVE  LET n == ExpectUDP(n1, n2, N3)
             f == ExpectUDP(f1, f2, F3)
         IN f.ok /\ f.filter = n.filter /\ TurnsAround(n.facts, f.facts)
<1> DEFINE port == n2.props.dst_port.num
           A    == {Fact("UDP destination port", port, <<"%d", port>>)}
           B    == UNION {tunnelFacts(n) : n \in N3}
           m    == <<"> %s.%d", n1.props.dst.addr, port>>
           mm   == <<"> %s.%d", f1.props.dst.addr, port>>
           n == ExpectUDP(n1, n2, N3)
           f == ExpectUDP(f1, f2, F3)
<1>1. /\ DstPort(n2) = "concrete" 
      /\ ~ \E x \in N3 : x.name = "vxlan" /\ VNI(x) = "error"
  BY DEF ExpectUDP, NoPrediction
<1>2. DstPort(f2) = "concrete" /\ f2.props.dst_port.num = port
  BY <1>1, SameTunnel
<1>3. /\ ~ \E x \in F3 : x.name = "vxlan" /\ VNI(x) = "error"
      /\ UNION {tunnelFacts(x) : x \in F3} = B
      /\ NotOfEnds(B)
  <2>1. CASE N3 = {} /\ F3 = {}
    BY <2>1 DEF NotOfEnds
  <2>2. CASE \E x, y : N3 = {x} /\ F3 = {y} /\ SameButEnds(x, y)
    <3>1. PICK x, y : N3 = {x} /\ F3 = {y} /\ SameButEnds(x, y)
      BY <2>2
    <3>2. /\ VNI(y) = VNI(x) /\ tunnelFacts(y) = tunnelFacts(x)
          /\ NotOfEnds(tunnelFacts(x))
          /\ y.name = x.name
      BY <3>1, SameTunnel DEF SameButEnds
    <3>3. B = tunnelFacts(x) /\ UNION {tunnelFacts(z) : z \in F3} = tunnelFacts(y)
      BY <3>1
    <3> QED BY <1>1, <3>1, <3>2, <3>3
  <2> QED BY <2>1, <2>2 DEF Alongside
<1>4. n = Predicts(<<"udp port", port>>, With(n1, m, A, B))
  BY <1>1 DEF ExpectUDP, With
<1>5. f = Predicts(<<"udp port", port>>, With(f1, mm, A, B))
  BY <1>2, <1>3 DEF ExpectUDP, With
<1>6. NotOfEnds(A)
  <2>1. Fact("UDP destination port", port, <<"%d", port>>).label = "UDP destination port"
    BY Zenon, OneLabel
  <2>2. \A g \in A : g.label = "UDP destination port"
    BY <2>1, Zenon
  <2> QED BY <2>2 DEF Ends, NotOfEnds
<1> HIDE DEF A, B, m, mm, n, f
<1>7. TurnsAround(With(n1, m, A, B), With(f1, mm, A, B))
  BY <1>3, <1>6, FactsFromAfar, Zenon
<1>8. \A x, S : Predicts(x, S).ok /\ Predicts(x, S).filter = x /\ Predicts(x, S).facts = S
  BY DEF Predicts
<1>9. /\ n.ok /\ n.filter = <<"udp port", port>>
      /\ n.facts = With(n1, m, A, B)
  BY <1>4, <1>8, Zenon
<1>10. /\ f.ok /\ f.filter = <<"udp port", port>>
       /\ f.facts = With(f1, mm, A, B)
  BY <1>5, <1>8, Zenon
<1>11. f.ok /\ f.filter = n.filter /\ TurnsAround(n.facts, f.facts)
  BY <1>7, <1>9, <1>10, Zenon
<1> QED BY <1>11 DEF n, f

\* Over GRE or IP.
LEMMA OverProtocol ==
  ASSUME NEW n1, NEW f1, NEW filter, NEW word,
         Turned(n1, f1)
  PROVE  LET n == ExpectProtocol(n1, filter, word)
             f == ExpectProtocol(f1, filter, word)
         IN f.ok /\ f.filter = n.filter /\ TurnsAround(n.facts, f.facts)
<1> DEFINE A    == {Encapsulation(word)}
           m    == <<"> %s", n1.props.dst.addr>>
           mm   == <<"> %s", f1.props.dst.addr>>
<1>1. Encapsulation(word).label = "encapsulation"
  BY DEF Encapsulation, Fact
<1>2. NotOfEnds(A) /\ NotOfEnds({})
  BY <1>1 DEF Ends, NotOfEnds
<1> HIDE DEF A, m, mm
<1>3. TurnsAround(With(n1, m, A, {}), With(f1, mm, A, {}))
  BY <1>2, FactsFromAfar, Zenon
<1>4. \A S : S \cup {} = S
  OBVIOUS
<1>5. TurnsAround(A \cup SourceFact(n1) \cup DestinationFact(n1, m),
                  A \cup SourceFact(f1) \cup DestinationFact(f1, mm))
  BY <1>3, <1>4 DEF With
<1>6. \A x, S : Predicts(x, S).ok /\ Predicts(x, S).filter = x /\ Predicts(x, S).facts = S
  BY DEF Predicts
<1> DEFINE n == ExpectProtocol(n1, filter, word)
           f == ExpectProtocol(f1, filter, word)
<1>7. /\ n = Predicts(filter, A \cup SourceFact(n1) \cup DestinationFact(n1, m))
      /\ f = Predicts(filter, A \cup SourceFact(f1) \cup DestinationFact(f1, mm))
  BY DEF ExpectProtocol, A, m, mm
<1> HIDE DEF n, f
<1>8. /\ n.filter = filter
      /\ n.facts = A \cup SourceFact(n1) \cup DestinationFact(n1, m)
  BY <1>6, <1>7, Zenon
<1>9. /\ f.ok /\ f.filter = filter
      /\ f.facts = A \cup SourceFact(f1) \cup DestinationFact(f1, mm)
  BY <1>6, <1>7, Zenon
<1>10. f.ok /\ f.filter = n.filter /\ TurnsAround(n.facts, f.facts)
  BY <1>5, <1>8, <1>9, Zenon
<1> QED BY <1>10 DEF n, f

\* Layers that stand for one tunnel, written at its two ends.
TwoSides(layers, far) ==
  /\ Len(far) = Len(layers)
  /\ Turned(layers[1], far[1])
  /\ SameButEnds(layers[1], far[1])
  /\ SameButEnds(layers[2], far[2])
  /\ Len(layers) >= 3 => SameButEnds(layers[3], far[3])

\* What one end predicts, the other does, turned around.
LEMMA PredictionTurns ==
  ASSUME NEW layers, NEW far, Len(layers) \in Nat, Len(layers) >= 2,
         layers[2].name # "", TwoSides(layers, far), Expect(layers).ok
  PROVE  LET n == Expect(layers)
             f == Expect(far)
         IN f.ok /\ f.filter = n.filter /\ TurnsAround(n.facts, f.facts)
<1> DEFINE n1 == layers[1]
           n2 == layers[2]
           f1 == far[1]
           f2 == far[2]
           N3 == Below(layers)
           F3 == Below(far)
           n  == Expect(layers)
           f  == Expect(far)
<1>1. /\ Len(far) = Len(layers) /\ f1.name = n1.name /\ f2.name = n2.name
      /\ Turned(n1, f1) /\ SameButEnds(n2, f2)
  BY DEF TwoSides, SameButEnds
<1>2. n1.name \in {"ipv4", "ipv6"} /\ "error" \notin {Src(n1), Dst(n1)}
  BY OuterIsIP
<1>3. "error" \notin {Src(f1), Dst(f1)}
  BY <1>1, <1>2 DEF Turned
<1>4. Alongside(N3, F3)
  <2>1. CASE Len(layers) >= 3
    <3>1. N3 = {layers[3]} /\ F3 = {far[3]} /\ SameButEnds(layers[3], far[3])
      BY <1>1, <2>1, BelowIsThird DEF TwoSides
    <3> QED BY <3>1, Zenon DEF Alongside
  <2>2. CASE ~(Len(layers) >= 3)
    <3>1. N3 = {} /\ F3 = {}
      BY <1>1, <2>2, BelowIsThird
    <3> QED BY <3>1, Zenon DEF Alongside
  <2> QED BY <2>1, <2>2
<1>5. /\ n2.name = "udp"  => n = ExpectUDP(n1, n2, N3)
      /\ n2.name = "gre"  => n = ExpectProtocol(n1, <<"proto gre">>, "GREv0")
      /\ n2.name = "ipv4" => n = ExpectProtocol(n1, <<"proto 4">>, "IP")
      /\ n2.name \notin {"udp", "gre", "ipv4"} => n = NoPrediction
  BY <1>2, ShapeOfPrediction
<1>6. /\ f2.name = "udp"  => f = ExpectUDP(f1, f2, F3)
      /\ f2.name = "gre"  => f = ExpectProtocol(f1, <<"proto gre">>, "GREv0")
      /\ f2.name = "ipv4" => f = ExpectProtocol(f1, <<"proto 4">>, "IP")
  BY <1>1, <1>2, <1>3, ShapeOfPrediction
<1>7. n.ok
  OBVIOUS
<1> HIDE DEF n1, n2, f1, f2, N3, F3, n, f
<1>8. n2.name \in {"udp", "gre", "ipv4"}
  <2>1. NoPrediction.ok = FALSE
    BY DEF NoPrediction
  <2> QED BY <1>5, <1>7, <2>1
<1>9. CASE n2.name = "udp"
  <2>1. n = ExpectUDP(n1, n2, N3) /\ f = ExpectUDP(f1, f2, F3)
    BY <1>1, <1>5, <1>6, <1>9
  <2>2. ExpectUDP(n1, n2, N3).ok
    BY <1>7, <2>1
  <2>3. LET nn == ExpectUDP(n1, n2, N3)
            ff == ExpectUDP(f1, f2, F3)
        IN ff.ok /\ ff.filter = nn.filter /\ TurnsAround(nn.facts, ff.facts)
    BY <1>1, <1>4, <2>2, UnderUDP, Zenon
  <2>4. f.ok /\ f.filter = n.filter /\ TurnsAround(n.facts, f.facts)
    BY <2>1, <2>3
  <2> QED BY <2>4 DEF n, f
<1>10. CASE n2.name = "gre"
  <2>1. /\ n = ExpectProtocol(n1, <<"proto gre">>, "GREv0")
        /\ f = ExpectProtocol(f1, <<"proto gre">>, "GREv0")
    BY <1>1, <1>5, <1>6, <1>10
  <2>2. LET nn == ExpectProtocol(n1, <<"proto gre">>, "GREv0")
            ff == ExpectProtocol(f1, <<"proto gre">>, "GREv0")
        IN ff.ok /\ ff.filter = nn.filter /\ TurnsAround(nn.facts, ff.facts)
    BY <1>1, OverProtocol, Zenon
  <2>3. f.ok /\ f.filter = n.filter /\ TurnsAround(n.facts, f.facts)
    BY <2>1, <2>2
  <2> QED BY <2>3 DEF n, f
<1>11. CASE n2.name = "ipv4"
  <2>1. /\ n = ExpectProtocol(n1, <<"proto 4">>, "IP")
        /\ f = ExpectProtocol(f1, <<"proto 4">>, "IP")
    BY <1>1, <1>5, <1>6, <1>11
  <2>2. LET nn == ExpectProtocol(n1, <<"proto 4">>, "IP")
            ff == ExpectProtocol(f1, <<"proto 4">>, "IP")
        IN ff.ok /\ ff.filter = nn.filter /\ TurnsAround(nn.facts, ff.facts)
    BY <1>1, OverProtocol, Zenon
  <2>3. f.ok /\ f.filter = n.filter /\ TurnsAround(n.facts, f.facts)
    BY <2>1, <2>2
  <2> QED BY <2>3 DEF n, f
<1> QED BY <1>8, <1>9, <1>10, <1>11

\* The length of a sequence.
LEMMA SeqLength ==
  ASSUME NEW s, IsSeq(s)
  PROVE  Len(s) \in Nat
BY DEF IsSeq

\* Peer's tree is the other side of the tree it is given.
LEMMA PeerIsOtherSide ==
  ASSUME NEW layers, NEW v, IsSeq(layers), HasTunnel(layers),
         TwoEnded(layers[1]), "error" \notin {Src(layers[1]), Dst(layers[1])},
         \A j \in 1..Len(layers) : IsLayer(layers[j])
  PROVE  TwoSides(layers, PeerLayers(layers, v))
<1> DEFINE far == PeerLayers(layers, v)
<1>1. Len(layers) \in Nat
  BY SeqLength
<1>2. Len(layers) >= 2
  BY DEF HasTunnel
<1>3. Len(far) = Len(layers)
  BY PeerLayersIsSeq
<1>4. \A k \in Nat : k >= 2 =>
         1 \in 1..k /\ 2 \in 1..k /\ k >= 1 /\ (k >= 3 => 3 \in 1..k)
  OBVIOUS
<1>5. /\ 1 \in 1..Len(layers) /\ 2 \in 1..Len(layers) /\ Len(layers) >= 1
      /\ Len(layers) >= 3 => 3 \in 1..Len(layers)
  BY <1>1, <1>2, <1>4, Zenon
<1>6. \A j \in 1..Len(layers) : SameButEnds(layers[j], far[j])
  BY PeerKeepsTheRest, Zenon
<1>7. IsLayer(layers[1])
  BY <1>5, Zenon
<1>8. Turned(layers[1], far[1])
  BY <1>1, <1>5, <1>7, OuterTurned, Zenon
<1> HIDE DEF far
<1>9. TwoSides(layers, far)
  BY <1>3, <1>5, <1>6, <1>8, Zenon DEF TwoSides
<1> QED BY <1>9 DEF far

\* The two ends of a tunnel see one underlay: what the far tree predicts of its
\* packets is what the near tree predicts, with source and destination exchanged,
\* and one capture filter finds both; for every tree, and every -peer-inner.
THEOREM PredictionsAreOfOneTunnel == MirrorSpec => []PredictionsTurnAround
<1>1. MirrorInv => PredictionsTurnAround
  <2> SUFFICES ASSUME MirrorInv, side = "far", TwoEnded(near.layers[1]),
                      Expect(near.layers).ok
               PROVE  LET n == Expect(near.layers)
                          f == Expect(file[1].layers)
                      IN /\ f.ok
                         /\ f.filter = n.filter
                         /\ {<<g.label, g.value>> : g \in f.facts} = FromAfar(n.facts)
    BY Zenon DEF PredictionsTurnAround, BothPrinted
  <2> DEFINE layers == near.layers
  <2>1. PICK tree \in Files : Len(tree) = 1 /\ layers = tree[1].layers
    BY DEF MirrorInv, Trees
  <2>2. HasTunnel(layers) /\ file[1].layers = PeerLayers(layers, inner)
    BY DEF MirrorInv, Trees
  <2>3. 1 \in 1..Len(tree)
    BY <2>1
  <2>4. IsSeq(layers) /\ \A j \in 1..Len(layers) : IsLayer(layers[j])
    BY <2>1, <2>3, LowerAssumption, MirrorAssumption, Zenon
  <2>5. "error" \notin {Src(layers[1]), Dst(layers[1])}
    BY OuterIsIP
  <2> HIDE DEF layers
  <2>6. TwoEnded(layers[1]) /\ Expect(layers).ok
    BY DEF layers
  <2>7. TwoSides(layers, PeerLayers(layers, inner))
    BY <2>2, <2>4, <2>5, <2>6, PeerIsOtherSide, Zenon
  <2>8. Len(layers) \in Nat /\ Len(layers) >= 2 /\ layers[2].name # ""
    BY <2>2, <2>4, SeqLength, Zenon DEF HasTunnel
  <2>9. LET n == Expect(layers)
            f == Expect(PeerLayers(layers, inner))
        IN f.ok /\ f.filter = n.filter /\ TurnsAround(n.facts, f.facts)
    BY <2>6, <2>7, <2>8, PredictionTurns, Zenon
  <2> QED BY <2>2, <2>9 DEF TurnsAround, Pairs, layers
<1> QED BY <1>1, MirrorInvariant, PTL

----------------------------------------------------------------------------
\* One end, tile by tile: where Cover and the Env stand, as a record, and what
\* the next tile makes of it.
Place(i, d, u, c) == [at |-> i, dev |-> d, used |-> u, count |-> c]

Underlay == Place(0, Root, {Root}, [p \in NamePrefixes |-> 0])

CandidatesAt(layers, i) ==
  {t \in TilesOf(Registry) : i < Len(layers) /\ Matches(t, layers, i)}

TileAt(layers, i) ==
  CHOOSE t \in CandidatesAt(layers, i) :
    \A u \in CandidatesAt(layers, i) \ {t} : Replaces(t, u)

SubAt(layers, p) == Slice(layers, p.at, p.at + Len(TileAt(layers, p.at).pattern))
AskAt(layers, p) == Naming(TileAt(layers, p.at), SubAt(layers, p), p.dev)

\* Alloc and Claim, with the names taken and the counters as parameters.
StopsIn(u, x, n) == ~validName(Name(x, n)) \/ Name(x, n) \notin u

FirstStopIn(u, c, x) ==
  CHOOSE n \in (c[x] + 1)..(c[x] + Cardinality(u) + 1) :
    /\ n > c[x]
    /\ StopsIn(u, x, n)
    /\ \A m \in (c[x] + 1)..(n - 1) : ~StopsIn(u, x, m)

AnswerIn(u, c, ask) ==
  IF ask.op = "claim" THEN ask.name ELSE Name(ask.prefix, FirstStopIn(u, c, ask.prefix))

CountIn(u, c, ask) ==
  IF ask.op = "claim" THEN c
                      ELSE [c EXCEPT ![ask.prefix] = FirstStopIn(u, c, ask.prefix)]

Nameable(u, c, ask) ==
  /\ validName(AnswerIn(u, c, ask))
  /\ ask.op = "claim" => ask.name \notin u

NameAt(layers, p) == AnswerIn(p.used, p.count, AskAt(layers, p))

CommandsAt(layers, p) ==
  Commands(TileAt(layers, p.at), SubAt(layers, p), NameAt(layers, p), p.dev)

\* A tile's Lower returns, without an error.
Passed(layers, p) ==
  /\ p.at \in Nat
  /\ TileAt(layers, p.at) \in CandidatesAt(layers, p.at)
  /\ Ready(TileAt(layers, p.at), SubAt(layers, p))
  /\ ReadyToEnter(TileAt(layers, p.at), SubAt(layers, p))
  /\ ReadyToReturn(TileAt(layers, p.at), SubAt(layers, p))
  /\ Nameable(p.used, p.count, AskAt(layers, p))

Turn(layers, p) ==
  Place(p.at + Len(TileAt(layers, p.at).pattern), NameAt(layers, p),
        p.used \cup {NameAt(layers, p)}, CountIn(p.used, p.count, AskAt(layers, p)))

Turns(layers, p, s, q, r) ==
  Passed(layers, p) /\ q = Turn(layers, p) /\ r = s \o CommandsAt(layers, p)

\* The places h and the scripts e after each of n tiles.
Walked(layers, h, e, n) ==
  /\ n \in Nat /\ h[0] = Underlay /\ e[0] = << >>
  /\ \A j \in 1..n : Turns(layers, h[j - 1], e[j - 1], h[j], e[j])

\* One more tile.
GoesOn(layers, h, e, n, g, d) ==
  /\ Walked(layers, g, d, n + 1)
  /\ g[n + 1] = Turn(layers, h[n])
  /\ d[n + 1] = e[n] \o CommandsAt(layers, h[n])

\* A tile that passes is one more.
LEMMA WalkedOn ==
  ASSUME NEW layers, NEW h, NEW e, NEW n, Walked(layers, h, e, n), Passed(layers, h[n])
  PROVE  \E g, d : GoesOn(layers, h, e, n, g, d)
<1> DEFINE q == Turn(layers, h[n])
           r == e[n] \o CommandsAt(layers, h[n])
           g == [j \in 0..(n + 1) |-> IF j = n + 1 THEN q ELSE h[j]]
           d == [j \in 0..(n + 1) |-> IF j = n + 1 THEN r ELSE e[j]]
<1>1. n \in Nat
  BY DEF Walked
<1> HIDE DEF q, r
<1>2. Turns(layers, h[n], e[n], q, r)
  BY DEF Turns, q, r
<1>3. /\ g[n + 1] = q /\ d[n + 1] = r
      /\ \A j \in 0..n : g[j] = h[j] /\ d[j] = e[j]
  BY <1>1
<1> HIDE DEF g, d
<1>4. ASSUME NEW j \in 1..(n + 1) PROVE Turns(layers, g[j - 1], d[j - 1], g[j], d[j])
  <2>1. CASE j = n + 1
    <3>1. j - 1 = n /\ n \in 0..n
      BY <1>1, <2>1
    <3>2. g[j - 1] = h[n] /\ d[j - 1] = e[n] /\ g[j] = q /\ d[j] = r
      BY <1>3, <2>1, <3>1
    <3> QED BY <1>2, <3>2, Zenon
  <2>2. CASE j # n + 1
    <3>1. j \in 1..n /\ j \in 0..n /\ j - 1 \in 0..n
      BY <1>1, <2>2
    <3>2. Turns(layers, h[j - 1], e[j - 1], h[j], e[j])
      BY <3>1, Zenon DEF Walked
    <3>3. g[j - 1] = h[j - 1] /\ d[j - 1] = e[j - 1] /\ g[j] = h[j] /\ d[j] = e[j]
      BY <1>3, <3>1
    <3> QED BY <3>2, <3>3, Zenon
  <2> QED BY <2>1, <2>2
<1>5. n + 1 \in Nat /\ 0 \in 0..n
  BY <1>1
<1>6. g[0] = Underlay /\ d[0] = << >>
  BY <1>3, <1>5 DEF Walked
<1>7. Walked(layers, g, d, n + 1)
  BY <1>4, <1>5, <1>6, Zenon DEF Walked
<1> QED BY <1>3, <1>7, Zenon DEF q, r, GoesOn

\* Two trees with the same layers, but for their ends.
Opposite(l, f) ==
  /\ IsSeq(l) /\ IsSeq(f) /\ Len(f) = Len(l)
  /\ \A j \in 1..Len(l) : SameButEnds(l[j], f[j])

\* The layers of a tile.
LEMMA SubIs ==
  ASSUME NEW layers, IsSeq(layers), NEW i \in Nat, NEW w \in Nat, i + w <= Len(layers)
  PROVE  /\ Len(Slice(layers, i, i + w)) = w
         /\ \A k \in 1..w : i + k \in 1..Len(layers) /\ Slice(layers, i, i + w)[k] = layers[i + k]
<1> DEFINE S == {layers[j] : j \in 1..Len(layers)}
<1>1. layers \in Seq(S)
  BY DEF IsSeq
<1> HIDE DEF S
<1>2. PICK m \in Nat : m = Len(layers)
  BY <1>1
<1>3. Len(SubSeq(layers, i + 1, i + w)) = w
  BY <1>1, <1>2, SubSeqProperties
<1>4. \A k \in 1..w : SubSeq(layers, i + 1, i + w)[k] = layers[i + k]
  BY <1>1, <1>2, SubSeqProperties
<1>5. \A k \in 1..w : i + k \in 1..m
  BY <1>2
<1> QED BY <1>2, <1>3, <1>4, <1>5 DEF Slice

\* No Linux tile has a guard.
LEMMA NilGuards ==
  \A t \in TilesOf(Registry) : t.guard = "nil"
<1>1. /\ IPIP.guard = "nil" /\ GRE.guard = "nil" /\ GRETAP.guard = "nil"
      /\ VXLAN.guard = "nil" /\ VLAN.guard = "nil" /\ WireGuard.guard = "nil"
  BY DEF IPIP, GRE, GRETAP, VXLAN, VLAN, WireGuard, LinuxTile
<1> QED BY <1>1, SixTiles, Zenon

\* The names of the layers decide which tiles match.
LEMMA SameCandidates ==
  ASSUME NEW l, NEW f, Opposite(l, f), NEW i \in Nat
  PROVE  CandidatesAt(f, i) = CandidatesAt(l, i)
<1>1. Len(f) = Len(l) /\ Len(l) \in Nat
  BY SeqLength DEF Opposite
<1>2. ASSUME NEW t \in TilesOf(Registry), i + Len(t.pattern) <= Len(l)
      PROVE  \A k \in 1..Len(t.pattern) : l[i + k].name = f[i + k].name
  <2>1. PICK w \in Nat, m \in Nat : w = Len(t.pattern) /\ m = Len(l)
    BY <1>1, SixTiles
  <2>2. \A k \in 1..w : i + k \in 1..m
    BY <1>2, <2>1
  <2>3. \A j \in 1..m : SameButEnds(l[j], f[j])
    BY <2>1 DEF Opposite
  <2>4. \A j \in 1..m : l[j].name = f[j].name
    BY <2>3 DEF SameButEnds
  <2> QED BY <2>1, <2>2, <2>4
<1>3. ASSUME NEW t \in TilesOf(Registry) PROVE Matches(t, f, i) <=> Matches(t, l, i)
  <2>1. \A s : Admits(t, s)
    BY NilGuards DEF Admits
  <2>2. CASE i + Len(t.pattern) <= Len(l)
    <3>1. \A k \in 1..Len(t.pattern) : l[i + k].name = f[i + k].name
      BY <1>2, <2>2, Zenon
    <3>2. i + Len(t.pattern) <= Len(f)
      BY <1>1, <2>2
    <3> QED BY <2>1, <2>2, <3>1, <3>2, Zenon DEF Matches
  <2>3. CASE ~(i + Len(t.pattern) <= Len(l))
    <3>1. ~(i + Len(t.pattern) <= Len(f))
      BY <1>1, <2>3
    <3> QED BY <2>3, <3>1, Zenon DEF Matches
  <2> QED BY <2>2, <2>3
<1>4. \A t \in TilesOf(Registry) :
        (i < Len(f) /\ Matches(t, f, i)) <=> (i < Len(l) /\ Matches(t, l, i))
  BY <1>1, <1>3, Zenon
<1> QED BY <1>4, Zenon DEF CandidatesAt

\* The patterns' lengths.
LEMMA PatternLengths ==
  /\ Len(IPIP.pattern) = 2 /\ Len(GRE.pattern) = 3 /\ Len(GRETAP.pattern) = 3
  /\ Len(VXLAN.pattern) = 4 /\ Len(VLAN.pattern) = 2 /\ Len(WireGuard.pattern) = 4
BY DEF IPIP, GRE, GRETAP, VXLAN, VLAN, WireGuard, LinuxTile

\* What is not an end is read alike.
LEMMA ReadAlike ==
  ASSUME NEW n, NEW f, SameButEnds(n, f)
  PROVE  /\ VNI(f) = VNI(n) /\ Key(f) = Key(n) /\ VLANID(f) = VLANID(n) /\ Peer(f) = Peer(n)
         /\ SrcPort(f) = SrcPort(n) /\ DstPort(f) = DstPort(n)
         /\ VNI(n) \in {"concrete", "dynamic"} => f.props.vni = n.props.vni
         /\ VLANID(n) = "concrete" => f.props.id = n.props.id
         /\ Key(n) = "concrete" => f.props.key = n.props.key
         /\ DstPort(n) = "concrete" => f.props.dst_port = n.props.dst_port
<1>1. ASSUME NEW key \in {"src_port", "dst_port", "vni", "key", "id", "peer"}, NEW type
      PROVE  Get(f, key, type) = Get(n, key, type)
  <2>1. (Lookup(f, key) <=> Lookup(n, key)) /\ (Lookup(n, key) => f.props[key] = n.props[key])
    BY <1>1 DEF SameButEnds
  <2>2. CASE Lookup(n, key)
    BY <2>1, <2>2 DEF Get
  <2>3. CASE ~Lookup(n, key)
    BY <2>1, <2>3 DEF Get
  <2> QED BY <2>2, <2>3
<1>2. \A key : \A type : Get(n, key, type) \in {"concrete", "dynamic"} => Lookup(n, key)
  BY DEF Get
<1>3. /\ Lookup(n, "vni") => f.props["vni"] = n.props["vni"]
      /\ Lookup(n, "id") => f.props["id"] = n.props["id"]
      /\ Lookup(n, "key") => f.props["key"] = n.props["key"]
      /\ Lookup(n, "dst_port") => f.props["dst_port"] = n.props["dst_port"]
  BY DEF SameButEnds
<1>4. /\ VNI(n) \in {"concrete", "dynamic"} => Lookup(n, "vni")
      /\ VLANID(n) = "concrete" => Lookup(n, "id")
      /\ Key(n) = "concrete" => Lookup(n, "key")
      /\ DstPort(n) = "concrete" => Lookup(n, "dst_port")
  BY <1>2 DEF VNI, VLANID, Key, DstPort
<1>5. /\ VNI(f) = VNI(n) /\ Key(f) = Key(n) /\ VLANID(f) = VLANID(n) /\ Peer(f) = Peer(n)
      /\ SrcPort(f) = SrcPort(n) /\ DstPort(f) = DstPort(n)
  BY <1>1 DEF VNI, VLANID, Key, Peer, SrcPort, DstPort
<1> QED BY <1>3, <1>4, <1>5

\* Layers of one tile at the two ends.
SubsOpposite(t, x, y) == \A k \in 1..Len(t.pattern) : SameButEnds(x[k], y[k])

\* A tile asks for the same name at both ends.
LEMMA SameAsk ==
  ASSUME NEW t \in TilesOf(Registry), NEW x, NEW y, SubsOpposite(t, x, y),
         Ready(t, x), NEW under
  PROVE  Naming(t, y, under) = Naming(t, x, under)
<1>1. CASE t = VLAN
  <2>1. 2 \in 1..Len(t.pattern)
    BY <1>1, PatternLengths
  <2>2. SameButEnds(x[2], y[2])
    BY <2>1 DEF SubsOpposite
  <2>3. VLANID(x[2]) = "concrete"
    BY <1>1, SixTiles DEF Ready, ReadyVLAN
  <2>4. y[2].props.id = x[2].props.id
    BY <2>2, <2>3, ReadAlike
  <2> QED BY <1>1, <2>4, SixTiles DEF Naming
<1>2. CASE t = VXLAN
  <2>1. 3 \in 1..Len(t.pattern)
    BY <1>2, PatternLengths
  <2>2. SameButEnds(x[3], y[3])
    BY <2>1 DEF SubsOpposite
  <2>3. VNI(x[3]) \in {"concrete", "dynamic"}
    BY <1>2, SixTiles DEF Ready, ReadyVXLAN
  <2>4. y[3].props.vni = x[3].props.vni /\ VNI(y[3]) = VNI(x[3])
    BY <2>2, <2>3, ReadAlike
  <2> QED BY <1>2, <2>4, SixTiles DEF Naming
<1>3. CASE t \in {IPIP, GRE, GRETAP, WireGuard}
  BY <1>3, SixTiles DEF Naming
<1> QED BY <1>1, <1>2, <1>3, SixTiles

\* Where a tile stands at both ends.
LEMMA SamePick ==
  ASSUME NEW l, NEW f, Opposite(l, f), NEW p, Passed(l, p)
  PROVE  /\ TileAt(f, p.at) = TileAt(l, p.at)
         /\ TileAt(l, p.at) \in TilesOf(Registry)
         /\ SubsOpposite(TileAt(l, p.at), SubAt(l, p), SubAt(f, p))
         /\ \A k \in 1..Len(TileAt(l, p.at).pattern) :
              /\ p.at + k \in 1..Len(l)
              /\ SubAt(l, p)[k] = l[p.at + k] /\ SubAt(f, p)[k] = f[p.at + k]
              /\ l[p.at + k].name = TileAt(l, p.at).pattern[k]
<1> PICK i : i = p.at
  OBVIOUS
<1> PICK t : t = TileAt(l, i)
  OBVIOUS
<1>1. i \in Nat /\ t \in CandidatesAt(l, i)
  BY DEF Passed
<1>2. TileAt(f, i) = t
  <2>1. CandidatesAt(f, i) = CandidatesAt(l, i)
    BY <1>1, SameCandidates
  <2> QED BY <2>1 DEF TileAt
<1>3. t \in TilesOf(Registry) /\ Matches(t, l, i)
  BY <1>1 DEF CandidatesAt
<1>4. PICK w \in Nat : w = Len(t.pattern)
  BY <1>3, SixTiles
<1>5. i + w <= Len(l) /\ \A k \in 1..w : l[i + k].name = t.pattern[k]
  BY <1>3, <1>4 DEF Matches
<1>6. IsSeq(l) /\ IsSeq(f) /\ Len(f) = Len(l)
  BY DEF Opposite
<1>7. \A k \in 1..w : i + k \in 1..Len(l) /\ Slice(l, i, i + w)[k] = l[i + k]
  BY <1>1, <1>5, <1>6, SubIs
<1>8. \A k \in 1..w : Slice(f, i, i + w)[k] = f[i + k]
  BY <1>1, <1>5, <1>6, SubIs
<1>9. SubAt(l, p) = Slice(l, i, i + w) /\ SubAt(f, p) = Slice(f, i, i + w)
  BY <1>2, <1>4 DEF SubAt
<1>10. \A j \in 1..Len(l) : SameButEnds(l[j], f[j])
  BY DEF Opposite
<1>11. SubsOpposite(t, SubAt(l, p), SubAt(f, p))
  <2> SUFFICES ASSUME NEW k \in 1..w PROVE SameButEnds(SubAt(l, p)[k], SubAt(f, p)[k])
    BY <1>4 DEF SubsOpposite
  <2>1. SubAt(l, p)[k] = l[i + k] /\ SubAt(f, p)[k] = f[i + k] /\ i + k \in 1..Len(l)
    BY <1>7, <1>8, <1>9, Zenon
  <2> QED BY <1>10, <2>1, Zenon
<1> QED BY <1>2, <1>3, <1>4, <1>5, <1>7, <1>8, <1>9, <1>11, Zenon

\* A tile that passes at one end moves both ends alike.
LEMMA SameTurn ==
  ASSUME NEW l, NEW f, Opposite(l, f), NEW p, Passed(l, p)
  PROVE  AskAt(f, p) = AskAt(l, p) /\ NameAt(f, p) = NameAt(l, p) /\ Turn(f, p) = Turn(l, p)
<1>1. /\ TileAt(f, p.at) = TileAt(l, p.at)
      /\ TileAt(l, p.at) \in TilesOf(Registry)
      /\ SubsOpposite(TileAt(l, p.at), SubAt(l, p), SubAt(f, p))
  BY SamePick
<1>2. Ready(TileAt(l, p.at), SubAt(l, p))
  BY DEF Passed
<1>3. Naming(TileAt(l, p.at), SubAt(f, p), p.dev) = Naming(TileAt(l, p.at), SubAt(l, p), p.dev)
  BY <1>1, <1>2, SameAsk
<1>4. AskAt(f, p) = AskAt(l, p)
  BY <1>1, <1>3, Zenon DEF AskAt
<1>5. NameAt(f, p) = NameAt(l, p)
  BY <1>4, Zenon DEF NameAt
<1> QED BY <1>1, <1>4, <1>5, Zenon DEF Turn

\* The two ends take the same steps.
LEMMA SamePath ==
  ASSUME NEW l, NEW f, Opposite(l, f),
         NEW h, NEW e, NEW n, Walked(l, h, e, n),
         NEW g, NEW d, NEW m, Walked(f, g, d, m)
  PROVE  \A k \in 0..n : k \in 0..m => g[k] = h[k]
<1>1. n \in Nat /\ m \in Nat
  BY DEF Walked
<1>2. g[0] = h[0]
  BY DEF Walked
<1>3. ASSUME NEW k \in 1..n, k \in 1..m, g[k - 1] = h[k - 1] PROVE g[k] = h[k]
  <2>1. Passed(l, h[k - 1]) /\ h[k] = Turn(l, h[k - 1])
    BY <1>3 DEF Walked, Turns
  <2>2. g[k] = Turn(f, g[k - 1])
    BY <1>3 DEF Walked, Turns
  <2>3. Turn(f, h[k - 1]) = Turn(l, h[k - 1])
    BY <2>1, SameTurn
  <2> QED BY <1>3, <2>1, <2>2, <2>3, Zenon
<1> DEFINE T == {k \in 1..n : k \in 1..m => g[k] = h[k]}
<1>4. CASE n = 0
  BY <1>1, <1>2, <1>4
<1>5. CASE n # 0
  <2>1. 1 \in T
    <3>1. 1 \in 1..n /\ 1 - 1 = 0
      BY <1>1, <1>5
    <3> QED BY <1>2, <1>3, <3>1
  <2>2. ASSUME NEW k \in 2..n, k - 1 \in T PROVE k \in T
    <3>1. k \in 1..n /\ k - 1 \in 1..n
      BY <1>1
    <3>2. k \in 1..m => k - 1 \in 1..m
      BY <1>1
    <3> QED BY <1>3, <2>2, <3>1, <3>2
  <2>3. \A k \in 1..n : k \in T
    <3> HIDE DEF T
    <3> QED BY <1>1, <2>1, <2>2, UpFromOne
  <2>4. \A k \in 0..n : k \in 0..m => k = 0 \/ (k \in 1..n /\ k \in 1..m)
    BY <1>1
  <2> QED BY <1>2, <2>3, <2>4
<1> QED BY <1>4, <1>5

\* Values that every parser of an end takes alike.
ReadsLike(v, w) ==
  \/ w = v
  \/ v # Star /\ w # Star /\ w.kind = v.kind /\ v.kind \in {"addr", "prefix"}

\* Does f read like n, its ends included?
SameReadings(n, f) ==
  /\ SameButEnds(n, f)
  /\ \A key \in {"src", "dst"} :
       /\ Lookup(f, key) <=> Lookup(n, key)
       /\ Lookup(n, key) => ReadsLike(n.props[key], f.props[key])

\* How such layers are read.
LEMMA EndsReadAlike ==
  ASSUME NEW n, NEW f, SameReadings(n, f)
  PROVE  /\ Src(f) = Src(n) /\ Dst(f) = Dst(n) /\ SrcPrefix(f) = SrcPrefix(n)
         /\ readEndpoint(f, "src") = readEndpoint(n, "src")
         /\ readEndpoint(f, "dst") = readEndpoint(n, "dst")
         /\ CarriesAddress(f) = CarriesAddress(n)
         /\ AddressOfFails(f) = AddressOfFails(n)
<1>1. ASSUME NEW key \in {"src", "dst"}, NEW type \in {"addr", "prefix"}
      PROVE  Get(f, key, type) = Get(n, key, type)
  <2>1. /\ Lookup(f, key) <=> Lookup(n, key)
        /\ Lookup(n, key) => ReadsLike(n.props[key], f.props[key])
    BY <1>1 DEF SameReadings
  <2>2. CASE Lookup(n, key)
    <3>1. CASE f.props[key] = n.props[key]
      BY <2>1, <2>2, <3>1 DEF Get
    <3>2. CASE f.props[key] # n.props[key]
      <4>1. /\ n.props[key] # Star /\ f.props[key] # Star
            /\ f.props[key].kind = n.props[key].kind
        BY <2>1, <2>2, <3>2 DEF ReadsLike
      <4>2. Parses(type, f.props[key]) = Parses(type, n.props[key])
        BY <4>1 DEF Parses, ParseAddr, ParsePrefix
      <4> QED BY <2>1, <2>2, <4>1, <4>2 DEF Get
    <3> QED BY <3>1, <3>2
  <2>3. CASE ~Lookup(n, key)
    BY <2>1, <2>3 DEF Get
  <2> QED BY <2>2, <2>3
<1>2. ASSUME NEW key \in {"src", "dst"} PROVE readEndpoint(f, key) = readEndpoint(n, key)
  <2>1. /\ Lookup(f, key) <=> Lookup(n, key)
        /\ Lookup(n, key) => ReadsLike(n.props[key], f.props[key])
    BY <1>2 DEF SameReadings
  <2>2. Lookup(n, key) => (f.props[key].kind = "prefix" <=> n.props[key].kind = "prefix")
    BY <2>1 DEF ReadsLike
  <2>3. Get(f, key, "addr") = Get(n, key, "addr") /\ Get(f, key, "prefix") = Get(n, key, "prefix")
    BY <1>1, <1>2
  <2> QED BY <2>1, <2>2, <2>3 DEF readEndpoint
<1>3. Src(f) = Src(n) /\ Dst(f) = Dst(n) /\ SrcPrefix(f) = SrcPrefix(n)
  BY <1>1 DEF Src, Dst, SrcPrefix
<1>4. f.name = n.name
  BY DEF SameReadings, SameButEnds
<1> QED BY <1>2, <1>3, <1>4 DEF CarriesAddress, AddressOfFails

\* What one tile checks, it finds at both ends.
LEMMA ReadyAlike ==
  ASSUME NEW t \in TilesOf(Registry), NEW x, NEW y,
         \A k \in 1..Len(t.pattern) : SameReadings(x[k], y[k]),
         Ready(t, x), ReadyToEnter(t, x), Len(x) = Len(t.pattern), Len(y) = Len(t.pattern),
         ReadyToReturn(t, x)
  PROVE  Ready(t, y) /\ ReadyToEnter(t, y) /\ ReadyToReturn(t, y)
<1>1. ASSUME NEW k \in 1..Len(t.pattern)
      PROVE  /\ Src(y[k]) = Src(x[k]) /\ Dst(y[k]) = Dst(x[k]) /\ SrcPrefix(y[k]) = SrcPrefix(x[k])
             /\ readEndpoint(y[k], "src") = readEndpoint(x[k], "src")
             /\ readEndpoint(y[k], "dst") = readEndpoint(x[k], "dst")
             /\ AddressOfFails(y[k]) = AddressOfFails(x[k])
             /\ VNI(y[k]) = VNI(x[k]) /\ Key(y[k]) = Key(x[k]) /\ VLANID(y[k]) = VLANID(x[k])
             /\ Peer(y[k]) = Peer(x[k])
             /\ SrcPort(y[k]) = SrcPort(x[k]) /\ DstPort(y[k]) = DstPort(x[k])
  <2>1. SameReadings(x[k], y[k])
    OBVIOUS
  <2>2. SameButEnds(x[k], y[k])
    BY <2>1 DEF SameReadings
  <2> QED BY <2>1, <2>2, EndsReadAlike, ReadAlike
<1>2. CASE t = IPIP
  <2>1. Len(t.pattern) = 2 /\ 1 \in 1..Len(t.pattern) /\ 2 \in 1..Len(t.pattern)
    BY <1>2, PatternLengths
  <2>2. Last(x) = x[2] /\ Last(y) = y[2]
    BY <2>1 DEF Last
  <2>3. Src(x[1]) = "concrete" /\ Dst(x[1]) = "concrete" /\ ~AddressOfFails(x[2])
    BY <1>2, <2>2, SixTiles DEF Ready, ReadyToReturn, endpoints
  <2>4. Src(y[1]) = "concrete" /\ Dst(y[1]) = "concrete" /\ ~AddressOfFails(y[2])
    BY <1>1, <2>1, <2>3, Zenon
  <2> QED BY <1>2, <2>2, <2>4, SixTiles DEF Ready, ReadyToEnter, ReadyToReturn, endpoints
<1>3. CASE t = GRE
  <2>1. Len(t.pattern) = 3 /\ 1 \in 1..Len(t.pattern) /\ 2 \in 1..Len(t.pattern) /\ 3 \in 1..Len(t.pattern)
    BY <1>3, PatternLengths
  <2>2. Last(x) = x[3] /\ Last(y) = y[3]
    BY <2>1 DEF Last
  <2>3. /\ Src(x[1]) = "concrete" /\ Dst(x[1]) = "concrete" /\ ~AddressOfFails(x[3])
        /\ Key(x[2]) # "error"
    BY <1>3, <2>2, SixTiles DEF Ready, ReadyToEnter, ReadyToReturn, endpoints
  <2>4. /\ Src(y[1]) = "concrete" /\ Dst(y[1]) = "concrete" /\ ~AddressOfFails(y[3])
        /\ Key(y[2]) # "error"
    BY <1>1, <2>1, <2>3, Zenon
  <2> QED BY <1>3, <2>2, <2>4, SixTiles DEF Ready, ReadyToEnter, ReadyToReturn, endpoints
<1>4. CASE t = GRETAP
  <2>1. 1 \in 1..Len(t.pattern) /\ 2 \in 1..Len(t.pattern)
    BY <1>4, PatternLengths
  <2>2. Src(x[1]) = "concrete" /\ Dst(x[1]) = "concrete" /\ Key(x[2]) # "error"
    BY <1>4, SixTiles DEF Ready, ReadyToEnter, endpoints
  <2>3. Src(y[1]) = "concrete" /\ Dst(y[1]) = "concrete" /\ Key(y[2]) # "error"
    BY <1>1, <2>1, <2>2, Zenon
  <2> QED BY <1>4, <2>3, SixTiles DEF Ready, ReadyToEnter, ReadyToReturn, endpoints
<1>5. CASE t = VXLAN
  <2>1. 1 \in 1..Len(t.pattern) /\ 2 \in 1..Len(t.pattern) /\ 3 \in 1..Len(t.pattern)
    BY <1>5, PatternLengths
  <2>2. ReadyVXLAN(x[1], x[2], x[3])
    BY <1>5, SixTiles DEF Ready
  <2>3. ReadyVXLAN(y[1], y[2], y[3])
    BY <1>1, <2>1, <2>2, Zenon DEF ReadyVXLAN
  <2> QED BY <1>5, <2>3, SixTiles DEF Ready, ReadyToEnter, ReadyToReturn
<1>6. CASE t = VLAN
  <2>1. 2 \in 1..Len(t.pattern)
    BY <1>6, PatternLengths
  <2>2. VLANID(x[2]) = "concrete"
    BY <1>6, SixTiles DEF Ready, ReadyVLAN
  <2>3. VLANID(y[2]) = "concrete"
    BY <1>1, <2>1, <2>2, Zenon
  <2> QED BY <1>6, <2>3, SixTiles DEF Ready, ReadyVLAN, ReadyToEnter, ReadyToReturn
<1>7. CASE t = WireGuard
  <2>1. /\ Len(t.pattern) = 4 /\ 1 \in 1..Len(t.pattern) /\ 2 \in 1..Len(t.pattern)
        /\ 3 \in 1..Len(t.pattern) /\ 4 \in 1..Len(t.pattern)
    BY <1>7, PatternLengths
  <2>2. Last(x) = x[4] /\ Last(y) = y[4]
    BY <2>1 DEF Last
  <2>3. ReadyWireGuard(x[1], x[2], x[3], x[4]) /\ ~AddressOfFails(x[4])
    BY <1>7, <2>2, SixTiles DEF Ready, ReadyToReturn
  <2>4. ReadyWireGuard(y[1], y[2], y[3], y[4]) /\ ~AddressOfFails(y[4])
    BY <1>1, <2>1, <2>3, Zenon DEF ReadyWireGuard
  <2> QED BY <1>7, <2>2, <2>4, SixTiles DEF Ready, ReadyToEnter, ReadyToReturn
<1> QED BY <1>2, <1>3, <1>4, <1>5, <1>6, <1>7, SixTiles

\* Nothing but addresses that fit is turned around, and the innermost address, if
\* there is one, is told.
WellTold(layers, v) ==
  /\ \A j \in 1..Len(layers) : IsLayer(layers[j]) /\ RawLayer(layers[j])
  /\ \A j \in 1..Len(layers) :
       TwoEnded(layers[j]) =>
         /\ \A key \in {"src", "dst"} : layers[j].props[key].kind \in {"addr", "prefix"}
         /\ LengthFits(layers[j].props.dst, LengthOf(layers[j].props.src))
         /\ LengthFits(layers[j].props.src, LengthOf(layers[j].props.dst))
  /\ v = NoInner => innermostAddressed(TurnedAround(layers)) = {}
  /\ v # NoInner => v.kind = "prefix"

\* rebuild keeps the kind of the value it replaces.
LEMMA RebuildReads ==
  ASSUME NEW v, NEW w, v.kind \in {"addr", "prefix"}, w.kind \in {"addr", "prefix"}, IsRaw(v),
         LengthFits(w, LengthOf(v))
  PROVE  ReadsLike(v, rebuild(w, LengthOf(v)))
<1>1. Star.kind = "star" /\ \A x, b : Addr(x).kind = "addr" /\ Prefix(x, b).kind = "prefix"
  BY DEF Star, Addr, Prefix
<1>2. rebuild(w, LengthOf(v)) = IF LengthOf(v) = NoLength THEN Addr(w.addr) ELSE Prefix(w.addr, LengthOf(v))
  <2> PICK length : length = LengthOf(v)
    OBVIOUS
  <2>1. LengthFits(w, length) /\ w.kind # "star"
    OBVIOUS
  <2>2. rebuild(w, length) = IF length = NoLength THEN Addr(w.addr) ELSE Prefix(w.addr, length)
    BY <2>1 DEF rebuild, WithLength
  <2> QED BY <2>2
<1>3. CASE v.kind = "addr"
  <2>1. rebuild(w, LengthOf(v)).kind = "addr"
    BY <1>1, <1>2, <1>3 DEF LengthOf
  <2> QED BY <1>1, <1>3, <2>1 DEF ReadsLike
<1>4. CASE v.kind = "prefix"
  <2>1. LengthOf(v) # NoLength
    BY <1>4 DEF LengthOf, NoLength, IsRaw
  <2>2. rebuild(w, LengthOf(v)).kind = "prefix"
    BY <1>1, <1>2, <2>1
  <2> QED BY <1>1, <1>4, <2>2 DEF ReadsLike
<1> QED BY <1>3, <1>4

\* The address of a layer replaced, and dropped.
LEMMA SourceSet ==
  ASSUME NEW n, IsLayer(n), Lookup(n, "src"), NEW v
  PROVE  /\ DOMAIN setProp(n, "src", v).props = DOMAIN n.props
         /\ setProp(n, "src", v).props.src = v
         /\ Lookup(n, "dst") => setProp(n, "src", v).props.dst = n.props.dst
<1> DEFINE q == [n.props EXCEPT !["src"] = v]
<1>1. setProp(n, "src", v) = Layer(n.name, q)
  BY DEF IsLayer, Layer, setProp
<1>2. /\ DOMAIN q = DOMAIN n.props /\ q.src = v
      /\ Lookup(n, "dst") => q.dst = n.props.dst
  BY DEF IsLayer, Lookup
<1> HIDE DEF q
<1> QED BY <1>1, <1>2 DEF Layer

\* A layer that carries an address has it as its :src.
LEMMA CarriedAddress ==
  ASSUME NEW n, CarriesAddress(n)
  PROVE  Lookup(n, "src") /\ n.props.src # Star /\ n.props.src.kind = "prefix"
<1>1. Get(n, "src", "prefix") = "concrete"
  BY DEF CarriesAddress, SrcPrefix
<1>2. Lookup(n, "src")
  BY <1>1 DEF Get
<1>3. n.props["src"] # Star
  BY <1>1, <1>2 DEF Get
<1>4. Parses("prefix", n.props["src"])
  BY <1>1, <1>2, <1>3 DEF Get
<1> QED BY <1>2, <1>3, <1>4 DEF Parses, ParsePrefix

\* Then the far tree reads like the near one.
LEMMA PeerReads ==
  ASSUME NEW layers, NEW v, WellTold(layers, v), NEW j \in 1..Len(layers)
  PROVE  SameReadings(layers[j], PeerLayers(layers, v)[j])
<1> DEFINE n == layers[j]
           turned == TurnedAround(layers)
           t == turned[j]
           f == PeerLayers(layers, v)[j]
           I == innermostAddressed(turned)
<1>1. IsLayer(n) /\ RawLayer(n)
  BY DEF WellTold
<1>2. t = IF TwoEnded(n) THEN swapEndpoints(n) ELSE n
  BY DEF TurnedAround
<1>3. f = IF j \notin I THEN t ELSE IF v = NoInner THEN removeProp(t, "src") ELSE setProp(t, "src", v)
  BY DEF PeerLayers
<1>4. SameButEnds(n, f)
  BY <1>1, PeerKeepsTheRest
<1>5. TwoEnded(n) =>
        /\ n.props["src"].kind \in {"addr", "prefix"} /\ n.props["dst"].kind \in {"addr", "prefix"}
        /\ LengthFits(n.props.dst, LengthOf(n.props.src)) /\ LengthFits(n.props.src, LengthOf(n.props.dst))
  BY DEF WellTold
<1>6. j \in I => CarriesAddress(t) /\ v.kind = "prefix"
  <2>1. j \in I => v # NoInner
    BY DEF WellTold
  <2>2. j \in I => CarriesAddress(t)
    BY DEF innermostAddressed
  <2> QED BY <2>1, <2>2 DEF WellTold
<1>7. j \in I => f = setProp(t, "src", v)
  <2>1. j \in I => v # NoInner
    BY DEF WellTold
  <2> QED BY <1>3, <2>1
<1>8. j \notin I => f = t
  BY <1>3
<1> HIDE DEF n, turned, t, f, I
<1>9. IsLayer(t) /\ SameReadings(n, t)
  <2>1. CASE TwoEnded(n)
    <3>1. /\ IsLayer(t) /\ DOMAIN t.props = DOMAIN n.props
          /\ t.props.src = rebuild(n.props.dst, LengthOf(n.props.src))
          /\ t.props.dst = rebuild(n.props.src, LengthOf(n.props.dst))
          /\ SameButEnds(n, t)
      BY <1>1, <1>2, <2>1, SwapEndpoints
    <3>2. "src" \in DOMAIN n.props /\ "dst" \in DOMAIN n.props
      BY <2>1 DEF TwoEnded, Lookup
    <3>3. IsRaw(n.props["src"]) /\ IsRaw(n.props["dst"])
      BY <1>1, <3>2 DEF RawLayer
    <3>4. ReadsLike(n.props["src"], t.props["src"]) /\ ReadsLike(n.props["dst"], t.props["dst"])
      BY <1>5, <2>1, <3>1, <3>3, RebuildReads
    <3> QED BY <3>1, <3>2, <3>4 DEF SameReadings, Lookup
  <2>2. CASE ~TwoEnded(n)
    <3>1. t = n /\ IsLayer(t)
      BY <1>1, <1>2, <2>2
    <3>2. SameReadings(n, n)
      BY DEF SameReadings, SameButEnds, ReadsLike
    <3> QED BY <3>1, <3>2
  <2> QED BY <2>1, <2>2
<1>10. ASSUME j \notin I PROVE SameReadings(n, f)
  BY <1>8, <1>9, <1>10
<1>11. ASSUME j \in I PROVE SameReadings(n, f)
  <2>1. Lookup(t, "src") /\ t.props.src # Star /\ t.props.src.kind = "prefix"
    BY <1>6, <1>11, CarriedAddress
  <2>2. /\ DOMAIN f.props = DOMAIN t.props /\ f.props.src = v
        /\ Lookup(t, "dst") => f.props.dst = t.props.dst
    BY <1>7, <1>9, <1>11, <2>1, SourceSet
  <2>3. /\ Lookup(t, "src") <=> Lookup(n, "src")
        /\ Lookup(t, "dst") <=> Lookup(n, "dst")
        /\ ReadsLike(n.props["src"], t.props["src"])
        /\ Lookup(n, "dst") => ReadsLike(n.props["dst"], t.props["dst"])
    BY <1>9, <2>1 DEF SameReadings
  <2>4. n.props["src"] # Star /\ n.props["src"].kind = "prefix"
    BY <2>1, <2>3 DEF ReadsLike
  <2>5. Star.kind = "star"
    BY DEF Star
  <2>6. v # Star /\ v.kind = "prefix"
    BY <1>6, <1>11, <2>5
  <2>7. ReadsLike(n.props["src"], f.props["src"])
    BY <2>2, <2>4, <2>6 DEF ReadsLike
  <2>8. Lookup(n, "dst") => ReadsLike(n.props["dst"], f.props["dst"])
    BY <2>2, <2>3
  <2>9. (Lookup(f, "src") <=> Lookup(n, "src")) /\ (Lookup(f, "dst") <=> Lookup(n, "dst"))
    BY <2>2, <2>3 DEF Lookup
  <2> QED BY <1>4, <2>3, <2>7, <2>8, <2>9 DEF SameReadings
<1>12. SameReadings(n, f)
  BY <1>10, <1>11
<1> QED BY <1>12 DEF n, f

\* Where the one end's Lower passes, the other's does.
LEMMA PassAlike ==
  ASSUME NEW l, NEW f, Opposite(l, f), \A j \in 1..Len(l) : SameReadings(l[j], f[j]),
         NEW p, Passed(l, p)
  PROVE  Passed(f, p)
<1> PICK t : t = TileAt(l, p.at)
  OBVIOUS
<1> PICK x, y : x = SubAt(l, p) /\ y = SubAt(f, p)
  OBVIOUS
<1>1. /\ p.at \in Nat /\ t \in CandidatesAt(l, p.at)
      /\ Ready(t, x) /\ ReadyToEnter(t, x) /\ ReadyToReturn(t, x)
      /\ Nameable(p.used, p.count, AskAt(l, p))
  BY DEF Passed
<1>2. /\ TileAt(f, p.at) = t /\ t \in TilesOf(Registry)
      /\ \A k \in 1..Len(t.pattern) :
           p.at + k \in 1..Len(l) /\ x[k] = l[p.at + k] /\ y[k] = f[p.at + k]
  BY SamePick
<1>3. Len(x) = Len(t.pattern) /\ Len(y) = Len(t.pattern)
  <2>1. PICK w \in Nat : w = Len(t.pattern)
    BY <1>2, SixTiles
  <2>2. p.at + w <= Len(l)
    BY <1>1, <2>1 DEF CandidatesAt, Matches
  <2>3. IsSeq(l) /\ IsSeq(f) /\ Len(f) = Len(l)
    BY DEF Opposite
  <2>4. Len(Slice(l, p.at, p.at + w)) = w /\ Len(Slice(f, p.at, p.at + w)) = w
    BY <1>1, <2>2, <2>3, SubIs
  <2> QED BY <1>2, <2>1, <2>4 DEF SubAt
<1>4. \A k \in 1..Len(t.pattern) : SameReadings(x[k], y[k])
  BY <1>2, Zenon
<1>5. Ready(t, y) /\ ReadyToEnter(t, y) /\ ReadyToReturn(t, y)
  BY <1>1, <1>2, <1>3, <1>4, ReadyAlike
<1>6. AskAt(f, p) = AskAt(l, p)
  BY SameTurn
<1>7. CandidatesAt(f, p.at) = CandidatesAt(l, p.at)
  BY <1>1, SameCandidates
<1> QED BY <1>1, <1>2, <1>5, <1>6, <1>7, Zenon DEF Passed

\* The end of Cover: nothing matches, and the next layer, if there is one, may
\* carry an address for the device in hand.
EndsAt(layers, p) ==
  /\ p.at \in 0..Len(layers) /\ p.at > 0
  /\ CandidatesAt(layers, p.at) = {}
  /\ p.at < Len(layers) => ~AddressOfFails(layers[p.at + 1])

LastOf(layers, p) ==
  IF p.at < Len(layers) THEN addrOn(layers[p.at + 1], p.dev) ELSE << >>

OnlyUps(u) == IsSeq(u) /\ \A j \in 1..Len(u) : u[j].op = "up"

\* A rule that was lowered to its end, by the steps h and e.
CompletedBy(layers, s, h, e, n, u) ==
  /\ Walked(layers, h, e, n) /\ EndsAt(layers, h[n]) /\ OnlyUps(u)
  /\ s = (e[n] \o LastOf(layers, h[n])) \o u

Completed(layers, s) == \E h, e, n, u : CompletedBy(layers, s, h, e, n, u)

\* The other end has a tile left where this end had one, and none where this end
\* had none.
LEMMA SameNumber ==
  ASSUME NEW l, NEW f, Opposite(l, f),
         NEW h, NEW e, NEW n, Walked(l, h, e, n), EndsAt(l, h[n]),
         NEW g, NEW d, NEW m, Walked(f, g, d, m)
  PROVE  /\ n \in Nat /\ m \in 0..n /\ g[m] = h[m]
         /\ CandidatesAt(f, g[m].at) = {} <=> m = n
         /\ m # n => Passed(l, h[m])
<1>1. n \in Nat /\ m \in Nat
  BY DEF Walked
<1>2. \A k \in 0..n : k \in 0..m => g[k] = h[k]
  BY SamePath
<1>3. h[n].at \in Nat /\ CandidatesAt(l, h[n].at) = {}
  BY SeqLength DEF EndsAt, Opposite
<1>4. CandidatesAt(f, h[n].at) = {}
  BY <1>3, SameCandidates
<1>5. m <= n
  <2> SUFFICES ASSUME n < m PROVE FALSE
    BY <1>1
  <2>1. n \in 0..n /\ n \in 0..m /\ n + 1 \in 1..m /\ (n + 1) - 1 = n
    BY <1>1
  <2>2. g[n] = h[n]
    BY <1>2, <2>1
  <2>3. Turns(f, g[(n + 1) - 1], d[(n + 1) - 1], g[n + 1], d[n + 1])
    BY <2>1, Zenon DEF Walked
  <2>4. Passed(f, g[n])
    BY <2>1, <2>3 DEF Turns
  <2> QED BY <1>4, <2>2, <2>4 DEF Passed
<1>6. m \in 0..n /\ m \in 0..m
  BY <1>1, <1>5
<1>7. g[m] = h[m]
  BY <1>2, <1>6
<1>8. ASSUME m # n PROVE Passed(l, h[m]) /\ CandidatesAt(f, h[m].at) # {}
  <2>1. m + 1 \in 1..n /\ (m + 1) - 1 = m
    BY <1>1, <1>5, <1>8
  <2>2. Turns(l, h[(m + 1) - 1], e[(m + 1) - 1], h[m + 1], e[m + 1])
    BY <2>1, Zenon DEF Walked
  <2>3. Passed(l, h[m])
    BY <2>1, <2>2 DEF Turns
  <2>4. h[m].at \in Nat /\ CandidatesAt(l, h[m].at) # {}
    BY <2>3 DEF Passed
  <2> QED BY <2>3, <2>4, SameCandidates
<1> QED BY <1>1, <1>4, <1>6, <1>7, <1>8

----------------------------------------------------------------------------
\* The invariant.

\* Where Cover and the Env stand.
Here == Place(at, dev, used, count)

\* The rule in hand was lowered tile by tile.
InSteps(layers) ==
  \E h, e, n : Walked(layers, h, e, n) /\ h[n] = Here /\ e[n] = script

FollowInv ==
  /\ MirrorInv
  /\ phase \in {"read", "rule"} /\ rule = 1 =>
       dev = Root /\ used = {Root} /\ count = [p \in NamePrefixes |-> 0]
  /\ phase = "cover" => InSteps(sp)
  /\ phase = "done" => rule > 1
  /\ phase \in {"rule", "done"} /\ rule > 1 => Completed(file[1].layers, out[1].script)
  /\ inner \in PeerInners
  /\ side = "far" =>
       /\ phase # "read"
       /\ inner # NoInner => ParsePrefix(inner)
       /\ missing = PeerMissing(near.layers, inner)
       /\ Completed(near.layers, near.script)
  /\ FarEndLowers

\* NewRegistry accepts the six tiles.
LEMMA LinuxAccepted == Accepted(Registry)
<1>1. /\ Len(Registry) = 6
      /\ Registry[1] = IPIP /\ Registry[2] = GRE /\ Registry[3] = GRETAP
      /\ Registry[4] = VXLAN /\ Registry[5] = VLAN /\ Registry[6] = WireGuard
  BY DEF Registry
<1>2. \A j \in 1..6 : j = 1 \/ j = 2 \/ j = 3 \/ j = 4 \/ j = 5 \/ j = 6
  OBVIOUS
<1>3. /\ IPIP.lower /\ GRE.lower /\ GRETAP.lower /\ VXLAN.lower /\ VLAN.lower /\ WireGuard.lower
  BY DEF IPIP, GRE, GRETAP, VXLAN, VLAN, WireGuard, LinuxTile
<1>4. /\ IPIP.pattern[2] = "ipv4" /\ GRE.pattern[2] = "gre" /\ GRETAP.pattern[2] = "gre"
      /\ VXLAN.pattern[2] = "udp" /\ VLAN.pattern[2] = "vlan" /\ WireGuard.pattern[2] = "udp"
      /\ GRE.pattern[3] = "ipv4" /\ GRETAP.pattern[3] = "ethernet"
      /\ VXLAN.pattern[3] = "vxlan" /\ WireGuard.pattern[3] = "wireguard"
  BY DEF IPIP, GRE, GRETAP, VXLAN, VLAN, WireGuard, LinuxTile
<1>5. \A j \in 1..6 : Registry[j].pattern # << >> /\ Registry[j].lower
  <2>1. Len(<< >>) = 0
    OBVIOUS
  <2>2. /\ IPIP.pattern # << >> /\ GRE.pattern # << >> /\ GRETAP.pattern # << >>
        /\ VXLAN.pattern # << >> /\ VLAN.pattern # << >> /\ WireGuard.pattern # << >>
    BY <2>1, PatternLengths
  <2> QED BY <1>1, <1>2, <1>3, <2>2, Zenon
<1>6. \A j, k \in 1..6 : Registry[j].pattern = Registry[k].pattern => j = k
  BY <1>1, <1>2, <1>4
<1> QED BY <1>1, <1>5, <1>6, Zenon DEF Accepted

\* The pick is the tile of this place.
LEMMA PickIs ==
  ASSUME NEW t \in Picks
  PROVE  phase = "cover" /\ t \in CandidatesAt(sp, at) /\ t = TileAt(sp, at)
<1>1. phase = "cover"
  BY DEF Picks
<1>2. Candidates = CandidatesAt(sp, at)
  BY DEF Candidates, CandidatesAt
<1>3. t \in CandidatesAt(sp, at) /\ \A u \in CandidatesAt(sp, at) \ {t} : Replaces(t, u)
  BY <1>1, <1>2 DEF Picks
<1>4. PICK u : u = TileAt(sp, at)
  OBVIOUS
<1>5. u \in CandidatesAt(sp, at) /\ \A v \in CandidatesAt(sp, at) \ {u} : Replaces(u, v)
  BY <1>3, <1>4 DEF TileAt
<1>6. t = u
  <2> SUFFICES ASSUME t # u PROVE FALSE
    OBVIOUS
  <2>1. Replaces(t, u) /\ Replaces(u, t)
    BY <1>3, <1>5
  <2>2. t \in TilesOf(Registry) /\ u \in TilesOf(Registry)
    BY <1>3, <1>5 DEF CandidatesAt
  <2>3. \A v \in TilesOf(Registry) : v.priority = 0
    <3>1. /\ IPIP.priority = 0 /\ GRE.priority = 0 /\ GRETAP.priority = 0
          /\ VXLAN.priority = 0 /\ VLAN.priority = 0 /\ WireGuard.priority = 0
      BY DEF IPIP, GRE, GRETAP, VXLAN, VLAN, WireGuard, LinuxTile
    <3> QED BY <3>1, SixTiles, Zenon
  <2>4. t.priority = 0 /\ u.priority = 0 /\ Len(t.pattern) \in Nat /\ Len(u.pattern) \in Nat
    BY <2>2, <2>3, SixTiles
  <2> QED BY <2>1, <2>4 DEF Replaces
<1> QED BY <1>1, <1>3, <1>4, <1>6

\* Claim and Alloc, read off the names taken and the counters.
LEMMA NamedIs ==
  ASSUME NEW ask, ask.op = "claim" \/ (ask.op = "alloc" /\ ask.prefix \in NamePrefixes)
  PROVE  /\ Answer(ask) = AnswerIn(used, count, ask)
         /\ Named(ask) => /\ Nameable(used, count, ask)
                          /\ used' = used \cup {AnswerIn(used, count, ask)}
                          /\ count' = CountIn(used, count, ask)
         /\ NotNamed(ask) => ~Nameable(used, count, ask)
<1>1. \A x : FirstStop(x) = FirstStopIn(used, count, x)
  BY Zenon DEF FirstStop, FirstStopIn, StopsAt, Stops, StopsIn
<1>2. CASE ask.op = "claim"
  BY <1>2 DEF Answer, AnswerIn, CountIn, Nameable, Named, NotNamed, Claim, Free
<1>3. CASE ask.op = "alloc"
  <2> PICK x : x = FirstStop(ask.prefix)
    OBVIOUS
  <2>1. x = FirstStopIn(used, count, ask.prefix)
    BY <1>1
  <2> HIDE DEF StopsAt
  <2>2. Answer(ask) = Name(ask.prefix, x) /\ AnswerIn(used, count, ask) = Name(ask.prefix, x)
    BY <1>3, <2>1 DEF Answer, AnswerIn
  <2>3. CountIn(used, count, ask) = [count EXCEPT ![ask.prefix] = x]
    BY <1>3, <2>1 DEF CountIn
  <2>4. Nameable(used, count, ask) <=> validName(Name(ask.prefix, x))
    BY <1>3, <2>2 DEF Nameable
  <2>5. Named(ask) => Alloc(ask.prefix, x)
    BY <1>3 DEF Named
  <2>6. NotNamed(ask) => AllocFails(ask.prefix, x)
    BY <1>3 DEF NotNamed
  <2> QED BY <2>2, <2>3, <2>4, <2>5, <2>6 DEF Alloc, AllocFails
<1> QED BY <1>2, <1>3

\* A turn of Cover's loop is the turn of this place, or it fails because the tile
\* does not pass.
LEMMA TileTurns ==
  ASSUME LowerInv, NEW t \in Picks, LowerTile(t)
  PROVE  \/ Abort /\ ~Passed(sp, Here)
         \/ /\ Passed(sp, Here)
            /\ Here' = Turn(sp, Here)
            /\ script' = script \o CommandsAt(sp, Here)
            /\ UNCHANGED <<file, rule, phase, out>>
<1> DEFINE sub  == Slice(sp, at, at + Len(t.pattern))
           ask  == Naming(t, sub, dev)
           name == Answer(ask)
<1>1. phase = "cover" /\ t \in CandidatesAt(sp, at) /\ t = TileAt(sp, at)
  BY PickIs
<1>2. t \in TilesOf(Registry) /\ at \in Nat
  <2>1. at \in 0..Len(sp)
    BY <1>1 DEF LowerInv, TypeOK
  <2>2. at \in Nat
    BY <2>1
  <2> QED BY <1>1, <2>2 DEF CandidatesAt
<1>3. Here.at = at /\ Here.dev = dev /\ Here.used = used /\ Here.count = count
  BY DEF Here, Place
<1>4. SubAt(sp, Here) = sub /\ AskAt(sp, Here) = ask
  BY <1>1, <1>3, Zenon DEF SubAt, AskAt
<1>5. ask.op = "claim" \/ (ask.op = "alloc" /\ ask.prefix \in NamePrefixes)
  BY <1>2, NamingAsks
<1>6. \/ ~Ready(t, sub) /\ Abort
      \/ Ready(t, sub) /\ NotNamed(ask) /\ Abort
      \/ Ready(t, sub) /\ Named(ask) /\ ~ReadyToEnter(t, sub) /\ Abort
      \/ Ready(t, sub) /\ Named(ask) /\ ReadyToEnter(t, sub) /\ ~ReadyToReturn(t, sub) /\ Abort
      \/ /\ Ready(t, sub) /\ Named(ask) /\ ReadyToEnter(t, sub) /\ ReadyToReturn(t, sub)
         /\ Enter(name)
         /\ script' = script \o Commands(t, sub, name, dev)
         /\ at' = at + Len(t.pattern)
         /\ UNCHANGED <<file, rule, phase, out>>
  BY Zenon DEF LowerTile
<1> HIDE DEF sub, ask, name
<1>7. Passed(sp, Here) <=> /\ Ready(t, sub) /\ ReadyToEnter(t, sub) /\ ReadyToReturn(t, sub)
                           /\ Nameable(used, count, ask)
  BY <1>1, <1>2, <1>3, <1>4, Zenon DEF Passed
<1>8. /\ name = AnswerIn(used, count, ask)
      /\ Named(ask) => /\ Nameable(used, count, ask)
                       /\ used' = used \cup {name} /\ count' = CountIn(used, count, ask)
      /\ NotNamed(ask) => ~Nameable(used, count, ask)
  BY <1>5, NamedIs, Zenon DEF name
<1>9. NameAt(sp, Here) = name
  BY <1>3, <1>4, <1>8, Zenon DEF NameAt
<1>10. CASE Abort /\ ~Passed(sp, Here)
  BY <1>10
<1>11. CASE /\ Ready(t, sub) /\ Named(ask) /\ ReadyToEnter(t, sub) /\ ReadyToReturn(t, sub)
            /\ Enter(name)
            /\ script' = script \o Commands(t, sub, name, dev)
            /\ at' = at + Len(t.pattern)
            /\ UNCHANGED <<file, rule, phase, out>>
  <2>1. Passed(sp, Here)
    BY <1>7, <1>8, <1>11, Zenon
  <2>2. CommandsAt(sp, Here) = Commands(t, sub, name, dev)
    BY <1>1, <1>3, <1>4, <1>9, Zenon DEF CommandsAt
  <2>3. dev' = name
    BY <1>11 DEF Enter
  <2>4. Turn(sp, Here) = Place(at + Len(t.pattern), name, used \cup {name}, CountIn(used, count, ask))
    BY <1>1, <1>3, <1>4, <1>9, Zenon DEF Turn
  <2>5. Here' = Place(at', dev', used', count')
    BY DEF Here, Place
  <2>6. Here' = Turn(sp, Here)
    BY <1>8, <1>11, <2>3, <2>4, <2>5, Zenon
  <2> QED BY <1>11, <2>1, <2>2, <2>6, Zenon
<1> QED BY <1>6, <1>7, <1>8, <1>10, <1>11, Zenon

\* The near tree was read from a file.
LEMMA NearIsRead ==
  ASSUME MirrorInv, side = "far"
  PROVE  /\ IsSeq(near.layers)
         /\ \A j \in 1..Len(near.layers) : IsLayer(near.layers[j]) /\ RawLayer(near.layers[j])
         /\ Len(file) = 1 /\ file[1].defect = "none"
         /\ file[1].layers = PeerLayers(near.layers, inner)
<1>1. PICK tree \in Files : Len(tree) = 1 /\ near.layers = tree[1].layers
  BY DEF MirrorInv, Trees
<1>2. 1 \in 1..Len(tree)
  BY <1>1
<1>3. IsSeq(near.layers) /\ \A j \in 1..Len(near.layers) : IsLayer(near.layers[j])
  BY <1>1, <1>2, LowerAssumption, MirrorAssumption, Zenon
<1>4. \A j \in 1..Len(near.layers) : RawLayer(near.layers[j])
  BY <1>1, <1>2, RawAssumption, Zenon DEF RawLayer
<1>5. file = <<[defect |-> "none", layers |-> PeerLayers(near.layers, inner)]>>
  BY DEF MirrorInv, Trees
<1>6. Len(file) = 1 /\ file[1].defect = "none" /\ file[1].layers = PeerLayers(near.layers, inner)
  BY <1>5
<1> QED BY <1>3, <1>4, <1>6

\* The far tree has the near one's layers, but for their ends.
LEMMA FarIsOpposite ==
  ASSUME MirrorInv, side = "far"
  PROVE  Opposite(near.layers, file[1].layers)
<1>1. /\ IsSeq(near.layers)
      /\ \A j \in 1..Len(near.layers) : IsLayer(near.layers[j])
      /\ file[1].layers = PeerLayers(near.layers, inner)
  BY NearIsRead
<1>2. /\ IsSeq(PeerLayers(near.layers, inner))
      /\ Len(PeerLayers(near.layers, inner)) = Len(near.layers)
  BY <1>1, PeerLayersIsSeq
<1>3. \A j \in 1..Len(near.layers) : SameButEnds(near.layers[j], PeerLayers(near.layers, inner)[j])
  BY <1>1, PeerKeepsTheRest, Zenon
<1> QED BY <1>1, <1>2, <1>3, Zenon DEF Opposite

\* With addresses on both ends, and nothing missing of the innermost one, the far
\* tree reads like the near one.
LEMMA FarReads ==
  ASSUME FollowInv, side = "far", EndsAreAddresses, "inner" \notin missing
  PROVE  \A j \in 1..Len(near.layers) : SameReadings(near.layers[j], file[1].layers[j])
<1>1. /\ \A j \in 1..Len(near.layers) : IsLayer(near.layers[j]) /\ RawLayer(near.layers[j])
      /\ file[1].layers = PeerLayers(near.layers, inner)
  BY NearIsRead DEF FollowInv
<1>2. missing = PeerMissing(near.layers, inner) /\ (inner # NoInner => ParsePrefix(inner))
  BY DEF FollowInv
<1>3. inner = NoInner => innermostAddressed(TurnedAround(near.layers)) = {}
  BY <1>2 DEF PeerMissing
<1>4. WellTold(near.layers, inner)
  <2>1. ASSUME NEW j \in 1..Len(near.layers), TwoEnded(near.layers[j])
        PROVE  /\ \A key \in {"src", "dst"} : near.layers[j].props[key].kind \in {"addr", "prefix"}
               /\ LengthFits(near.layers[j].props.dst, LengthOf(near.layers[j].props.src))
               /\ LengthFits(near.layers[j].props.src, LengthOf(near.layers[j].props.dst))
    BY <2>1, Zenon DEF EndsAreAddresses
  <2> QED BY <1>1, <1>2, <1>3, <2>1 DEF WellTold, ParsePrefix
<1> QED BY <1>1, <1>4, PeerReads, Zenon

\* The far end does not fail where the near end did not.
LEMMA FarPasses ==
  ASSUME FollowInv, side = "far", phase = "cover", EndsAreAddresses, "inner" \notin missing
  PROVE  /\ Candidates # {} => Passed(sp, Here)
         /\ Candidates = {} /\ at < Len(sp) => ~AddressOfFails(sp[at + 1])
<1> PICK l, f : l = near.layers /\ f = sp
  OBVIOUS
<1>1. MirrorInv /\ f = file[1].layers
  BY DEF FollowInv, MirrorInv, NearEnd, sp
<1>2. Opposite(l, f)
  BY <1>1, FarIsOpposite
<1>3. \A j \in 1..Len(l) : SameReadings(l[j], f[j])
  BY <1>1, FarReads, Zenon
<1>4. Completed(l, near.script) /\ InSteps(f)
  BY DEF FollowInv
<1>5. PICK h, e, n : Walked(l, h, e, n) /\ EndsAt(l, h[n])
  BY <1>4, Zenon DEF Completed, CompletedBy
<1>6. PICK g, d, m : Walked(f, g, d, m) /\ g[m] = Here
  BY <1>4, Zenon DEF InSteps
<1>7. /\ g[m] = h[m] /\ (CandidatesAt(f, g[m].at) = {} <=> m = n)
      /\ m # n => Passed(l, h[m])
  BY <1>2, <1>5, <1>6, SameNumber
<1>8. Candidates = CandidatesAt(f, at) /\ Here.at = at
  BY DEF Candidates, CandidatesAt, Here, Place
<1>9. ASSUME Candidates # {} PROVE Passed(f, Here)
  <2>1. Passed(l, h[m])
    BY <1>6, <1>7, <1>8, <1>9
  <2> QED BY <1>2, <1>3, <1>6, <1>7, <2>1, PassAlike
<1>10. ASSUME Candidates = {}, at < Len(f) PROVE ~AddressOfFails(f[at + 1])
  <2>1. m = n /\ h[n].at = at
    BY <1>6, <1>7, <1>8, <1>10
  <2>2. Len(f) = Len(l) /\ Len(l) \in Nat
    BY <1>2, SeqLength DEF Opposite
  <2>3. at \in 0..Len(l) /\ (at < Len(l) => ~AddressOfFails(l[at + 1]))
    BY <1>5, <2>1 DEF EndsAt
  <2>4. at + 1 \in 1..Len(l) /\ at < Len(l)
    BY <1>10, <2>2, <2>3
  <2>5. SameReadings(l[at + 1], f[at + 1])
    BY <1>3, <2>4
  <2>6. AddressOfFails(f[at + 1]) = AddressOfFails(l[at + 1])
    BY <2>5, EndsReadAlike
  <2> QED BY <2>3, <2>4, <2>6
<1> QED BY <1>9, <1>10

\* Where the near end had a tile first, the far end has.
LEMMA FarBegins ==
  ASSUME FollowInv, side = "far", phase = "cover", at = 0
  PROVE  Candidates # {}
<1> PICK l, f : l = near.layers /\ f = sp
  OBVIOUS
<1>1. MirrorInv /\ f = file[1].layers
  BY DEF FollowInv, MirrorInv, NearEnd, sp
<1>2. Opposite(l, f)
  BY <1>1, FarIsOpposite
<1>3. Completed(l, near.script) /\ InSteps(f)
  BY DEF FollowInv
<1>4. PICK h, e, n : Walked(l, h, e, n) /\ EndsAt(l, h[n])
  BY <1>3, Zenon DEF Completed, CompletedBy
<1>5. PICK g, d, m : Walked(f, g, d, m) /\ g[m] = Here
  BY <1>3, Zenon DEF InSteps
<1>6. g[m] = h[m] /\ (CandidatesAt(f, g[m].at) = {} <=> m = n)
  BY <1>2, <1>4, <1>5, SameNumber
<1>7. Candidates = CandidatesAt(f, at) /\ Here.at = at
  BY DEF Candidates, CandidatesAt, Here, Place
<1> SUFFICES ASSUME Candidates = {} PROVE FALSE
  OBVIOUS
<1>8. h[n].at = 0
  BY <1>5, <1>6, <1>7
<1> QED BY <1>4, <1>8 DEF EndsAt

\* What stays as long as the tree does.
LEMMA NearKept ==
  ASSUME FollowInv, UNCHANGED mirrorVars, phase' # "read"
  PROVE  /\ inner' \in PeerInners
         /\ side' = "far" =>
              /\ phase' # "read"
              /\ inner' # NoInner => ParsePrefix(inner')
              /\ missing' = PeerMissing(near'.layers, inner')
              /\ Completed(near'.layers, near'.script)
BY DEF FollowInv, mirrorVars

\* A step on which the program fails.
LEMMA FailureKept ==
  ASSUME FollowInv, MirrorInv', UNCHANGED mirrorVars, Abort,
         side = "far" /\ EndsAreAddresses => missing # {}
  PROVE  FollowInv'
<1>1. phase' = "failed"
  BY DEF Abort
<1>2. FarEndLowers'
  BY DEF FarEndLowers, EndsAreAddresses, mirrorVars
<1> QED BY <1>1, <1>2, NearKept DEF FollowInv

\* It holds before the file is read.
LEMMA FollowInit == MirrorInit => FollowInv
<1> SUFFICES ASSUME MirrorInit PROVE FollowInv
  OBVIOUS
<1>1. MirrorInv
  BY MirrorInitially
<1>2. /\ dev = Root /\ used = {Root} /\ count = [p \in NamePrefixes |-> 0]
      /\ phase = "read" /\ side = "near" /\ inner \in PeerInners
  BY DEF MirrorInit, Init, EnvInit
<1> QED BY <1>1, <1>2 DEF FollowInv, FarEndLowers

\* The start of a rule.
LEMMA StartFollows ==
  ASSUME FollowInv, StartRule, UNCHANGED mirrorVars, MirrorInv'
  PROVE  FollowInv'
<1>1. MirrorInv /\ LowerInv /\ NearEnd
  BY DEF FollowInv, MirrorInv
<1>2. CASE Abort
  <2>1. ASSUME side = "far" PROVE FALSE
    <3>1. phase = "rule" /\ rule <= Len(file) /\ phase' = "failed"
      BY <1>2 DEF StartRule, Abort
    <3>2. file[rule].defect # "none" \/ ~Accepted(Registry)
      BY <3>1 DEF StartRule
    <3>3. Len(file) = 1 /\ rule \in 1..(Len(file) + 1)
      BY <1>1, <3>1, Lengths DEF NearEnd
    <3>4. rule = 1
      BY <3>1, <3>3
    <3> QED BY <1>1, <2>1, <3>2, <3>4, LinuxAccepted, NearIsRead
  <2> QED BY <1>2, <2>1, FailureKept
<1>3. CASE ~Abort
  <2>1. /\ phase = "rule" /\ rule <= Len(file) /\ phase' = "cover" /\ at' = 0
        /\ script' = << >> /\ dev' = Root /\ UNCHANGED <<file, rule, used, count>>
    BY <1>3 DEF StartRule, Reset
  <2>2. Len(file) = 1 /\ rule \in 1..(Len(file) + 1)
    BY <1>1, <2>1, Lengths DEF NearEnd
  <2>3. rule = 1
    BY <2>1, <2>2
  <2>4. used = {Root} /\ count = [p \in NamePrefixes |-> 0]
    BY <2>1, <2>3 DEF FollowInv
  <2>5. Here' = Underlay
    <3>1. Here' = Place(at', dev', used', count')
      BY DEF Here, Place
    <3> QED BY <2>1, <2>4, <3>1 DEF Underlay
  <2>6. InSteps(sp)'
    <3> DEFINE h == [j \in {0} |-> Underlay]
               e == [j \in {0} |-> << >>]
    <3>1. h[0] = Underlay /\ e[0] = << >> /\ 1..0 = {} /\ 0 \in Nat
      OBVIOUS
    <3> HIDE DEF h, e
    <3>2. Walked(sp', h, e, 0)
      BY <3>1 DEF Walked
    <3> QED BY <2>1, <2>5, <3>1, <3>2 DEF InSteps
  <2>7. FarEndLowers'
    BY <2>1 DEF FarEndLowers
  <2> QED BY <2>1, <2>6, <2>7, NearKept DEF FollowInv
<1> QED BY <1>2, <1>3

\* A turn of Cover's loop.
LEMMA TileFollows ==
  ASSUME FollowInv, NEW t \in Picks, LowerTile(t), UNCHANGED mirrorVars, MirrorInv'
  PROVE  FollowInv'
<1>1. LowerInv /\ phase = "cover" /\ InSteps(sp)
  BY DEF FollowInv, MirrorInv, LowerTile
<1>2. \/ Abort /\ ~Passed(sp, Here)
      \/ /\ Passed(sp, Here)
         /\ Here' = Turn(sp, Here)
         /\ script' = script \o CommandsAt(sp, Here)
         /\ UNCHANGED <<file, rule, phase, out>>
  BY <1>1, TileTurns
<1>3. CASE Abort /\ ~Passed(sp, Here)
  <2>1. Candidates # {}
    BY DEF Picks
  <2>2. ASSUME side = "far", EndsAreAddresses, missing = {} PROVE FALSE
    <3>1. "inner" \notin missing
      BY <2>2
    <3> QED BY <1>1, <1>3, <2>1, <2>2, <3>1, FarPasses
  <2> QED BY <1>3, <2>2, FailureKept
<1>4. CASE /\ Passed(sp, Here)
           /\ Here' = Turn(sp, Here)
           /\ script' = script \o CommandsAt(sp, Here)
           /\ UNCHANGED <<file, rule, phase, out>>
  <2>1. PICK h, e, n : Walked(sp, h, e, n) /\ h[n] = Here /\ e[n] = script
    BY <1>1, Zenon DEF InSteps
  <2>2. Passed(sp, h[n])
    BY <1>4, <2>1, Zenon
  <2>3. PICK g, d : GoesOn(sp, h, e, n, g, d)
    BY <2>1, <2>2, WalkedOn, Zenon
  <2>4. /\ Walked(sp, g, d, n + 1)
        /\ g[n + 1] = Turn(sp, h[n])
        /\ d[n + 1] = e[n] \o CommandsAt(sp, h[n])
    BY <2>3, Zenon DEF GoesOn
  <2>5. g[n + 1] = Here' /\ d[n + 1] = script' /\ sp' = sp
    BY <1>4, <2>1, <2>4 DEF sp
  <2>6. InSteps(sp)'
    BY <2>4, <2>5, Zenon DEF InSteps
  <2>7. FarEndLowers' /\ phase' = "cover"
    BY <1>1, <1>4 DEF FarEndLowers
  <2> QED BY <2>6, <2>7, NearKept DEF FollowInv
<1> QED BY <1>2, <1>3, <1>4

\* The end of a rule.
LEMMA EndFollows ==
  ASSUME FollowInv, FinishRule, UNCHANGED mirrorVars, MirrorInv'
  PROVE  FollowInv'
<1> DEFINE rest == Slice(sp, at, Len(sp))
<1>1. LowerInv /\ phase = "cover" /\ InSteps(sp) /\ rule = 1 /\ Candidates = {} /\ at > 0
  BY DEF FollowInv, MirrorInv, NearEnd, FinishRule
<1>2. at \in 0..Len(sp) /\ IsSeq(sp) /\ Len(sp) \in Nat /\ rule \in 1..Len(file)
  <2>1. rule \in 1..Len(file)
    <3>1. rule <= Len(file)
      BY <1>1 DEF LowerInv, Shape
    <3> QED BY <1>1, <3>1, Lengths
  <2>2. IsSeq(sp)
    BY <1>1, <2>1 DEF LowerInv, Shape, sp
  <2>3. at \in 0..Len(sp)
    BY <1>1 DEF LowerInv, TypeOK
  <2> QED BY <2>1, <2>2, <2>3, SeqLength
<1>3. IF at < Len(sp) THEN rest # << >> /\ rest[1] = sp[at + 1] ELSE rest = << >>
  <2>1. PICK i \in Nat, w \in Nat : i = at /\ i + w = Len(sp)
    <3>1. Len(sp) - at \in Nat /\ at + (Len(sp) - at) = Len(sp) /\ at \in Nat
      BY <1>2
    <3> QED BY <3>1
  <2>2. Len(rest) = w /\ \A k \in 1..w : rest[k] = sp[i + k]
    <3> HIDE DEF sp
    <3>1. i + w <= Len(sp)
      BY <1>2, <2>1
    <3> QED BY <1>2, <2>1, <3>1, SubIs
  <2>3. rest \in Seq({sp[j] : j \in 1..Len(sp)})
    BY <1>2, SubSeqProperties DEF IsSeq, Slice
  <2> HIDE DEF rest, sp
  <2>4. CASE w = 0
    BY <1>2, <2>1, <2>2, <2>3, <2>4
  <2>5. CASE w # 0
    <3>1. at < Len(sp) /\ 1 \in 1..w
      BY <1>2, <2>1, <2>5
    <3>2. rest # << >>
      BY <2>2, <2>5
    <3> QED BY <2>1, <2>2, <3>1, <3>2
  <2> QED BY <2>4, <2>5
<1>4. LeftoverAddress(rest) = LastOf(sp, Here)
  <2>1. Here.at = at /\ Here.dev = dev
    BY DEF Here, Place
  <2> QED BY <1>3, <2>1 DEF LeftoverAddress, LastOf
<1>5. CASE rest # << >> /\ AddressOfFails(rest[1])
  <2>1. Abort
    BY <1>5 DEF FinishRule
  <2>2. at < Len(sp) /\ AddressOfFails(sp[at + 1])
    BY <1>3, <1>5
  <2>3. ASSUME side = "far", EndsAreAddresses, missing = {} PROVE FALSE
    <3>1. "inner" \notin missing
      BY <2>3
    <3> QED BY <1>1, <2>2, <2>3, <3>1, FarPasses
  <2> QED BY <2>1, <2>3, FailureKept
<1>6. CASE ~(rest # << >> /\ AddressOfFails(rest[1]))
  <2>1. /\ out' = Append(out, [script  |-> script \o LeftoverAddress(rest) \o BringUp,
                               applied |-> applied,
                               payload |-> IF LeftoverAddress(rest) = << >> THEN rest ELSE Tail(rest)])
        /\ rule' = rule + 1 /\ phase' = "rule" /\ UNCHANGED file
    BY <1>6 DEF FinishRule
  <2>2. Len(out) = 0 /\ IsSeq(out)
    <3>1. Len(out) = rule - 1
      BY <1>1 DEF LowerInv, TypeOK
    <3> QED BY <1>1, <3>1 DEF LowerInv, Shape
  <2>3. out'[1].script = (script \o LastOf(sp, Here)) \o BringUp
    <3> DEFINE r == [script  |-> script \o LeftoverAddress(rest) \o BringUp,
                     applied |-> applied,
                     payload |-> IF LeftoverAddress(rest) = << >> THEN rest ELSE Tail(rest)]
    <3>1. r.script = (script \o LastOf(sp, Here)) \o BringUp
      BY <1>4
    <3>2. out' = Append(out, r)
      BY <2>1
    <3> HIDE DEF r
    <3>3. out'[Len(out) + 1] = r
      BY <2>2, <3>2, AppendIsSeq
    <3> QED BY <2>2, <3>1, <3>3
  <2>4. OnlyUps(BringUp)
    <3>1. base \in 0..Len(created) /\ Len(created) \in Nat
      BY <1>1, Lengths
    <3>2. PICK k \in Nat : k = Len(created) - base
      BY <3>1
    <3>3. BringUp = [j \in 1..k |-> SetUp(created[base + j])]
      BY <3>2 DEF BringUp
    <3>4. \A x : SetUp(x).op = "up"
      BY DEF SetUp
    <3> DEFINE S == {SetUp(created[base + j]) : j \in 1..k}
    <3>5. BringUp \in [1..k -> S]
      BY <3>3
    <3>6. \A x \in S : x.op = "up"
      BY <3>4
    <3> HIDE DEF S
    <3>7. BringUp \in Seq(S) /\ Len(BringUp) = k
      BY <3>5, FcnIsSeq
    <3>8. IsSeq(BringUp)
      BY <3>7, SeqIsSeq
    <3> QED BY <3>5, <3>6, <3>7, <3>8 DEF OnlyUps
  <2>5. EndsAt(sp, Here)
    <3>1. Here.at = at /\ Candidates = CandidatesAt(sp, at)
      BY DEF Here, Place, Candidates, CandidatesAt
    <3> QED BY <1>1, <1>2, <1>3, <1>6, <3>1 DEF EndsAt
  <2>6. Completed(sp, out'[1].script)
    <3>1. PICK h, e, n : Walked(sp, h, e, n) /\ h[n] = Here /\ e[n] = script
      BY <1>1, Zenon DEF InSteps
    <3>2. CompletedBy(sp, out'[1].script, h, e, n, BringUp)
      BY <2>3, <2>4, <2>5, <3>1, Zenon DEF CompletedBy
    <3> QED BY <3>2, Zenon DEF Completed
  <2>7. Completed(file'[1].layers, out'[1].script)
    BY <1>1, <2>1, <2>6 DEF sp
  <2>8. FarEndLowers'
    BY <2>1 DEF FarEndLowers
  <2>9. rule' # 1 /\ phase' = "rule"
    BY <1>1, <2>1
  <2> QED BY <2>7, <2>8, <2>9, NearKept DEF FollowInv
<1> QED BY <1>5, <1>6

\* Peer, and the far end's new Env.
LEMMA PeerFollows ==
  ASSUME FollowInv, MirrorPeer, MirrorInv'
  PROVE  FollowInv'
<1>1. MirrorInv /\ phase = "rule" /\ rule > Len(file) /\ side = "near" /\ Len(file) = 1
  BY DEF FollowInv, MirrorInv, NearEnd, MirrorPeer
<1>2. CASE PeerRefuses
  <2>1. Abort /\ UNCHANGED mirrorVars
    BY <1>2 DEF MirrorPeer
  <2> QED BY <1>1, <2>1, FailureKept
<1>3. CASE ~PeerRefuses
  <2> DEFINE layers == file[1].layers
             rec    == [layers |-> layers, script |-> out[1].script, applied |-> out[1].applied]
  <2>1. /\ near' = rec /\ missing' = PeerMissing(layers, inner)
        /\ side' = "far" /\ rule' = 1 /\ dev' = Root /\ used' = {Root}
        /\ count' = [p \in NamePrefixes |-> 0]
        /\ UNCHANGED <<phase, inner>>
    BY <1>3 DEF MirrorPeer
  <2>2. near'.layers = layers /\ near'.script = out[1].script
    BY <2>1
  <2>3. rule > 1
    BY <1>1, Lengths DEF MirrorInv
  <2>4. Completed(near'.layers, near'.script)
    BY <1>1, <2>2, <2>3 DEF FollowInv
  <2>5. inner \in PeerInners /\ (inner # NoInner => ParsePrefix(inner))
    BY <1>3 DEF FollowInv, PeerRefuses
  <2>6. FarEndLowers'
    BY <1>1, <2>1 DEF FarEndLowers
  <2> HIDE DEF layers, rec
  <2>7. missing' = PeerMissing(near'.layers, inner')
    BY <2>1, <2>2
  <2> QED BY <1>1, <2>1, <2>4, <2>5, <2>6, <2>7 DEF FollowInv
<1> QED BY <1>2, <1>3

\* Every step keeps it.
LEMMA FollowStep == FollowInv /\ [MirrorNext]_allVars => FollowInv'
<1> SUFFICES ASSUME FollowInv, [MirrorNext]_allVars PROVE FollowInv'
  OBVIOUS
<1>1. MirrorInv
  BY DEF FollowInv
<1>2. MirrorInv'
  BY <1>1, MirrorStep
<1>3. CASE ReadTree
  <2>1. UNCHANGED <<mirrorVars, envVars>> /\ phase = "read"
    BY <1>3 DEF ReadTree, ReadTrees
  <2>2. side # "far"
    BY <2>1 DEF FollowInv
  <2>3. CASE Abort
    BY <1>2, <2>1, <2>2, <2>3, FailureKept
  <2>4. CASE ~Abort
    <3>1. phase' = "rule" /\ UNCHANGED <<file, rule, out>>
      BY <1>3, <2>4 DEF ReadTree, ReadTrees
    <3>2. rule = 1
      BY <1>1, <2>1 DEF MirrorInv, NearEnd
    <3>3. FarEndLowers'
      BY <3>1 DEF FarEndLowers
    <3> QED BY <1>2, <2>1, <3>1, <3>2, <3>3, NearKept DEF FollowInv, envVars
  <2> QED BY <2>3, <2>4
<1>4. CASE Render
  <2>1. UNCHANGED mirrorVars
    BY <1>4 DEF Render
  <2>2. CASE StartRule
    BY <1>2, <2>1, <2>2, StartFollows
  <2>3. ASSUME NEW t \in Picks, LowerTile(t) PROVE FollowInv'
    BY <1>2, <2>1, <2>3, TileFollows
  <2>4. CASE NoLowering
    <3>1. Abort /\ phase = "cover" /\ at = 0 /\ Candidates = {}
      BY <2>4 DEF NoLowering
    <3>2. side # "far"
      BY <3>1, FarBegins
    <3> QED BY <1>2, <2>1, <3>1, <3>2, FailureKept
  <2>5. CASE FinishRule
    BY <1>2, <2>1, <2>5, EndFollows
  <2> QED BY <1>4, <2>2, <2>3, <2>4, <2>5 DEF Render
<1>5. CASE MirrorPeer
  BY <1>2, <1>5, PeerFollows
<1>6. CASE FarPrinted
  <2>1. UNCHANGED <<mirrorVars, file, rule, out>> /\ phase = "rule" /\ phase' = "done"
    BY <1>6 DEF FarPrinted, EndOfFile
  <2>2. FarEndLowers'
    BY <2>1 DEF FarEndLowers
  <2>3. rule > 1
    <3>1. rule > Len(file)
      BY <1>6 DEF FarPrinted, EndOfFile
    <3>2. Len(file) = 1
      BY <2>1 DEF FollowInv, MirrorInv, NearEnd
    <3> QED BY <3>1, <3>2
  <2> QED BY <1>2, <2>1, <2>2, <2>3, NearKept DEF FollowInv
<1>7. CASE UNCHANGED allVars
  <2>1. UNCHANGED <<dev, used, count, file, rule, phase, at, script, out, side, inner, near, missing>>
    BY <1>7 DEF allVars
  <2>2. sp' = sp /\ Here' = Here
    BY <2>1 DEF sp, Here, Place
  <2>3. InSteps(sp)' = InSteps(sp)
    BY <2>1, <2>2 DEF InSteps
  <2>4. FarEndLowers' = FarEndLowers
    BY <2>1 DEF FarEndLowers, EndsAreAddresses
  <2> QED BY <1>2, <2>1, <2>3, <2>4 DEF FollowInv
<1>8. CASE Terminated /\ UNCHANGED mirrorVars
  BY <1>7, <1>8 DEF Terminated, vars, mirrorVars, allVars
<1> QED BY <1>3, <1>4, <1>5, <1>6, <1>7, <1>8 DEF MirrorNext

\* The far end follows the near one, tile by tile, in every state.
THEOREM FollowInvariant == MirrorSpec => []FollowInv
<1> QED BY FollowInit, FollowStep, PTL DEF MirrorSpec

\* A tree whose near end was printed, and of which Peer reports nothing missing,
\* has a far end that is printed too.
THEOREM FarEndIsPrinted == MirrorSpec => []FarEndLowers
<1>1. FollowInv => FarEndLowers
  BY DEF FollowInv
<1> QED BY <1>1, FollowInvariant, PTL

----------------------------------------------------------------------------
\* The devices a script makes.

\* A script makes the devices that its two parts make.
LEMMA LinksConcat ==
  ASSUME NEW s, NEW t, IsSeq(s), IsSeq(t)
  PROVE  LinksOf(s \o t) = LinksOf(s) \o LinksOf(t)
<1> DEFINE u == s \o t
           V == {u[j] : j \in 1..Len(u)}
           p == [j \in 1..Len(s) |-> LinkOnly(s[j])]
           q == [j \in 1..Len(t) |-> LinkOnly(t[j])]
           r == [j \in 1..Len(u) |-> LinkOnly(u[j])]
<1>1. /\ Len(s) \in Nat /\ Len(t) \in Nat /\ Len(u) \in Nat
      /\ Len(u) = Len(s) + Len(t)
      /\ \A j \in 1..Len(s) : u[j] = s[j]
      /\ \A j \in 1..Len(t) : u[Len(s) + j] = t[j]
  BY ConcatIsSeq
<1>2. ASSUME NEW j \in 1..Len(u) PROVE LinkOnly(u[j]) \in Seq(V)
  <2> DEFINE v == u[j]
  <2>1. v \in V
    OBVIOUS
  <2> HIDE DEF V, v
  <2>2. <<v>> \in Seq(V) /\ << >> \in Seq(V)
    BY <2>1
  <2> QED BY <2>2 DEF LinkOnly, v
<1> HIDE DEF u, V
<1>3. r \in Seq(Seq(V)) /\ Len(r) = Len(u)
  BY <1>1, <1>2, FcnIsSeq
<1>4. \A j \in 1..Len(s) : j \in 1..Len(u) /\ u[j] = s[j]
  BY <1>1
<1>5. \A j \in 1..Len(t) : Len(s) + j \in 1..Len(u) /\ u[Len(s) + j] = t[j]
  BY <1>1
<1>6. p \in Seq(Seq(V)) /\ Len(p) = Len(s)
  <2>1. \A j \in 1..Len(s) : LinkOnly(s[j]) \in Seq(V)
    BY <1>2, <1>4
  <2> QED BY <1>1, <2>1, FcnIsSeq
<1>7. q \in Seq(Seq(V)) /\ Len(q) = Len(t)
  <2>1. \A j \in 1..Len(t) : LinkOnly(t[j]) \in Seq(V)
    BY <1>2, <1>5
  <2> QED BY <1>1, <2>1, FcnIsSeq
<1>8. \A j \in 1..Len(s) : r[j] = p[j]
  BY <1>4
<1>9. \A j \in 1..Len(t) : r[Len(s) + j] = q[j]
  BY <1>5
<1> HIDE DEF p, q, r
<1>10. r = p \o q
  <2>1. /\ Len(r) = Len(p) + Len(q)
        /\ \A j \in 1..Len(p) : r[j] = p[j]
        /\ \A j \in 1..Len(q) : r[Len(p) + j] = q[j]
    BY <1>1, <1>3, <1>6, <1>7, <1>8, <1>9
  <2> QED BY <1>3, <1>6, <1>7, <2>1, IsConcat, Zenon
<1>11. FlattenSeq(r) = FlattenSeq(p) \o FlattenSeq(q)
  BY <1>6, <1>7, <1>10, FlattenConcat
<1> QED BY <1>11 DEF LinksOf, p, q, r, u

\* Commands that make none.
LEMMA NoLinks ==
  ASSUME NEW s, Len(s) \in Nat, \A j \in 1..Len(s) : s[j].op # "link"
  PROVE  LinksOf(s) = << >>
<1> DEFINE p == [j \in 1..Len(s) |-> LinkOnly(s[j])]
<1>1. \A j \in 1..Len(s) : LinkOnly(s[j]) \in {<< >>}
  BY DEF LinkOnly
<1>2. p \in Seq({<< >>})
  BY <1>1, FcnIsSeq
<1> HIDE DEF p
<1>3. FlattenSeq(p) = << >>
  BY <1>2, FlattenEmpties
<1> QED BY <1>3 DEF LinksOf, p

\* One command that makes one.
LEMMA LinkAlone ==
  ASSUME NEW c, c.op = "link"
  PROVE  IsSeq(<<c>>) /\ LinksOf(<<c>>) = <<c>>
<1> DEFINE s == <<c>>
           p == [j \in 1..Len(s) |-> LinkOnly(s[j])]
<1>1. s \in Seq({c}) /\ Len(s) = 1 /\ s[1] = c
  OBVIOUS
<1>2. IsSeq(s)
  BY <1>1, SeqIsSeq
<1>3. LinkOnly(c) = s
  BY DEF LinkOnly
<1> HIDE DEF s
<1>4. \A j \in 1..Len(s) : LinkOnly(s[j]) \in Seq({c}) /\ j = 1
  BY <1>1, <1>3
<1>5. p \in Seq(Seq({c})) /\ Len(p) = 1 /\ p[1] = s
  BY <1>1, <1>3, <1>4, FcnIsSeq
<1> HIDE DEF p
<1>6. p # << >>
  <2>1. Len(<< >>) # 1
    OBVIOUS
  <2> QED BY <1>5, <2>1, Zenon
<1>7. PICK f : Steps(p, f)
  BY <1>5, <1>6, FlattenSteps, Zenon
<1>8. FlattenSeq(p) = s
  BY <1>5, <1>7 DEF Steps
<1> QED BY <1>2, <1>8 DEF LinksOf, p, s

\* Where one command makes one.
LEMMA OneLink ==
  ASSUME NEW s, IsSeq(s), NEW k \in 1..Len(s), s[k].op = "link",
         \A j \in 1..Len(s) : j # k => s[j].op # "link"
  PROVE  LinksOf(s) = <<s[k]>>
<1> DEFINE S == {s[j] : j \in 1..Len(s)}
<1>1. s \in Seq(S)
  BY DEF IsSeq
<1> HIDE DEF S
<1> PICK n \in Nat : n = Len(s)
  BY <1>1
<1> DEFINE a == SubSeq(s, 1, k - 1)
           m == SubSeq(s, k, k)
           b == SubSeq(s, k + 1, n)
           r == SubSeq(s, k, n)
<1>2. /\ a \in Seq(S) /\ Len(a) = k - 1 /\ \A j \in 1..(k - 1) : a[j] = s[j]
      /\ b \in Seq(S) /\ Len(b) = n - k /\ \A j \in 1..(n - k) : b[j] = s[k + j]
      /\ m \in Seq(S) /\ Len(m) = 1 /\ m[1] = s[k]
      /\ r \in Seq(S)
  <2>1. a \in Seq(S) /\ Len(a) = k - 1 /\ \A j \in 1..(k - 1) : a[j] = s[j]
    BY <1>1, SubSeqProperties
  <2>2. b \in Seq(S) /\ Len(b) = n - k
    BY <1>1, SubSeqProperties
  <2>3. \A j \in 1..(n - k) : b[j] = s[k + j]
    BY <1>1, SubSeqProperties
  <2>4. m \in Seq(S) /\ Len(m) = 1 /\ m[1] = s[k]
    BY <1>1, SubSeqProperties
  <2>5. r \in Seq(S)
    BY <1>1, SubSeqProperties
  <2> HIDE DEF a, b, m, r
  <2> QED BY <2>1, <2>2, <2>3, <2>4, <2>5
<1>3. s = a \o r
  <2> PICK l \in Nat : l = k - 1
    OBVIOUS
  <2>0. 1 \in 1..(Len(s) + 1) /\ l \in (1 - 1)..Len(s) /\ n \in l..Len(s)
    OBVIOUS
  <2>1. SubSeq(s, 1, l) \o SubSeq(s, l + 1, n) = SubSeq(s, 1, n)
    BY <1>1, <2>0, ConcatAdjacentSubSeq, Zenon
  <2>2. l + 1 = k /\ SubSeq(s, 1, n) = s
    BY <1>1, SubSeqFull
  <2> QED BY <2>1, <2>2
<1>4. r = m \o b
  <2>1. SubSeq(s, k, k) \o SubSeq(s, k + 1, n) = SubSeq(s, k, n)
    BY <1>1, ConcatAdjacentSubSeq
  <2> QED BY <2>1
<1>5. m = <<s[k]>>
  <2> DEFINE e == s[k]
  <2>1. e \in S
    BY <1>1
  <2> HIDE DEF e, m
  <2>2. <<e>> \in Seq(S) /\ Len(<<e>>) = 1 /\ <<e>>[1] = e
    BY <2>1
  <2>3. Len(m) = Len(<<e>>) /\ \A j \in 1..Len(m) : m[j] = <<e>>[j]
    BY <1>2, <2>2 DEF e
  <2>4. m = <<e>>
    BY <1>2, <2>2, <2>3, SeqEqual
  <2> QED BY <2>4 DEF e
<1> HIDE DEF a, b, m, r
<1>6. LinksOf(a) = << >>
  <2>1. Len(a) \in Nat /\ \A j \in 1..Len(a) : a[j].op # "link"
    BY <1>2
  <2> QED BY <2>1, NoLinks
<1>7. LinksOf(b) = << >>
  <2>1. ASSUME NEW j \in 1..(n - k) PROVE b[j].op # "link"
    <3>1. k + j \in 1..Len(s) /\ k + j # k
      OBVIOUS
    <3>2. b[j] = s[k + j]
      BY <1>2
    <3> QED BY <3>1, <3>2, Zenon
  <2> QED BY <1>2, <2>1, NoLinks
<1>8. IsSeq(a) /\ IsSeq(b) /\ IsSeq(m) /\ IsSeq(r)
  BY <1>2, SeqIsSeq
<1>9. LinksOf(s) = LinksOf(a) \o LinksOf(r)
  BY <1>3, <1>8, LinksConcat, Zenon
<1>10. LinksOf(r) = LinksOf(m) \o LinksOf(b)
  BY <1>4, <1>8, LinksConcat, Zenon
<1>11. LinksOf(m) = m
  BY <1>5, LinkAlone, Zenon
<1>12. m \o << >> = m /\ << >> \o m = m
  BY <1>2, ConcatEmptySeq
<1> QED BY <1>5, <1>6, <1>7, <1>9, <1>10, <1>11, <1>12, Zenon

\* A tile's Lower makes its one device.
LEMMA TileLinks ==
  ASSUME NEW t \in TilesOf(Registry), NEW sub, NEW name, NEW under
  PROVE  /\ IsSeq(Commands(t, sub, name, under))
         /\ LinksOf(Commands(t, sub, name, under)) = <<LinkOf(t, sub, name, under)>>
<1> DEFINE c == Commands(t, sub, name, under)
           l == LinkOf(t, sub, name, under)
<1>1. IsSeq(c) /\ \E k : OneDevice(c, k, name, under)
  BY CommandsMakeOne
<1>2. PICK k : OneDevice(c, k, name, under)
  BY <1>1
<1>3. \A j \in 1..Len(c) : c[j].op = "link" => c[j] = l
  <2>1. \A j \in 1..Len(c) :
               \/ c[j].op = "addr"
               \/ c[j].op = "link" /\ c[j] = LinkOf(t, sub, name, under)
               \/ /\ t = WireGuard /\ c[j].op = "wg"
                  /\ c[j] \in {WgSet(name, Only("listen_port", sub[2].props.src_port.num)),
                               WireGuardPeer(sub, name)}
    BY CommandsOfTile
  <2> HIDE DEF c, l
  <2>2. ASSUME NEW j \in 1..Len(c), c[j].op = "link" PROVE c[j] = l
    BY <2>1, <2>2 DEF l
  <2> QED BY <2>2
<1> HIDE DEF c, l
<1>4. PICK n \in Nat : n = Len(c)
  BY <1>1, SeqLength
<1>5. k \in 1..n /\ c[k].op = "link"
  BY <1>2, <1>4 DEF OneDevice
<1>6. ASSUME NEW j \in 1..Len(c), j # k PROVE c[j].op # "link"
  <2>1. j \in 1..(k - 1) \/ j \in (k + 1)..Len(c)
    BY <1>4, <1>5, <1>6
  <2> QED BY <1>2, <2>1 DEF OneDevice
<1>7. LinksOf(c) = <<c[k]>>
  BY <1>1, <1>4, <1>5, <1>6, OneLink
<1>8. c[k] = l
  BY <1>3, <1>4, <1>5
<1> QED BY <1>1, <1>7, <1>8 DEF c, l

\* The device made by the tile at p.
LinkAt(layers, p) ==
  LinkOf(TileAt(layers, p.at), SubAt(layers, p), NameAt(layers, p), p.dev)

\* The devices made by the first k tiles.
MadeBy(layers, h, s, k) ==
  /\ IsSeq(s) /\ IsSeq(LinksOf(s)) /\ Len(LinksOf(s)) = k
  /\ \A j \in 1..k : LinksOf(s)[j] = LinkAt(layers, h[j - 1])

\* One tile makes one more.
LEMMA OneMore ==
  ASSUME NEW layers, NEW h, NEW s, NEW k \in Nat, MadeBy(layers, h, s, k),
         Passed(layers, h[k])
  PROVE  MadeBy(layers, h, s \o CommandsAt(layers, h[k]), k + 1)
<1> DEFINE c == CommandsAt(layers, h[k])
           l == LinkAt(layers, h[k])
           a == LinksOf(s)
           z == LinksOf(s \o c)
<1>1. TileAt(layers, h[k].at) \in TilesOf(Registry)
  BY DEF Passed, CandidatesAt
<1>2. IsSeq(c) /\ LinksOf(c) = <<l>>
  BY <1>1, TileLinks DEF CommandsAt, LinkAt
<1> HIDE DEF c, l, a, z
<1>3. IsSeq(s) /\ IsSeq(a) /\ Len(a) = k /\ \A j \in 1..k : a[j] = LinkAt(layers, h[j - 1])
  BY DEF MadeBy, a
<1>4. z = a \o <<l>>
  <2>1. LinksOf(s \o c) = LinksOf(s) \o LinksOf(c)
    BY <1>2, <1>3, LinksConcat
  <2> QED BY <1>2, <2>1, Zenon DEF a, z
<1>5. <<l>> \in Seq({l}) /\ Len(<<l>>) = 1 /\ <<l>>[1] = l
  OBVIOUS
<1>6. IsSeq(<<l>>)
  BY <1>5, SeqIsSeq
<1> DEFINE b == <<l>>
<1>7. IsSeq(b) /\ Len(b) = 1 /\ b[1] = l /\ z = a \o b
  BY <1>4, <1>5, <1>6
<1> HIDE DEF b
<1>8. /\ IsSeq(z) /\ Len(z) = k + 1
      /\ \A j \in 1..k : z[j] = a[j]
      /\ \A j \in 1..Len(b) : z[k + j] = b[j]
  <2>0. IsSeq(a) /\ IsSeq(b)
    BY <1>3, <1>7
  <2>1. /\ IsSeq(a \o b) /\ Len(a \o b) = Len(a) + Len(b)
        /\ \A j \in 1..Len(a) : (a \o b)[j] = a[j]
        /\ \A j \in 1..Len(b) : (a \o b)[Len(a) + j] = b[j]
    BY <2>0, ConcatIsSeq
  <2> QED BY <1>3, <1>7, <2>1
<1>9. z[k + 1] = l
  <2>1. 1 \in 1..Len(b)
    BY <1>7
  <2> QED BY <1>7, <1>8, <2>1
<1>10. ASSUME NEW j \in 1..(k + 1) PROVE z[j] = LinkAt(layers, h[j - 1])
  <2>1. CASE j = k + 1
    <3>1. j - 1 = k
      BY <2>1
    <3> QED BY <1>9, <2>1, <3>1 DEF l
  <2>2. CASE j # k + 1
    <3>1. j \in 1..k
      BY <2>2
    <3> QED BY <1>3, <1>8, <3>1
  <2> QED BY <2>1, <2>2
<1>11. IsSeq(s \o c)
  BY <1>2, <1>3, ConcatIsSeq
<1> QED BY <1>8, <1>10, <1>11 DEF MadeBy, z, c

\* Tile by tile, a script makes one device a tile.
LEMMA MadeInSteps ==
  ASSUME NEW layers, NEW h, NEW e, NEW n, Walked(layers, h, e, n)
  PROVE  MadeBy(layers, h, e[n], n)
<1>1. n \in Nat /\ e[0] = << >>
  BY DEF Walked
<1>2. MadeBy(layers, h, e[0], 0)
  <2>1. IsSeq(<< >>) /\ Len(<< >>) = 0
    BY EmptySeq, SeqIsSeq
  <2>2. LinksOf(<< >>) = << >>
    BY <2>1, NoLinks
  <2>3. \A j \in 1..0 : FALSE
    OBVIOUS
  <2> QED BY <1>1, <2>1, <2>2, <2>3 DEF MadeBy
<1>3. ASSUME NEW k \in 1..n, MadeBy(layers, h, e[k - 1], k - 1)
      PROVE  MadeBy(layers, h, e[k], k)
  <2>1. Turns(layers, h[k - 1], e[k - 1], h[k], e[k])
    BY Zenon DEF Walked
  <2>2. Passed(layers, h[k - 1]) /\ e[k] = e[k - 1] \o CommandsAt(layers, h[k - 1])
    BY <2>1 DEF Turns
  <2>3. k - 1 \in Nat /\ (k - 1) + 1 = k
    BY <1>1
  <2>4. MadeBy(layers, h, e[k - 1] \o CommandsAt(layers, h[k - 1]), (k - 1) + 1)
    BY <1>3, <2>2, <2>3, OneMore
  <2> QED BY <2>2, <2>3, <2>4
<1> DEFINE T == {k \in 1..n : MadeBy(layers, h, e[k], k)}
<1>4. CASE n = 0
  BY <1>2, <1>4
<1>5. CASE n # 0
  <2>1. 1 \in T
    <3>1. 1 \in 1..n /\ 1 - 1 = 0
      BY <1>1, <1>5
    <3> QED BY <1>2, <1>3, <3>1
  <2>2. ASSUME NEW k \in 2..n, k - 1 \in T PROVE k \in T
    <3>1. k \in 1..n /\ k - 1 \in 1..n
      BY <1>1
    <3> QED BY <1>3, <2>2, <3>1
  <2>3. \A k \in 1..n : k \in T
    <3> HIDE DEF T
    <3> QED BY <1>1, <2>1, <2>2, UpFromOne
  <2>4. n \in 1..n
    BY <1>1, <1>5
  <2> QED BY <2>3, <2>4
<1> QED BY <1>4, <1>5

\* The address after the last tile and the commands that bring the devices up
\* make none.
LEMMA CompletedMade ==
  ASSUME NEW layers, NEW s, NEW h, NEW e, NEW n, NEW u,
         CompletedBy(layers, s, h, e, n, u)
  PROVE  MadeBy(layers, h, s, n)
<1>1. /\ Walked(layers, h, e, n) /\ OnlyUps(u)
      /\ s = (e[n] \o LastOf(layers, h[n])) \o u
  BY DEF CompletedBy
<1> PICK a : a = e[n]
  OBVIOUS
<1> PICK b : b = LastOf(layers, h[n])
  OBVIOUS
<1>2. MadeBy(layers, h, a, n)
  BY <1>1, MadeInSteps
<1>3. IsSeq(b) /\ Len(b) \in Nat /\ \A j \in 1..Len(b) : b[j].op # "link"
  <2>1. CASE h[n].at < Len(layers)
    <3>1. b = addrOn(layers[h[n].at + 1], h[n].dev)
      BY <2>1 DEF LastOf
    <3> QED BY <3>1, AddressCommands
  <2>2. CASE ~(h[n].at < Len(layers))
    <3>1. b = << >>
      BY <2>2 DEF LastOf
    <3>2. IsSeq(<< >>) /\ Len(<< >>) = 0
      BY EmptySeq, SeqIsSeq
    <3> QED BY <3>1, <3>2
  <2> QED BY <2>1, <2>2
<1>4. IsSeq(u) /\ Len(u) \in Nat /\ \A j \in 1..Len(u) : u[j].op # "link"
  BY <1>1, SeqLength DEF OnlyUps
<1>5. LinksOf(b) = << >> /\ LinksOf(u) = << >>
  BY <1>3, <1>4, NoLinks
<1>6. IsSeq(a) /\ IsSeq(LinksOf(a))
  BY <1>2 DEF MadeBy
<1>7. IsSeq(a \o b) /\ LinksOf(a \o b) = LinksOf(a) \o << >>
  <2>1. IsSeq(a \o b)
    BY <1>3, <1>6, ConcatIsSeq
  <2>2. LinksOf(a \o b) = LinksOf(a) \o LinksOf(b)
    BY <1>3, <1>6, LinksConcat, Zenon
  <2> QED BY <1>5, <2>1, <2>2, Zenon
<1>8. IsSeq(s) /\ LinksOf(s) = LinksOf(a \o b) \o << >>
  <2> PICK w : w = a \o b
    OBVIOUS
  <2>1. IsSeq(w) /\ s = w \o u
    BY <1>1, <1>7
  <2>2. LinksOf(w \o u) = LinksOf(w) \o LinksOf(u)
    BY <1>4, <2>1, LinksConcat, Zenon
  <2>3. IsSeq(w \o u)
    BY <1>4, <2>1, ConcatIsSeq
  <2> QED BY <1>5, <2>1, <2>2, <2>3, Zenon
<1>9. LinksOf(a) \o << >> = LinksOf(a)
  <2> PICK z : z = LinksOf(a)
    OBVIOUS
  <2>1. PICK S : z \in Seq(S)
    BY <1>6 DEF IsSeq
  <2>2. z \o << >> = z
    BY <2>1, ConcatEmptySeq
  <2> QED BY <2>2
<1>10. LinksOf(s) = LinksOf(a)
  BY <1>7, <1>8, <1>9, Zenon
<1> QED BY <1>2, <1>8, <1>10, Zenon DEF MadeBy

----------------------------------------------------------------------------
\* Two devices that are the ends of one tunnel.
Meets(a, b) ==
  LET here == a.opts
      far  == b.opts
  IN /\ a.type = b.type
     /\ Agree(here, far, {"id", "external", "key", "dstport"})
     /\ "remote" \in DOMAIN here =>
          "local" \in DOMAIN far /\ far["local"] = here["remote"]
     /\ "remote" \in DOMAIN far =>
          "local" \in DOMAIN here /\ here["local"] = far["remote"]

\* What a tile takes for an end: a `*', or an address with or without a length.
Endpoint(v) == v = Star \/ (v # Star /\ v.kind \in {"addr", "prefix"})

\* Each of the ends of f is the other of n.
Crossed(n, f) ==
  /\ f.props.src = Star <=> n.props.dst = Star
  /\ f.props.dst = Star <=> n.props.src = Star
  /\ n.props.dst # Star => f.props.src.addr = n.props.dst.addr
  /\ n.props.src # Star => f.props.dst.addr = n.props.src.addr

\* A set of numbers up to n that is not empty has a largest one.
LEMMA LargestOf ==
  ASSUME NEW n \in Nat, NEW T, T \subseteq 1..n, T # {}
  PROVE  \E x \in T : \A y \in T : y <= x
<1> DEFINE U == {n - i : i \in T}
<1>1. U \subseteq Nat /\ U # {}
  <2>1. ASSUME NEW i \in T PROVE n - i \in Nat
    <3>1. i \in 1..n
      OBVIOUS
    <3> QED BY <3>1
  <2>2. PICK i : i \in T
    OBVIOUS
  <2>3. n - i \in U
    BY <2>2
  <2> QED BY <2>1, <2>3
<1>2. PICK x \in U : \A y \in U : x <= y
  <2> HIDE DEF U
  <2> QED BY <1>1, SmallestOf
<1>3. PICK i \in T : x = n - i
  OBVIOUS
<1>4. ASSUME NEW y \in T PROVE y <= i
  <2>1. n - y \in U /\ i \in 1..n /\ y \in 1..n
    OBVIOUS
  <2>2. n - i <= n - y
    BY <1>2, <1>3, <2>1
  <2> QED BY <2>1, <2>2
<1> QED BY <1>4

\* rebuild keeps a `*' and the address of an end, if it makes an end.
LEMMA RebuildKeeps ==
  ASSUME NEW v, Endpoint(v), NEW length, Endpoint(rebuild(v, length))
  PROVE  /\ rebuild(v, length) = Star <=> v = Star
         /\ v # Star => rebuild(v, length).addr = v.addr
<1>1. Star.kind = "star" /\ \A x, b : /\ Addr(x).kind = "addr" /\ Prefix(x, b).kind = "prefix"
                                      /\ Addr(x).addr = x /\ Prefix(x, b).addr = x
  BY DEF Star, Addr, Prefix
<1>2. CASE v = Star
  <2>1. rebuild(v, length) = Star
    BY <1>1, <1>2 DEF rebuild, WithLength
  <2> QED BY <1>2, <2>1
<1>3. CASE v # Star
  <2>1. v.kind \in {"addr", "prefix"}
    BY <1>3 DEF Endpoint
  <2>2. LengthFits(v, length)
    <3> SUFFICES ASSUME ~LengthFits(v, length) PROVE FALSE
      OBVIOUS
    <3>1. rebuild(v, length) = Text("misfit")
      BY <2>1 DEF rebuild, WithLength
    <3>2. Text("misfit").kind = "text"
      BY DEF Text
    <3> QED BY <1>1, <3>1, <3>2 DEF Endpoint
  <2>3. rebuild(v, length) = IF length = NoLength THEN Addr(v.addr) ELSE Prefix(v.addr, length)
    BY <2>1, <2>2 DEF rebuild, WithLength
  <2> QED BY <1>1, <1>3, <2>3
<1> QED BY <1>2, <1>3

\* Only an address that the length fits is rebuilt with it.
LEMMA RebuiltPrefix ==
  ASSUME NEW v, IsRaw(v), NEW length, rebuild(v, length).kind = "prefix"
  PROVE  length # NoLength /\ rebuild(v, length) = Prefix(v.addr, length)
<1>1. /\ Star.kind = "star" /\ \A x : Addr(x).kind = "addr" /\ Text(x).kind = "text"
  BY DEF Star, Addr, Text
<1>2. v.kind \in {"star", "num", "bignum", "addr", "prefix", "text"}
  BY DEF IsRaw
<1> PICK r : r = rebuild(v, length)
  OBVIOUS
<1>3. CASE v.kind \in {"addr", "prefix"} /\ LengthFits(v, length)
  <2>1. r = IF length = NoLength THEN Addr(v.addr) ELSE Prefix(v.addr, length)
    BY <1>3 DEF rebuild, WithLength
  <2> QED BY <1>1, <2>1
<1>4. CASE ~(v.kind \in {"addr", "prefix"} /\ LengthFits(v, length))
  <2>1. r \in {Star, Text("misfit"), Text(ToString(v.num)), Text("bignum")} \/ r.kind = "text"
    BY <1>2, <1>4 DEF rebuild, WithLength
  <2> QED BY <1>1, <2>1
<1> QED BY <1>3, <1>4

\* Turned around, a layer carries an address only where it did.
LEMMA TurnedCarries ==
  ASSUME NEW n, IsLayer(n), RawLayer(n), TwoEnded(n), CarriesAddress(swapEndpoints(n))
  PROVE  CarriesAddress(n)
<1> PICK f : f = swapEndpoints(n)
  OBVIOUS
<1>1. f.props.src = rebuild(n.props.dst, LengthOf(n.props.src)) /\ f.name = n.name
  BY SwapEndpoints DEF SameButEnds
<1>2. f.props.src.kind = "prefix" /\ f.name \in {"ipv4", "ipv6"}
  BY CarriedAddress DEF CarriesAddress
<1>3. IsRaw(n.props.dst)
  <2>1. "dst" \in DOMAIN n.props
    BY DEF TwoEnded, Lookup
  <2> QED BY <2>1 DEF RawLayer
<1>4. LengthOf(n.props.src) # NoLength
  BY <1>1, <1>2, <1>3, RebuiltPrefix
<1>5. n.props.src.kind = "prefix"
  BY <1>4 DEF LengthOf
<1>6. Star.kind = "star"
  BY DEF Star
<1>7. Lookup(n, "src") /\ n.props["src"] # Star /\ Parses("prefix", n.props["src"])
  BY <1>5, <1>6 DEF TwoEnded, Parses, ParsePrefix
<1> QED BY <1>1, <1>2, <1>7 DEF CarriesAddress, SrcPrefix, Get

\* And everywhere it did, where its :dst is an address that the length fits.
LEMMA CarriesTurned ==
  ASSUME NEW n, IsLayer(n), RawLayer(n), TwoEnded(n), CarriesAddress(n),
         n.props.dst.kind \in {"addr", "prefix"}, LengthFits(n.props.dst, LengthOf(n.props.src))
  PROVE  CarriesAddress(swapEndpoints(n))
<1> PICK f : f = swapEndpoints(n)
  OBVIOUS
<1> PICK length : length = LengthOf(n.props.src)
  OBVIOUS
<1>1. /\ f.props.src = rebuild(n.props.dst, length) /\ f.name = n.name
      /\ DOMAIN f.props = DOMAIN n.props
  BY SwapEndpoints DEF SameButEnds
<1>2. /\ Lookup(n, "src") /\ n.props.src.kind = "prefix" /\ n.name \in {"ipv4", "ipv6"}
  BY CarriedAddress DEF CarriesAddress
<1>3. IsRaw(n.props.src)
  BY <1>2 DEF RawLayer, Lookup
<1>4. length # NoLength
  BY <1>2, <1>3 DEF LengthOf, NoLength, IsRaw
<1>5. f.props.src = Prefix(n.props.dst.addr, length)
  <2>1. n.props.dst.kind # "star" /\ LengthFits(n.props.dst, length)
    OBVIOUS
  <2> QED BY <1>1, <1>4, <2>1 DEF rebuild, WithLength
<1>6. Star.kind = "star" /\ \A x, b : Prefix(x, b).kind = "prefix"
  BY DEF Star, Prefix
<1>7. Lookup(f, "src") /\ f.props["src"] # Star /\ Parses("prefix", f.props["src"])
  BY <1>1, <1>2, <1>5, <1>6 DEF Lookup, Parses, ParsePrefix
<1> QED BY <1>1, <1>2, <1>7 DEF CarriesAddress, SrcPrefix, Get

\* Where the innermost address is on a layer of one end, Peer exchanges the ends
\* of a layer of two, and that is all.
LEMMA TurnsOver ==
  ASSUME NEW layers, NEW v, Len(layers) \in Nat, NEW j \in 1..Len(layers),
         IsLayer(layers[j]), RawLayer(layers[j]), TwoEnded(layers[j]),
         Endpoint(layers[j].props.src), Endpoint(layers[j].props.dst),
         Endpoint(PeerLayers(layers, v)[j].props.src), Endpoint(PeerLayers(layers, v)[j].props.dst),
         \A i \in innermostAddressed(layers) : ~TwoEnded(layers[i])
  PROVE  Crossed(layers[j], PeerLayers(layers, v)[j])
<1> PICK n : n = layers[j]
  OBVIOUS
<1> PICK turned : turned = TurnedAround(layers)
  OBVIOUS
<1>1. /\ Len(turned) = Len(layers)
      /\ \A i \in 1..Len(layers) :
           turned[i] = IF TwoEnded(layers[i]) THEN swapEndpoints(layers[i]) ELSE layers[i]
  BY DEF TurnedAround
<1>2. turned[j] = swapEndpoints(n)
  BY <1>1
<1>3. j \notin innermostAddressed(turned)
  <2> SUFFICES ASSUME j \in innermostAddressed(turned) PROVE FALSE
    OBVIOUS
  <2>1. CarriesAddress(turned[j]) /\ \A l \in 1..Len(turned) : CarriesAddress(turned[l]) => l <= j
    BY DEF innermostAddressed
  <2>2. CarriesAddress(layers[j])
    BY <1>2, <2>1, TurnedCarries
  <2> DEFINE J == {i \in 1..Len(layers) : CarriesAddress(layers[i])}
  <2>3. j \in J /\ J \subseteq 1..Len(layers)
    BY <2>2
  <2>4. PICK i \in J : \A l \in J : l <= i
    <3> HIDE DEF J
    <3> QED BY <2>3, LargestOf
  <2>5. i \in innermostAddressed(layers) /\ i \in 1..Len(layers) /\ CarriesAddress(layers[i])
    BY <2>4 DEF innermostAddressed
  <2>6. ~TwoEnded(layers[i])
    BY <2>5
  <2>7. turned[i] = layers[i]
    BY <1>1, <2>5, <2>6
  <2>8. i <= j
    BY <1>1, <2>1, <2>5, <2>7
  <2>9. j <= i
    BY <2>3, <2>4
  <2>10. i = j
    BY <2>5, <2>8, <2>9
  <2> QED BY <2>6, <2>10
<1>4. PeerLayers(layers, v)[j] = swapEndpoints(n)
  BY <1>2, <1>3 DEF PeerLayers
<1>5. /\ swapEndpoints(n).props.src = rebuild(n.props.dst, LengthOf(n.props.src))
      /\ swapEndpoints(n).props.dst = rebuild(n.props.src, LengthOf(n.props.dst))
  BY SwapEndpoints
<1> QED BY <1>4, <1>5, RebuildKeeps DEF Crossed

\* A tile with an outer address has both of its ends.
LEMMA ReadyEnds ==
  ASSUME NEW t \in TilesOf(Registry), t \notin {VLAN, WireGuard}, NEW x, Ready(t, x)
  PROVE  TwoEnded(x[1]) /\ Endpoint(x[1].props.src) /\ Endpoint(x[1].props.dst)
<1> PICK n : n = x[1]
  OBVIOUS
<1>1. ASSUME NEW key \in {"src", "dst"},
             \/ readEndpoint(n, key) \in {"concrete", "dynamic"}
             \/ Get(n, key, "addr") = "concrete"
      PROVE  Lookup(n, key) /\ Endpoint(n.props[key])
  <2>1. PICK type \in {"addr", "prefix"} : Get(n, key, type) \in {"concrete", "dynamic"}
    BY <1>1 DEF readEndpoint
  <2>2. Lookup(n, key)
    BY <2>1 DEF Get
  <2>3. n.props[key] # Star => Parses(type, n.props[key])
    BY <2>1, <2>2 DEF Get
  <2>4. n.props[key] # Star => n.props[key].kind \in {"addr", "prefix"}
    BY <2>1, <2>3 DEF Parses, ParseAddr, ParsePrefix
  <2> QED BY <2>2, <2>4 DEF Endpoint
<1>2. CASE t \in {IPIP, GRE, GRETAP}
  <2>1. Get(n, "src", "addr") = "concrete" /\ Get(n, "dst", "addr") = "concrete"
    BY <1>2, SixTiles DEF Ready, endpoints, Src, Dst
  <2> QED BY <1>1, <2>1 DEF TwoEnded
<1>3. CASE t = VXLAN
  <2>1. /\ readEndpoint(n, "src") \in {"concrete", "dynamic"}
        /\ readEndpoint(n, "dst") \in {"concrete", "dynamic"}
    BY <1>3, SixTiles DEF Ready, ReadyVXLAN
  <2> QED BY <1>1, <2>1 DEF TwoEnded
<1> QED BY <1>2, <1>3, SixTiles

\* An option by itself.
LEMMA OptionOnly ==
  ASSUME NEW key, NEW v
  PROVE  DOMAIN Only(key, v) = {key} /\ Only(key, v)[key] = v /\ DOMAIN NoProps = {}
BY DEF Only, NoProps

\* The options of a point-to-point device.
LEMMA PointToPointOptions ==
  ASSUME NEW type, NEW sub, NEW name
  PROVE  LET o == PointToPoint(type, sub, name).opts
         IN /\ PointToPoint(type, sub, name).type = type
            /\ "local" \in DOMAIN o /\ o["local"] = sub[1].props.src.addr
            /\ "remote" \in DOMAIN o /\ o["remote"] = sub[1].props.dst.addr
            /\ "key" \in DOMAIN o <=> type # "ipip" /\ Key(sub[2]) = "concrete"
            /\ "key" \in DOMAIN o => o["key"] = sub[2].props.key
            /\ "id" \notin DOMAIN o /\ "external" \notin DOMAIN o /\ "dstport" \notin DOMAIN o
<1> DEFINE a  == Only("local", sub[1].props.src.addr)
           b  == Only("remote", sub[1].props.dst.addr)
           d  == IF type # "ipip" THEN Opt(Key(sub[2]) = "concrete", "key", sub[2].props.key)
                 ELSE NoProps
           ab == a ++ b
           o  == ab ++ d
<1>1. PointToPoint(type, sub, name).opts = o /\ PointToPoint(type, sub, name).type = type
  BY DEF PointToPoint, Link
<1>2. /\ DOMAIN a = {"local"} /\ a["local"] = sub[1].props.src.addr
      /\ DOMAIN b = {"remote"} /\ b["remote"] = sub[1].props.dst.addr
  BY OptionOnly
<1>3. /\ DOMAIN d = IF type # "ipip" /\ Key(sub[2]) = "concrete" THEN {"key"} ELSE {}
      /\ "key" \in DOMAIN d => d["key"] = sub[2].props.key
  BY OptionOnly DEF Opt
<1> HIDE DEF a, b, d
<1>4. /\ DOMAIN ab = {"local", "remote"}
      /\ ab["local"] = sub[1].props.src.addr /\ ab["remote"] = sub[1].props.dst.addr
  BY <1>2 DEF ++
<1> HIDE DEF ab
<1>5. /\ DOMAIN o = DOMAIN ab \cup DOMAIN d
      /\ o["local"] = ab["local"] /\ o["remote"] = ab["remote"]
      /\ "key" \in DOMAIN d => o["key"] = d["key"]
  BY <1>3, <1>4 DEF ++
<1> HIDE DEF o
<1> QED BY <1>1, <1>3, <1>4, <1>5

\* The options of a VXLAN device.
VXLANHas(l, o, src, dst, vni, port) ==
  /\ l.type = "vxlan"
  /\ "external" \in DOMAIN o <=> vni = Star
  /\ "external" \in DOMAIN o => o["external"] = TRUE
  /\ "id" \in DOMAIN o <=> vni # Star
  /\ "id" \in DOMAIN o => o["id"] = vni.num
  /\ "local" \in DOMAIN o <=> src # Star
  /\ "local" \in DOMAIN o => o["local"] = src.addr
  /\ "remote" \in DOMAIN o <=> dst # Star /\ ~Multicast(dst.addr)
  /\ "remote" \in DOMAIN o => o["remote"] = dst.addr
  /\ "dstport" \in DOMAIN o /\ o["dstport"] = port
  /\ "key" \notin DOMAIN o

\* VXLAN's tile gives its device those.
LEMMA VXLANOptions ==
  ASSUME NEW sub, NEW name, NEW under
  PROVE  VXLANHas(VXLANLink(sub, name, under), VXLANLink(sub, name, under).opts,
                  sub[1].props.src, sub[1].props.dst, sub[3].props.vni,
                  sub[2].props.dst_port.num)
<1> DEFINE src == sub[1].props.src
           dst == sub[1].props.dst
           vni == sub[3].props.vni
           p   == sub[2].props.dst_port.num
           a   == IF vni = Star THEN Only("external", TRUE) ELSE Only("id", vni.num)
           b   == Opt(src # Star, "local", src.addr)
           g   == IF Multicast(dst.addr) THEN "group" ELSE "remote"
           d   == Opt(dst # Star, g, dst.addr)
           e   == Only("dstport", p)
           ab  == a ++ b
           abd == ab ++ d
           o   == abd ++ e
<1>1. VXLANLink(sub, name, under).opts = o /\ VXLANLink(sub, name, under).type = "vxlan"
  BY DEF VXLANLink, Link
<1> HIDE DEF src, dst, vni, p
<1>2. /\ vni = Star => DOMAIN a = {"external"} /\ a["external"] = TRUE
      /\ vni # Star => DOMAIN a = {"id"} /\ a["id"] = vni.num
  BY OptionOnly
<1>3. /\ src = Star => DOMAIN b = {}
      /\ src # Star => DOMAIN b = {"local"} /\ b["local"] = src.addr
  BY OptionOnly DEF Opt
<1>4. /\ dst = Star => DOMAIN d = {}
      /\ dst # Star /\ Multicast(dst.addr) => DOMAIN d = {"group"}
      /\ dst # Star /\ ~Multicast(dst.addr) => DOMAIN d = {"remote"} /\ d["remote"] = dst.addr
  BY OptionOnly DEF Opt
<1>5. DOMAIN e = {"dstport"} /\ e["dstport"] = p
  BY OptionOnly
<1> HIDE DEF a, b, d, e
<1>6. /\ DOMAIN ab = DOMAIN a \cup DOMAIN b
      /\ vni = Star => ab["external"] = TRUE
      /\ vni # Star => ab["id"] = vni.num
      /\ src # Star => ab["local"] = src.addr
  BY <1>2, <1>3 DEF ++
<1> HIDE DEF ab
<1>7. /\ DOMAIN abd = DOMAIN ab \cup DOMAIN d
      /\ vni = Star => abd["external"] = TRUE
      /\ vni # Star => abd["id"] = vni.num
      /\ src # Star => abd["local"] = src.addr
      /\ dst # Star /\ ~Multicast(dst.addr) => abd["remote"] = dst.addr
  BY <1>2, <1>3, <1>4, <1>6 DEF ++
<1> HIDE DEF abd
<1>8. /\ DOMAIN o = DOMAIN abd \cup {"dstport"}
      /\ vni = Star => o["external"] = TRUE
      /\ vni # Star => o["id"] = vni.num
      /\ src # Star => o["local"] = src.addr
      /\ dst # Star /\ ~Multicast(dst.addr) => o["remote"] = dst.addr
      /\ o["dstport"] = p
  BY <1>2, <1>3, <1>4, <1>5, <1>6, <1>7 DEF ++
<1>9. /\ "external" \in DOMAIN o <=> vni = Star
      /\ "id" \in DOMAIN o <=> vni # Star
      /\ "local" \in DOMAIN o <=> src # Star
      /\ "remote" \in DOMAIN o <=> dst # Star /\ ~Multicast(dst.addr)
      /\ "dstport" \in DOMAIN o /\ "key" \notin DOMAIN o
  BY <1>2, <1>3, <1>4, <1>6, <1>7, <1>8
<1> HIDE DEF o
<1>10. VXLANHas(VXLANLink(sub, name, under), o, src, dst, vni, p)
  BY <1>1, <1>2, <1>3, <1>4, <1>6, <1>7, <1>8, <1>9 DEF VXLANHas
<1> QED BY <1>1, <1>10, Zenon DEF src, dst, vni, p

\* The devices of one point-to-point tile at the two ends meet.
LEMMA PointsMeet ==
  ASSUME NEW type, NEW x, NEW y, NEW name,
         Endpoint(x[1].props.src), Endpoint(x[1].props.dst),
         x[1].props.src # Star, x[1].props.dst # Star, Crossed(x[1], y[1]),
         type # "ipip" => SameButEnds(x[2], y[2])
  PROVE  Meets(PointToPoint(type, x, name), PointToPoint(type, y, name))
<1> PICK a : a = PointToPoint(type, x, name)
  OBVIOUS
<1> PICK b : b = PointToPoint(type, y, name)
  OBVIOUS
<1> PICK o : o = a.opts
  OBVIOUS
<1> PICK r : r = b.opts
  OBVIOUS
<1>1. /\ a.type = type
      /\ "local" \in DOMAIN o /\ o["local"] = x[1].props.src.addr
      /\ "remote" \in DOMAIN o /\ o["remote"] = x[1].props.dst.addr
      /\ "key" \in DOMAIN o <=> type # "ipip" /\ Key(x[2]) = "concrete"
      /\ "key" \in DOMAIN o => o["key"] = x[2].props.key
      /\ "id" \notin DOMAIN o /\ "external" \notin DOMAIN o /\ "dstport" \notin DOMAIN o
  BY PointToPointOptions
<1>2. /\ b.type = type
      /\ "local" \in DOMAIN r /\ r["local"] = y[1].props.src.addr
      /\ "remote" \in DOMAIN r /\ r["remote"] = y[1].props.dst.addr
      /\ "key" \in DOMAIN r <=> type # "ipip" /\ Key(y[2]) = "concrete"
      /\ "key" \in DOMAIN r => r["key"] = y[2].props.key
      /\ "id" \notin DOMAIN r /\ "external" \notin DOMAIN r /\ "dstport" \notin DOMAIN r
  BY PointToPointOptions
<1>3. y[1].props.src.addr = x[1].props.dst.addr /\ y[1].props.dst.addr = x[1].props.src.addr
  BY DEF Crossed
<1>4. type # "ipip" => Key(y[2]) = Key(x[2]) /\ (Key(x[2]) = "concrete" => y[2].props.key = x[2].props.key)
  BY ReadAlike
<1>5. Agree(o, r, {"id", "external", "key", "dstport"})
  BY <1>1, <1>2, <1>4 DEF Agree
<1> QED BY <1>1, <1>2, <1>3, <1>5 DEF Meets

\* The devices of VXLAN's tile at the two ends meet.
LEMMA VXLANsMeet ==
  ASSUME NEW x, NEW y, NEW name, NEW under, Crossed(x[1], y[1]),
         SameButEnds(x[2], y[2]), SameButEnds(x[3], y[3]),
         DstPort(x[2]) = "concrete", VNI(x[3]) \in {"concrete", "dynamic"}
  PROVE  Meets(VXLANLink(x, name, under), VXLANLink(y, name, under))
<1> PICK a : a = VXLANLink(x, name, under)
  OBVIOUS
<1> PICK b : b = VXLANLink(y, name, under)
  OBVIOUS
<1> PICK o : o = a.opts
  OBVIOUS
<1> PICK r : r = b.opts
  OBVIOUS
<1>1. VXLANHas(a, o, x[1].props.src, x[1].props.dst, x[3].props.vni, x[2].props.dst_port.num)
  BY VXLANOptions, Zenon
<1>2. VXLANHas(b, r, y[1].props.src, y[1].props.dst, y[3].props.vni, y[2].props.dst_port.num)
  BY VXLANOptions, Zenon
<1>3. y[3].props.vni = x[3].props.vni /\ y[2].props.dst_port = x[2].props.dst_port
  <2>1. y[3].props.vni = x[3].props.vni
    BY ReadAlike
  <2>2. y[2].props.dst_port = x[2].props.dst_port
    BY ReadAlike
  <2> QED BY <2>1, <2>2
<1>4. Agree(o, r, {"id", "external", "key", "dstport"})
  BY <1>1, <1>2, <1>3 DEF Agree, VXLANHas
<1>5. "remote" \in DOMAIN o => "local" \in DOMAIN r /\ r["local"] = o["remote"]
  BY <1>1, <1>2 DEF Crossed, VXLANHas
<1>6. "remote" \in DOMAIN r => "local" \in DOMAIN o /\ o["local"] = r["remote"]
  BY <1>1, <1>2 DEF Crossed, VXLANHas
<1> QED BY <1>1, <1>2, <1>4, <1>5, <1>6 DEF Meets, VXLANHas

\* The devices of one tile at the two ends meet.
LEMMA TilesMeet ==
  ASSUME NEW t \in TilesOf(Registry), NEW x, NEW y, SubsOpposite(t, x, y), Ready(t, x),
         t \notin {VLAN, WireGuard} => Crossed(x[1], y[1]), NEW name, NEW under
  PROVE  Meets(LinkOf(t, x, name, under), LinkOf(t, y, name, under))
<1>1. \A k \in 1..Len(t.pattern) : SameButEnds(x[k], y[k])
  BY DEF SubsOpposite
<1>2. ASSUME t \in {IPIP, GRE, GRETAP} PROVE x[1].props.src # Star /\ x[1].props.dst # Star
  <2>1. Get(x[1], "src", "addr") = "concrete" /\ Get(x[1], "dst", "addr") = "concrete"
    BY <1>2, SixTiles DEF Ready, endpoints, Src, Dst
  <2>2. ASSUME NEW n, NEW key, Get(n, key, "addr") = "concrete" PROVE n.props[key] # Star
    BY <2>2 DEF Get
  <2> QED BY <2>1, <2>2
<1>3. CASE t = IPIP
  <2>1. /\ LinkOf(t, x, name, under) = PointToPoint("ipip", x, name)
        /\ LinkOf(t, y, name, under) = PointToPoint("ipip", y, name)
    BY <1>3, SixTiles DEF LinkOf
  <2>2. /\ Endpoint(x[1].props.src) /\ Endpoint(x[1].props.dst) /\ Crossed(x[1], y[1])
        /\ x[1].props.src # Star /\ x[1].props.dst # Star
    BY <1>2, <1>3, SixTiles, ReadyEnds
  <2> QED BY <2>1, <2>2, PointsMeet, Zenon
<1>4. CASE t = GRE
  <2>1. /\ LinkOf(t, x, name, under) = PointToPoint("gre", x, name)
        /\ LinkOf(t, y, name, under) = PointToPoint("gre", y, name)
    BY <1>4, SixTiles DEF LinkOf
  <2>2. /\ Endpoint(x[1].props.src) /\ Endpoint(x[1].props.dst) /\ Crossed(x[1], y[1])
        /\ x[1].props.src # Star /\ x[1].props.dst # Star
    BY <1>2, <1>4, SixTiles, ReadyEnds
  <2>3. SameButEnds(x[2], y[2])
    BY <1>1, <1>4, PatternLengths
  <2> QED BY <2>1, <2>2, <2>3, PointsMeet, Zenon
<1>5. CASE t = GRETAP
  <2>1. /\ LinkOf(t, x, name, under) = PointToPoint("gretap", x, name)
        /\ LinkOf(t, y, name, under) = PointToPoint("gretap", y, name)
    BY <1>5, SixTiles DEF LinkOf
  <2>2. /\ Endpoint(x[1].props.src) /\ Endpoint(x[1].props.dst) /\ Crossed(x[1], y[1])
        /\ x[1].props.src # Star /\ x[1].props.dst # Star
    BY <1>2, <1>5, SixTiles, ReadyEnds
  <2>3. SameButEnds(x[2], y[2])
    BY <1>1, <1>5, PatternLengths
  <2> QED BY <2>1, <2>2, <2>3, PointsMeet, Zenon
<1>6. CASE t = VXLAN
  <2>1. /\ LinkOf(t, x, name, under) = VXLANLink(x, name, under)
        /\ LinkOf(t, y, name, under) = VXLANLink(y, name, under)
    BY <1>6, SixTiles DEF LinkOf
  <2>2. Crossed(x[1], y[1])
    BY <1>6, SixTiles
  <2>3. SameButEnds(x[2], y[2]) /\ SameButEnds(x[3], y[3])
    BY <1>1, <1>6, PatternLengths
  <2>4. DstPort(x[2]) = "concrete" /\ VNI(x[3]) \in {"concrete", "dynamic"}
    BY <1>6, SixTiles DEF Ready, ReadyVXLAN
  <2> QED BY <2>1, <2>2, <2>3, <2>4, VXLANsMeet, Zenon
<1>7. CASE t = VLAN
  <2>1. /\ LinkOf(t, x, name, under) = Link("vlan", name, under, Only("id", x[2].props.id.num))
        /\ LinkOf(t, y, name, under) = Link("vlan", name, under, Only("id", y[2].props.id.num))
    BY <1>7, SixTiles DEF LinkOf
  <2>2. SameButEnds(x[2], y[2]) /\ VLANID(x[2]) = "concrete"
    <3>1. SameButEnds(x[2], y[2])
      BY <1>1, <1>7, PatternLengths
    <3>2. VLANID(x[2]) = "concrete"
      BY <1>7, SixTiles DEF Ready, ReadyVLAN
    <3> QED BY <3>1, <3>2
  <2>3. LinkOf(t, x, name, under) = LinkOf(t, y, name, under)
    BY <2>1, <2>2, ReadAlike
  <2> PICK o : o = Only("id", x[2].props.id.num)
    OBVIOUS
  <2>4. LinkOf(t, x, name, under).opts = o
    BY <2>1 DEF Link
  <2>5. DOMAIN o = {"id"}
    BY OptionOnly
  <2> QED BY <2>3, <2>4, <2>5 DEF Meets, Agree
<1>8. CASE t = WireGuard
  <2>1. /\ LinkOf(t, x, name, under) = Link("wireguard", name, NoDev, NoProps)
        /\ LinkOf(t, y, name, under) = Link("wireguard", name, NoDev, NoProps)
    BY <1>8, SixTiles DEF LinkOf
  <2>2. LinkOf(t, x, name, under).opts = NoProps
    BY <2>1 DEF Link
  <2>3. DOMAIN NoProps = {}
    BY DEF NoProps
  <2> QED BY <2>1, <2>2, <2>3 DEF Meets, Agree
<1> QED BY <1>3, <1>4, <1>5, <1>6, <1>7, <1>8, SixTiles

\* The two ends of a tree make the same number of devices, at the same places.
LEMMA SameDevices ==
  ASSUME NEW l, NEW f, Opposite(l, f),
         NEW s, NEW h, NEW e, NEW n, NEW u, CompletedBy(l, s, h, e, n, u),
         NEW z, NEW g, NEW d, NEW m, NEW w, CompletedBy(f, z, g, d, m, w)
  PROVE  m = n /\ n \in Nat /\ \A k \in 0..n : g[k] = h[k]
<1>1. Walked(l, h, e, n) /\ EndsAt(l, h[n]) /\ Walked(f, g, d, m) /\ EndsAt(f, g[m])
  BY DEF CompletedBy
<1>2. n \in Nat /\ m \in 0..n /\ (CandidatesAt(f, g[m].at) = {} <=> m = n)
  BY <1>1, SameNumber
<1>3. CandidatesAt(f, g[m].at) = {}
  BY <1>1 DEF EndsAt
<1>4. m = n
  BY <1>2, <1>3
<1>5. \A k \in 0..n : k \in 0..m => g[k] = h[k]
  BY <1>1, SamePath
<1> QED BY <1>2, <1>4, <1>5

\* Device by device, the printed ends meet.
LEMMA FollowMeets ==
  ASSUME FollowInv, BothPrinted, InnerIsOneEnded
  PROVE  LET a == LinksOf(near.script)
             b == LinksOf(out[1].script)
         IN Len(a) = Len(b) /\ \A j \in 1..Len(a) : Meets(a[j], b[j])
<1> PICK l : l = near.layers
  OBVIOUS
<1> PICK f : f = file[1].layers
  OBVIOUS
<1> PICK s : s = near.script
  OBVIOUS
<1> PICK z : z = out[1].script
  OBVIOUS
<1>1. MirrorInv /\ side = "far" /\ phase = "done"
  BY DEF FollowInv, BothPrinted
<1>2. Opposite(l, f)
  BY <1>1, FarIsOpposite
<1>3. /\ IsSeq(l) /\ \A j \in 1..Len(l) : IsLayer(l[j]) /\ RawLayer(l[j])
      /\ f = PeerLayers(l, inner)
  BY <1>1, NearIsRead
<1>4. Completed(l, s)
  BY <1>1 DEF FollowInv
<1>5. Completed(f, z)
  <2>1. rule > 1
    BY <1>1 DEF FollowInv
  <2> QED BY <1>1, <2>1 DEF FollowInv
<1>6. PICK h, e, n, u : CompletedBy(l, s, h, e, n, u)
  BY <1>4 DEF Completed
<1>7. PICK g, d, m, w : CompletedBy(f, z, g, d, m, w)
  BY <1>5 DEF Completed
<1>8. m = n /\ n \in Nat /\ \A k \in 0..n : g[k] = h[k]
  BY <1>2, <1>6, <1>7, SameDevices
<1>9. MadeBy(l, h, s, n) /\ MadeBy(f, g, z, n)
  BY <1>6, <1>7, <1>8, CompletedMade
<1>10. /\ Len(LinksOf(s)) = n /\ \A j \in 1..n : LinksOf(s)[j] = LinkAt(l, h[j - 1])
       /\ Len(LinksOf(z)) = n /\ \A j \in 1..n : LinksOf(z)[j] = LinkAt(f, g[j - 1])
  BY <1>9 DEF MadeBy
<1>11. ASSUME NEW j \in 1..n PROVE Meets(LinkAt(l, h[j - 1]), LinkAt(f, h[j - 1]))
  <2> PICK p : p = h[j - 1]
    OBVIOUS
  <2>1. Passed(l, p)
    <3>1. Walked(l, h, e, n)
      BY <1>6 DEF CompletedBy
    <3>2. Turns(l, h[j - 1], e[j - 1], h[j], e[j])
      BY <3>1, Zenon DEF Walked
    <3> QED BY <3>2 DEF Turns
  <2> PICK t : t = TileAt(l, p.at)
    OBVIOUS
  <2> PICK x : x = SubAt(l, p)
    OBVIOUS
  <2> PICK y : y = SubAt(f, p)
    OBVIOUS
  <2>2. /\ TileAt(f, p.at) = t /\ t \in TilesOf(Registry) /\ SubsOpposite(t, x, y)
        /\ \A k \in 1..Len(t.pattern) :
             p.at + k \in 1..Len(l) /\ x[k] = l[p.at + k] /\ y[k] = f[p.at + k]
    BY <1>2, <2>1, SamePick
  <2>3. Ready(t, x) /\ Ready(t, y) /\ p.at \in Nat
    <3>1. Walked(f, g, d, m)
      BY <1>7 DEF CompletedBy
    <3>2. Turns(f, g[j - 1], d[j - 1], g[j], d[j])
      BY <1>8, <3>1, Zenon DEF Walked
    <3>3. j - 1 \in 0..n
      BY <1>8
    <3>4. Passed(f, p)
      BY <1>8, <3>2, <3>3 DEF Turns
    <3> QED BY <2>1, <2>2, <3>4 DEF Passed
  <2>4. NameAt(f, p) = NameAt(l, p)
    BY <1>2, <2>1, SameTurn
  <2>5. ASSUME t \notin {VLAN, WireGuard} PROVE Crossed(x[1], y[1])
    <3>1. /\ TwoEnded(x[1]) /\ Endpoint(x[1].props.src) /\ Endpoint(x[1].props.dst)
          /\ Endpoint(y[1].props.src) /\ Endpoint(y[1].props.dst)
      BY <2>2, <2>3, <2>5, ReadyEnds
    <3>2. 1 \in 1..Len(t.pattern)
      <4>1. PICK c \in Nat : c = Len(t.pattern) /\ c >= 2
        BY <2>2, SixTiles
      <4> QED BY <4>1
    <3> PICK i : i = p.at + 1
      OBVIOUS
    <3>3. i \in 1..Len(l) /\ x[1] = l[i] /\ y[1] = f[i]
      BY <2>2, <3>2, Zenon
    <3>4. \A q \in innermostAddressed(l) : ~TwoEnded(l[q])
      BY DEF InnerIsOneEnded
    <3>5. Crossed(l[i], PeerLayers(l, inner)[i])
      <4>1. Len(l) \in Nat /\ IsLayer(l[i]) /\ RawLayer(l[i])
        BY <1>3, <3>3, SeqLength
      <4>2. /\ TwoEnded(l[i]) /\ Endpoint(l[i].props.src) /\ Endpoint(l[i].props.dst)
            /\ Endpoint(PeerLayers(l, inner)[i].props.src)
            /\ Endpoint(PeerLayers(l, inner)[i].props.dst)
        BY <1>3, <3>1, <3>3, Zenon
      <4> QED BY <3>3, <3>4, <4>1, <4>2, TurnsOver
    <3> QED BY <1>3, <3>3, <3>5, Zenon
  <2>6. Meets(LinkOf(t, x, NameAt(l, p), p.dev), LinkOf(t, y, NameAt(l, p), p.dev))
    BY <2>2, <2>3, <2>5, TilesMeet
  <2> QED BY <2>2, <2>4, <2>6, Zenon DEF LinkAt
<1>12. ASSUME NEW j \in 1..n PROVE Meets(LinksOf(s)[j], LinksOf(z)[j])
  <2>1. j - 1 \in 0..n
    BY <1>8
  <2>2. g[j - 1] = h[j - 1]
    BY <1>8, <2>1
  <2>3. LinksOf(s)[j] = LinkAt(l, h[j - 1]) /\ LinksOf(z)[j] = LinkAt(f, h[j - 1])
    BY <1>10, <2>2, Zenon
  <2> QED BY <1>11, <2>3, Zenon
<1> QED BY <1>10, <1>12

\* The printed ends have the same devices, whose identifiers agree, and each
\* remote is where the other end says it is.
THEOREM PrintedEndsMeet == MirrorSpec => []EndsMeet
<1>1. FollowInv => EndsMeet
  BY FollowMeets DEF EndsMeet, Meets
<1> QED BY <1>1, FollowInvariant, PTL

----------------------------------------------------------------------------
\* The addresses a script places.

\* What a script places are the addresses of its address commands.
LEMMA PlacedFrom ==
  ASSUME NEW s, IsSeq(s), NEW a \in ToSet(PlacedBy(s))
  PROVE  \E j \in 1..Len(s) : s[j].op = "addr" /\ a = Prefix(s[j].addr, s[j].bits)
<1> DEFINE J == {j \in 1..Len(s) : s[j].op = "addr"}
           V == {Prefix(s[j].addr, s[j].bits) : j \in J}
           p == [j \in 1..Len(s) |-> PlacedByOne(s[j])]
<1>1. Len(s) \in Nat
  BY DEF IsSeq
<1>2. ASSUME NEW j \in 1..Len(s) PROVE PlacedByOne(s[j]) \in Seq(V)
  <2> DEFINE v == Prefix(s[j].addr, s[j].bits)
  <2>1. s[j].op = "addr" => v \in V
    OBVIOUS
  <2> HIDE DEF V, v
  <2>2. (v \in V => <<v>> \in Seq(V)) /\ << >> \in Seq(V)
    OBVIOUS
  <2> QED BY <2>1, <2>2 DEF PlacedByOne, v
<1> HIDE DEF V
<1>3. p \in Seq(Seq(V))
  BY <1>1, <1>2, FcnIsSeq
<1> HIDE DEF p
<1>4. PlacedBy(s) \in Seq(V)
  BY <1>3, FlattenType DEF PlacedBy, p
<1>5. ToSet(PlacedBy(s)) \subseteq V
  <2> PICK w : w = PlacedBy(s)
    OBVIOUS
  <2>1. w \in Seq(V)
    BY <1>4
  <2>2. \A k \in DOMAIN w : w[k] \in V
    BY <2>1
  <2>3. ToSet(w) \subseteq V
    BY <2>2 DEF ToSet
  <2> QED BY <2>3
<1>6. a \in V
  BY <1>5
<1> QED BY <1>6 DEF V

\* An address command whose address is on one of the layers.
FromLayer(layers, c) ==
  \E i \in 1..Len(layers) :
    /\ CarriesAddress(layers[i])
    /\ c.addr = layers[i].props.src.addr /\ c.bits = layers[i].props.src.bits

FromLayers(layers, s) ==
  IsSeq(s) /\ \A j \in 1..Len(s) : s[j].op = "addr" => FromLayer(layers, s[j])

\* One script after the other.
LEMMA FromConcat ==
  ASSUME NEW layers, NEW s, NEW t, FromLayers(layers, s), FromLayers(layers, t)
  PROVE  FromLayers(layers, s \o t)
<1> PICK u : u = s \o t
  OBVIOUS
<1>0. IsSeq(s) /\ IsSeq(t)
  BY DEF FromLayers
<1>1. /\ Len(s) \in Nat /\ Len(t) \in Nat /\ IsSeq(u) /\ Len(u) = Len(s) + Len(t)
      /\ \A j \in 1..Len(s) : u[j] = s[j]
      /\ \A j \in 1..Len(t) : u[Len(s) + j] = t[j]
  BY <1>0, ConcatIsSeq
<1>2. ASSUME NEW j \in 1..Len(u), u[j].op = "addr" PROVE FromLayer(layers, u[j])
  <2>1. CASE j \in 1..Len(s)
    BY <1>1, <1>2, <2>1 DEF FromLayers
  <2>2. CASE j \notin 1..Len(s)
    <3> PICK k : k = j - Len(s)
      OBVIOUS
    <3>1. k \in 1..Len(t) /\ j = Len(s) + k
      BY <1>1, <2>2
    <3>2. u[j] = t[k]
      BY <1>1, <3>1, Zenon
    <3> QED BY <1>2, <3>1, <3>2 DEF FromLayers
  <2> QED BY <2>1, <2>2
<1> QED BY <1>1, <1>2 DEF FromLayers

\* The address of a layer.
LEMMA FromAddrOn ==
  ASSUME NEW layers, NEW i \in 1..Len(layers), NEW d
  PROVE  FromLayers(layers, addrOn(layers[i], d))
<1> PICK n : n = layers[i]
  OBVIOUS
<1>1. CASE CarriesAddress(n)
  <2> PICK a : a = AddAddr(d, n.props.src)
    OBVIOUS
  <2>1. addrOn(n, d) = <<a>>
    BY <1>1 DEF addrOn
  <2>2. a.addr = n.props.src.addr /\ a.bits = n.props.src.bits
    BY DEF AddAddr
  <2>3. FromLayer(layers, a)
    BY <1>1, <2>2 DEF FromLayer
  <2>4. <<a>> \in Seq({a}) /\ \A j \in 1..Len(<<a>>) : <<a>>[j] = a
    OBVIOUS
  <2>5. IsSeq(<<a>>)
    BY <2>4, SeqIsSeq
  <2> QED BY <2>1, <2>3, <2>4, <2>5 DEF FromLayers
<1>2. CASE ~CarriesAddress(n)
  <2>1. addrOn(n, d) = << >> /\ IsSeq(<< >>) /\ Len(<< >>) = 0
    BY <1>2, EmptySeq, SeqIsSeq DEF addrOn
  <2> QED BY <2>1 DEF FromLayers
<1> QED BY <1>1, <1>2

\* Commands that place no address.
LEMMA FromNone ==
  ASSUME NEW layers, NEW s, IsSeq(s), \A j \in 1..Len(s) : s[j].op # "addr"
  PROVE  FromLayers(layers, s)
BY DEF FromLayers

\* One link.
LEMMA FromLink ==
  ASSUME NEW layers, NEW l, l.op = "link"
  PROVE  FromLayers(layers, <<l>>)
<1>1. <<l>> \in Seq({l}) /\ \A j \in 1..Len(<<l>>) : <<l>>[j] = l
  OBVIOUS
<1>2. IsSeq(<<l>>)
  BY <1>1, SeqIsSeq
<1> QED BY <1>1, <1>2 DEF FromLayers

\* VXLAN's tile places the address of its outer layer, as addrOn does.
LEMMA UnderlayPlaced ==
  ASSUME NEW x, NEW d, x[1].name \in {"ipv4", "ipv6"},
         readEndpoint(x[1], "src") \in {"concrete", "dynamic"}
  PROVE  underlayAddress(x, d) = addrOn(x[1], d)
<1> PICK n : n = x[1]
  OBVIOUS
<1>1. ASSUME n.props["src"].kind = "prefix" PROVE CarriesAddress(n)
  <2>1. Lookup(n, "src")
    BY DEF readEndpoint, Get
  <2>2. n.props["src"] # Star
    BY <1>1 DEF Star
  <2>3. Parses("prefix", n.props["src"])
    BY <1>1 DEF Parses, ParsePrefix
  <2> QED BY <2>1, <2>2, <2>3 DEF CarriesAddress, SrcPrefix, Get
<1>2. CarriesAddress(n) => n.props["src"].kind = "prefix"
  BY CarriedAddress
<1>3. underlayAddress(x, d) = IF n.props.src.kind = "prefix" THEN <<AddAddr(d, n.props.src)>> ELSE << >>
  BY DEF underlayAddress
<1> QED BY <1>1, <1>2, <1>3 DEF addrOn

\* A tile places only addresses of the layers it matched.
LEMMA TileFrom ==
  ASSUME NEW layers, NEW p, Passed(layers, p), IsSeq(layers)
  PROVE  FromLayers(layers, CommandsAt(layers, p))
<1> PICK t : t = TileAt(layers, p.at)
  OBVIOUS
<1> PICK x : x = SubAt(layers, p)
  OBVIOUS
<1> PICK name : name = NameAt(layers, p)
  OBVIOUS
<1> PICK i : i = p.at
  OBVIOUS
<1>1. i \in Nat /\ t \in TilesOf(Registry) /\ Matches(t, layers, i) /\ Ready(t, x)
  BY DEF Passed, CandidatesAt
<1>2. PICK w \in Nat : w = Len(t.pattern)
  BY <1>1, SixTiles
<1>3. i + w <= Len(layers) /\ \A k \in 1..w : layers[i + k].name = t.pattern[k]
  BY <1>1, <1>2 DEF Matches
<1>4. x = Slice(layers, i, i + w)
  BY <1>2 DEF SubAt
<1>5. \A k \in 1..w : i + k \in 1..Len(layers) /\ x[k] = layers[i + k]
  BY <1>1, <1>3, <1>4, SubIs
<1>6. ASSUME NEW k \in 1..w, NEW d PROVE FromLayers(layers, addrOn(x[k], d))
  <2> PICK m : m = i + k
    OBVIOUS
  <2>1. m \in 1..Len(layers) /\ x[k] = layers[m]
    BY <1>5
  <2>2. FromLayers(layers, addrOn(layers[m], d))
    BY <2>1, FromAddrOn
  <2> QED BY <2>1, <2>2, Zenon
<1> PICK c : c = Commands(t, x, name, p.dev)
  OBVIOUS
<1>7. CASE t = IPIP
  <2>1. c = <<PointToPoint("ipip", x, name)>> \o addrOn(x[2], name)
    BY <1>7, SixTiles DEF Commands, lowerIPIP
  <2>2. PointToPoint("ipip", x, name).op = "link"
    BY DEF PointToPoint, Link
  <2>3. FromLayers(layers, addrOn(x[2], name))
    BY <1>2, <1>6, <1>7, PatternLengths
  <2> QED BY <2>1, <2>2, <2>3, FromLink, FromConcat, Zenon DEF CommandsAt
<1>8. CASE t = GRE
  <2>1. c = <<PointToPoint("gre", x, name)>> \o addrOn(x[3], name)
    BY <1>8, SixTiles DEF Commands, lowerGRE
  <2>2. PointToPoint("gre", x, name).op = "link"
    BY DEF PointToPoint, Link
  <2>3. FromLayers(layers, addrOn(x[3], name))
    BY <1>2, <1>6, <1>8, PatternLengths
  <2> QED BY <2>1, <2>2, <2>3, FromLink, FromConcat, Zenon DEF CommandsAt
<1>9. CASE t = GRETAP
  <2>1. c = <<PointToPoint("gretap", x, name)>>
    BY <1>9, SixTiles DEF Commands, lowerGRETAP
  <2>2. PointToPoint("gretap", x, name).op = "link"
    BY DEF PointToPoint, Link
  <2> QED BY <2>1, <2>2, FromLink, Zenon DEF CommandsAt
<1>10. CASE t = VLAN
  <2> PICK l : l = Link("vlan", name, p.dev, Only("id", x[2].props.id.num))
    OBVIOUS
  <2>1. c = <<l>>
    BY <1>10, SixTiles DEF Commands, lowerVLAN
  <2>2. l.op = "link"
    BY DEF Link
  <2> QED BY <2>1, <2>2, FromLink, Zenon DEF CommandsAt
<1>11. CASE t = VXLAN
  <2> PICK a : a = addrOn(x[1], p.dev)
    OBVIOUS
  <2> PICK l : l = VXLANLink(x, name, p.dev)
    OBVIOUS
  <2>1. x[1].name = "ipv4"
    <3>1. 1 \in 1..w /\ t.pattern[1] = "ipv4"
      BY <1>2, <1>11, PatternLengths DEF VXLAN, LinuxTile
    <3> QED BY <1>3, <1>5, <3>1, Zenon
  <2>2. readEndpoint(x[1], "src") \in {"concrete", "dynamic"}
    BY <1>1, <1>11, SixTiles DEF Ready, ReadyVXLAN
  <2>3. underlayAddress(x, p.dev) = a
    BY <2>1, <2>2, UnderlayPlaced
  <2>4. c = Append(a, l)
    BY <1>11, <2>3, SixTiles DEF Commands, lowerVXLAN
  <2>5. l.op = "link"
    BY DEF VXLANLink, Link
  <2>6. FromLayers(layers, a) /\ FromLayers(layers, <<l>>)
    <3>1. 1 \in 1..w
      BY <1>2, <1>11, PatternLengths
    <3> QED BY <1>6, <2>5, <3>1, FromLink
  <2>7. c = a \o <<l>>
    <3>1. PICK S : a \in Seq(S)
      BY <2>6 DEF FromLayers, IsSeq
    <3>2. a \in Seq(S \cup {l}) /\ <<l>> \in Seq(S \cup {l})
      BY <3>1, SeqMonotonic
    <3> QED BY <2>4, <3>2, AppendIsConcat
  <2> QED BY <2>6, <2>7, FromConcat, Zenon DEF CommandsAt
<1>12. CASE t = WireGuard
  <2> PICK l : l = Link("wireguard", name, NoDev, NoProps)
    OBVIOUS
  <2> PICK u : u = WgSet(name, Only("listen_port", x[2].props.src_port.num))
    OBVIOUS
  <2> PICK v : v = WireGuardPeer(x, name)
    OBVIOUS
  <2> PICK d : d = <<l, u, v>>
    OBVIOUS
  <2>1. c = d \o addrOn(x[4], name)
    BY <1>12, SixTiles DEF Commands, lowerWireGuard
  <2>2. l.op = "link" /\ u.op = "wg" /\ v.op = "wg"
    BY DEF Link, WgSet, WireGuardPeer
  <2>3. d \in Seq({l, u, v}) /\ \A j \in 1..Len(d) : d[j] = l \/ d[j] = u \/ d[j] = v
    <3>1. d \in Seq({l, u, v}) /\ Len(d) = 3 /\ d[1] = l /\ d[2] = u /\ d[3] = v
      OBVIOUS
    <3>2. \A j \in 1..3 : j = 1 \/ j = 2 \/ j = 3
      OBVIOUS
    <3> QED BY <3>1, <3>2
  <2>4. IsSeq(d) /\ \A j \in 1..Len(d) : d[j].op # "addr"
    BY <2>2, <2>3, SeqIsSeq
  <2>5. FromLayers(layers, addrOn(x[4], name)) /\ FromLayers(layers, d)
    <3>1. FromLayers(layers, addrOn(x[4], name))
      BY <1>2, <1>6, <1>12, PatternLengths
    <3>2. FromLayers(layers, d)
      BY <2>4, FromNone, Zenon
    <3> QED BY <3>1, <3>2
  <2> QED BY <2>1, <2>5, FromConcat, Zenon DEF CommandsAt
<1> QED BY <1>1, <1>7, <1>8, <1>9, <1>10, <1>11, <1>12, SixTiles

\* So does a rule.
LEMMA CompletedFrom ==
  ASSUME NEW layers, IsSeq(layers), NEW s, NEW h, NEW e, NEW n, NEW u,
         CompletedBy(layers, s, h, e, n, u)
  PROVE  FromLayers(layers, s)
<1>1. /\ Walked(layers, h, e, n) /\ EndsAt(layers, h[n]) /\ OnlyUps(u)
      /\ s = (e[n] \o LastOf(layers, h[n])) \o u
  BY DEF CompletedBy
<1>2. n \in Nat /\ e[0] = << >>
  BY <1>1 DEF Walked
<1>3. FromLayers(layers, e[0])
  <2>1. IsSeq(<< >>) /\ Len(<< >>) = 0
    BY EmptySeq, SeqIsSeq
  <2> QED BY <1>2, <2>1 DEF FromLayers
<1>4. ASSUME NEW k \in 1..n, FromLayers(layers, e[k - 1]) PROVE FromLayers(layers, e[k])
  <2>1. Turns(layers, h[k - 1], e[k - 1], h[k], e[k])
    BY <1>1, Zenon DEF Walked
  <2>2. Passed(layers, h[k - 1]) /\ e[k] = e[k - 1] \o CommandsAt(layers, h[k - 1])
    BY <2>1 DEF Turns
  <2>3. FromLayers(layers, CommandsAt(layers, h[k - 1]))
    BY <2>2, TileFrom
  <2>4. FromLayers(layers, e[k - 1] \o CommandsAt(layers, h[k - 1]))
    BY <1>4, <2>3, FromConcat, Zenon
  <2> QED BY <2>2, <2>4, Zenon
<1>5. FromLayers(layers, e[n])
  <2> DEFINE T == {k \in 1..n : FromLayers(layers, e[k])}
  <2>1. CASE n = 0
    BY <1>3, <2>1
  <2>2. CASE n # 0
    <3>1. 1 \in T
      <4>1. 1 \in 1..n /\ 1 - 1 = 0
        BY <1>2, <2>2
      <4> QED BY <1>3, <1>4, <4>1
    <3>2. ASSUME NEW k \in 2..n, k - 1 \in T PROVE k \in T
      <4>1. k \in 1..n /\ k - 1 \in 1..n
        BY <1>2
      <4> QED BY <1>4, <3>2, <4>1
    <3>3. \A k \in 1..n : k \in T
      <4> HIDE DEF T
      <4> QED BY <1>2, <3>1, <3>2, UpFromOne
    <3>4. n \in 1..n
      BY <1>2, <2>2
    <3> QED BY <3>3, <3>4
  <2> QED BY <2>1, <2>2
<1>6. FromLayers(layers, LastOf(layers, h[n]))
  <2>1. CASE h[n].at < Len(layers)
    <3>1. LastOf(layers, h[n]) = addrOn(layers[h[n].at + 1], h[n].dev)
      BY <2>1 DEF LastOf
    <3> PICK i : i = h[n].at + 1
      OBVIOUS
    <3>2. i \in 1..Len(layers)
      BY <1>1, <2>1, SeqLength DEF EndsAt
    <3>3. FromLayers(layers, addrOn(layers[i], h[n].dev))
      BY <3>2, FromAddrOn
    <3> QED BY <3>1, <3>3, Zenon
  <2>2. CASE ~(h[n].at < Len(layers))
    <3>1. LastOf(layers, h[n]) = << >>
      BY <2>2 DEF LastOf
    <3> QED BY <1>2, <1>3, <3>1, Zenon
  <2> QED BY <2>1, <2>2
<1>7. FromLayers(layers, u)
  BY <1>1, FromNone DEF OnlyUps
<1>8. FromLayers(layers, e[n] \o LastOf(layers, h[n]))
  BY <1>5, <1>6, FromConcat, Zenon
<1>9. FromLayers(layers, (e[n] \o LastOf(layers, h[n])) \o u)
  BY <1>7, <1>8, FromConcat, Zenon
<1> QED BY <1>1, <1>9, Zenon

\* Scripts that do the same, command by command.
SameOps(s, z) ==
  IsSeq(s) /\ IsSeq(z) /\ Len(z) = Len(s) /\ \A j \in 1..Len(s) : z[j].op = s[j].op

\* One such pair after the other.
LEMMA SameOpsConcat ==
  ASSUME NEW s, NEW z, SameOps(s, z), NEW t, NEW y, SameOps(t, y)
  PROVE  SameOps(s \o t, z \o y)
<1> PICK u : u = s \o t
  OBVIOUS
<1> PICK v : v = z \o y
  OBVIOUS
<1>1. IsSeq(s) /\ IsSeq(t) /\ IsSeq(z) /\ IsSeq(y) /\ Len(z) = Len(s) /\ Len(y) = Len(t)
  BY DEF SameOps
<1>2. /\ Len(s) \in Nat /\ Len(t) \in Nat /\ IsSeq(u) /\ Len(u) = Len(s) + Len(t)
      /\ \A j \in 1..Len(s) : u[j] = s[j]
      /\ \A j \in 1..Len(t) : u[Len(s) + j] = t[j]
  BY <1>1, ConcatIsSeq
<1>3. /\ IsSeq(v) /\ Len(v) = Len(z) + Len(y)
      /\ \A j \in 1..Len(z) : v[j] = z[j]
      /\ \A j \in 1..Len(y) : v[Len(z) + j] = y[j]
  <2>1. IsSeq(z) /\ IsSeq(y)
    BY <1>1
  <2> QED BY <2>1, ConcatIsSeq
<1>4. ASSUME NEW j \in 1..Len(u) PROVE v[j].op = u[j].op
  <2>1. CASE j \in 1..Len(s)
    BY <1>1, <1>2, <1>3, <2>1 DEF SameOps
  <2>2. CASE j \notin 1..Len(s)
    <3> PICK k : k = j - Len(s)
      OBVIOUS
    <3>1. k \in 1..Len(t) /\ j = Len(s) + k
      BY <1>2, <2>2
    <3>2. u[j] = t[k] /\ v[j] = y[k]
      BY <1>1, <1>2, <1>3, <3>1, Zenon
    <3> QED BY <3>1, <3>2 DEF SameOps
  <2> QED BY <2>1, <2>2
<1>5. Len(v) = Len(u)
  BY <1>1, <1>2, <1>3
<1> QED BY <1>2, <1>3, <1>4, <1>5 DEF SameOps

\* They place as many addresses.
LEMMA SameOpsPlace ==
  ASSUME NEW s, NEW z, SameOps(s, z)
  PROVE  Len(PlacedBy(z)) = Len(PlacedBy(s)) /\ Len(PlacedBy(s)) \in Nat
<1> DEFINE V == {Prefix(s[j].addr, s[j].bits) : j \in 1..Len(s)}
                  \cup {Prefix(z[j].addr, z[j].bits) : j \in 1..Len(s)}
           p == [j \in 1..Len(s) |-> PlacedByOne(s[j])]
           q == [j \in 1..Len(s) |-> PlacedByOne(z[j])]
<1>1. PICK n \in Nat : n = Len(s) /\ n = Len(z)
  BY SeqLength DEF SameOps
<1>2. ASSUME NEW j \in 1..n
      PROVE  /\ PlacedByOne(s[j]) \in Seq(V) /\ PlacedByOne(z[j]) \in Seq(V)
             /\ Len(PlacedByOne(z[j])) = Len(PlacedByOne(s[j]))
  <2> DEFINE v == Prefix(s[j].addr, s[j].bits)
             w == Prefix(z[j].addr, z[j].bits)
  <2>1. v \in V /\ w \in V
    BY <1>1
  <2> HIDE DEF V, v, w
  <2>2. /\ <<v>> \in Seq(V) /\ <<w>> \in Seq(V) /\ << >> \in Seq(V)
        /\ Len(<<v>>) = 1 /\ Len(<<w>>) = 1
    BY <2>1
  <2>3. z[j].op = s[j].op
    BY <1>1 DEF SameOps
  <2> QED BY <2>2, <2>3 DEF PlacedByOne, v, w
<1> HIDE DEF V
<1>3. p \in Seq(Seq(V)) /\ Len(p) = n /\ q \in Seq(Seq(V)) /\ Len(q) = n
  BY <1>1, <1>2, FcnIsSeq
<1>4. \A j \in 1..n : Len(q[j]) = Len(p[j])
  BY <1>1, <1>2
<1>5. PlacedBy(s) = FlattenSeq(p) /\ PlacedBy(z) = FlattenSeq(q)
  BY <1>1 DEF PlacedBy
<1> HIDE DEF p, q
<1>6. CASE n = 0
  <2>1. p = << >> /\ q = << >>
    BY <1>3, <1>6
  <2>2. FlattenSeq(p) = << >> /\ FlattenSeq(q) = << >> /\ Len(<< >>) = 0
    BY <2>1, FlattenNone
  <2>3. 0 \in Nat
    OBVIOUS
  <2> QED BY <1>5, <2>2, <2>3, Zenon
<1>7. CASE n # 0
  <2>1. p # << >> /\ q # << >>
    <3>1. Len(<< >>) = 0
      OBVIOUS
    <3> QED BY <1>3, <1>7, <3>1
  <2>2. PICK f : Steps(p, f) /\ \A i \in 1..Len(p) : f[i] \in Seq(V)
    BY <1>3, <2>1, FlattenSteps
  <2>3. PICK g : Steps(q, g) /\ \A i \in 1..Len(q) : g[i] \in Seq(V)
    BY <1>3, <2>1, FlattenSteps
  <2> DEFINE T == {i \in 1..n : Len(g[i]) = Len(f[i])}
  <2>4. 1 \in T
    <3>1. 1 \in 1..n
      BY <1>7
    <3>2. f[1] = p[1] /\ g[1] = q[1]
      BY <2>2, <2>3 DEF Steps
    <3> QED BY <1>4, <3>1, <3>2
  <2>5. ASSUME NEW i \in 2..n, i - 1 \in T PROVE i \in T
    <3>1. i \in 1..n /\ i - 1 \in 1..n
      OBVIOUS
    <3> PICK a : a = f[i - 1]
      OBVIOUS
    <3> PICK b : b = p[i]
      OBVIOUS
    <3> PICK c : c = g[i - 1]
      OBVIOUS
    <3> PICK d : d = q[i]
      OBVIOUS
    <3>2. a \in Seq(V) /\ c \in Seq(V) /\ b \in Seq(V) /\ d \in Seq(V)
      BY <1>3, <2>2, <2>3, <3>1
    <3>3. Len(c) = Len(a) /\ Len(d) = Len(b)
      BY <1>4, <2>5, <3>1
    <3>4. f[i] = a \o b /\ g[i] = c \o d
      BY <1>3, <2>2, <2>3 DEF Steps
    <3>5. Len(a \o b) = Len(a) + Len(b) /\ Len(c \o d) = Len(c) + Len(d)
      BY <3>2
    <3>6. Len(g[i]) = Len(f[i])
      BY <3>3, <3>4, <3>5
    <3> QED BY <3>1, <3>6
  <2>6. \A i \in 1..n : i \in T
    <3> HIDE DEF T
    <3> QED BY <2>4, <2>5, UpFromOne
  <2>7. n \in 1..n
    BY <1>7
  <2>8. Len(g[n]) = Len(f[n]) /\ f[n] \in Seq(V)
    BY <1>3, <2>2, <2>6, <2>7
  <2>9. FlattenSeq(p) = f[n] /\ FlattenSeq(q) = g[n]
    BY <1>3, <2>2, <2>3 DEF Steps
  <2>10. Len(f[n]) \in Nat
    BY <2>8
  <2> QED BY <1>5, <2>8, <2>9, <2>10, Zenon
<1> QED BY <1>6, <1>7

\* One command.
LEMMA SameOpsOne ==
  ASSUME NEW a, NEW b, b.op = a.op
  PROVE  SameOps(<<a>>, <<b>>)
<1>1. <<a>> \in Seq({a}) /\ <<b>> \in Seq({b}) /\ Len(<<a>>) = 1 /\ Len(<<b>>) = 1
  OBVIOUS
<1>2. \A j \in 1..1 : <<a>>[j] = a /\ <<b>>[j] = b
  OBVIOUS
<1>3. IsSeq(<<a>>) /\ IsSeq(<<b>>)
  BY <1>1, SeqIsSeq
<1> QED BY <1>1, <1>2, <1>3 DEF SameOps

\* The address of a layer, where both carry one or neither does.
LEMMA SameOpsAddr ==
  ASSUME NEW n, NEW f, CarriesAddress(f) = CarriesAddress(n), NEW d
  PROVE  SameOps(addrOn(n, d), addrOn(f, d))
<1>1. CASE CarriesAddress(n)
  <2> PICK a : a = AddAddr(d, n.props.src)
    OBVIOUS
  <2> PICK b : b = AddAddr(d, f.props.src)
    OBVIOUS
  <2>1. addrOn(n, d) = <<a>> /\ addrOn(f, d) = <<b>>
    BY <1>1 DEF addrOn
  <2>2. b.op = a.op
    BY DEF AddAddr
  <2> QED BY <2>1, <2>2, SameOpsOne, Zenon
<1>2. CASE ~CarriesAddress(n)
  <2>1. addrOn(n, d) = << >> /\ addrOn(f, d) = << >>
    BY <1>2 DEF addrOn
  <2>2. IsSeq(<< >>) /\ Len(<< >>) = 0
    BY EmptySeq, SeqIsSeq
  <2> QED BY <2>1, <2>2 DEF SameOps
<1> QED BY <1>1, <1>2

\* A tile whose layers read alike does the same at both ends.
LEMMA TileSameOps ==
  ASSUME NEW t \in TilesOf(Registry), NEW x, NEW y, NEW name, NEW under,
         Ready(t, x), Ready(t, y),
         \A k \in 1..Len(t.pattern) :
           CarriesAddress(y[k]) = CarriesAddress(x[k]) /\ y[k].name = x[k].name,
         \A k \in 1..Len(t.pattern) : x[k].name = t.pattern[k]
  PROVE  SameOps(Commands(t, x, name, under), Commands(t, y, name, under))
<1> PICK c : c = Commands(t, x, name, under)
  OBVIOUS
<1> PICK d : d = Commands(t, y, name, under)
  OBVIOUS
<1>1. \A type : PointToPoint(type, x, name).op = "link" /\ PointToPoint(type, y, name).op = "link"
  BY DEF PointToPoint, Link
<1>2. CASE t = IPIP
  <2>1. /\ c = <<PointToPoint("ipip", x, name)>> \o addrOn(x[2], name)
        /\ d = <<PointToPoint("ipip", y, name)>> \o addrOn(y[2], name)
    BY <1>2, SixTiles DEF Commands, lowerIPIP
  <2>2. CarriesAddress(y[2]) = CarriesAddress(x[2])
    BY <1>2, PatternLengths
  <2>3. SameOps(addrOn(x[2], name), addrOn(y[2], name))
    BY <2>2, SameOpsAddr
  <2>4. SameOps(<<PointToPoint("ipip", x, name)>>, <<PointToPoint("ipip", y, name)>>)
    BY <1>1, SameOpsOne
  <2>5. SameOps(<<PointToPoint("ipip", x, name)>> \o addrOn(x[2], name),
                <<PointToPoint("ipip", y, name)>> \o addrOn(y[2], name))
    BY <2>3, <2>4, SameOpsConcat
  <2> QED BY <2>1, <2>5, Zenon
<1>3. CASE t = GRE
  <2>1. /\ c = <<PointToPoint("gre", x, name)>> \o addrOn(x[3], name)
        /\ d = <<PointToPoint("gre", y, name)>> \o addrOn(y[3], name)
    BY <1>3, SixTiles DEF Commands, lowerGRE
  <2>2. CarriesAddress(y[3]) = CarriesAddress(x[3])
    BY <1>3, PatternLengths
  <2>3. SameOps(addrOn(x[3], name), addrOn(y[3], name))
    BY <2>2, SameOpsAddr
  <2>4. SameOps(<<PointToPoint("gre", x, name)>>, <<PointToPoint("gre", y, name)>>)
    BY <1>1, SameOpsOne
  <2>5. SameOps(<<PointToPoint("gre", x, name)>> \o addrOn(x[3], name),
                <<PointToPoint("gre", y, name)>> \o addrOn(y[3], name))
    BY <2>3, <2>4, SameOpsConcat
  <2> QED BY <2>1, <2>5, Zenon
<1>4. CASE t = GRETAP
  <2>1. c = <<PointToPoint("gretap", x, name)>> /\ d = <<PointToPoint("gretap", y, name)>>
    BY <1>4, SixTiles DEF Commands, lowerGRETAP
  <2> QED BY <1>1, <2>1, SameOpsOne
<1>5. CASE t = VLAN
  <2> PICK l : l = Link("vlan", name, under, Only("id", x[2].props.id.num))
    OBVIOUS
  <2> PICK m : m = Link("vlan", name, under, Only("id", y[2].props.id.num))
    OBVIOUS
  <2>1. c = <<l>> /\ d = <<m>>
    BY <1>5, SixTiles DEF Commands, lowerVLAN
  <2>2. m.op = l.op
    BY DEF Link
  <2> QED BY <2>1, <2>2, SameOpsOne, Zenon
<1>6. CASE t = VXLAN
  <2> PICK l : l = VXLANLink(x, name, under)
    OBVIOUS
  <2> PICK m : m = VXLANLink(y, name, under)
    OBVIOUS
  <2> PICK a : a = addrOn(x[1], under)
    OBVIOUS
  <2> PICK b : b = addrOn(y[1], under)
    OBVIOUS
  <2>1. 1 \in 1..Len(t.pattern) /\ t.pattern[1] = "ipv4"
    BY <1>6, PatternLengths DEF VXLAN, LinuxTile
  <2>2. x[1].name = "ipv4" /\ y[1].name = "ipv4" /\ CarriesAddress(y[1]) = CarriesAddress(x[1])
    BY <2>1, Zenon
  <2>3. /\ readEndpoint(x[1], "src") \in {"concrete", "dynamic"}
        /\ readEndpoint(y[1], "src") \in {"concrete", "dynamic"}
    BY <1>6, SixTiles DEF Ready, ReadyVXLAN
  <2>4. underlayAddress(x, under) = a /\ underlayAddress(y, under) = b
    BY <2>2, <2>3, UnderlayPlaced
  <2>5. c = Append(a, l) /\ d = Append(b, m)
    BY <1>6, <2>4, SixTiles DEF Commands, lowerVXLAN
  <2>6. m.op = l.op
    BY DEF VXLANLink, Link
  <2>7. SameOps(a, b) /\ SameOps(<<l>>, <<m>>)
    BY <2>2, <2>6, SameOpsAddr, SameOpsOne
  <2>8. ASSUME NEW r, NEW k, IsSeq(r) PROVE Append(r, k) = r \o <<k>>
    <3>1. PICK S : r \in Seq(S)
      BY <2>8 DEF IsSeq
    <3>2. r \in Seq(S \cup {k}) /\ <<k>> \in Seq(S \cup {k})
      BY <3>1, SeqMonotonic
    <3> QED BY <3>2, AppendIsConcat
  <2>9. c = a \o <<l>> /\ d = b \o <<m>>
    <3>1. IsSeq(a) /\ IsSeq(b)
      BY <2>7 DEF SameOps
    <3> QED BY <2>5, <2>8, <3>1, Zenon
  <2> QED BY <2>7, <2>9, SameOpsConcat, Zenon
<1>7. CASE t = WireGuard
  <2> PICK l : l = Link("wireguard", name, NoDev, NoProps)
    OBVIOUS
  <2> PICK u : u = WgSet(name, Only("listen_port", x[2].props.src_port.num))
    OBVIOUS
  <2> PICK v : v = WireGuardPeer(x, name)
    OBVIOUS
  <2> PICK m : m = WgSet(name, Only("listen_port", y[2].props.src_port.num))
    OBVIOUS
  <2> PICK w : w = WireGuardPeer(y, name)
    OBVIOUS
  <2> PICK a : a = <<l, u, v>>
    OBVIOUS
  <2> PICK b : b = <<l, m, w>>
    OBVIOUS
  <2>1. c = a \o addrOn(x[4], name) /\ d = b \o addrOn(y[4], name)
    BY <1>7, SixTiles DEF Commands, lowerWireGuard
  <2>2. u.op = "wg" /\ v.op = "wg" /\ m.op = "wg" /\ w.op = "wg"
    BY DEF WgSet, WireGuardPeer
  <2>3. /\ a \in Seq({l, u, v}) /\ Len(a) = 3 /\ a[1] = l /\ a[2] = u /\ a[3] = v
        /\ b \in Seq({l, m, w}) /\ Len(b) = 3 /\ b[1] = l /\ b[2] = m /\ b[3] = w
    OBVIOUS
  <2>4. \A j \in 1..3 : j = 1 \/ j = 2 \/ j = 3
    OBVIOUS
  <2>5. \A j \in 1..3 : b[j].op = a[j].op
    BY <2>2, <2>3, <2>4
  <2>6. IsSeq(a) /\ IsSeq(b)
    BY <2>3, SeqIsSeq
  <2>7. SameOps(a, b)
    BY <2>3, <2>5, <2>6 DEF SameOps
  <2>8. CarriesAddress(y[4]) = CarriesAddress(x[4])
    BY <1>7, PatternLengths
  <2>9. SameOps(addrOn(x[4], name), addrOn(y[4], name))
    BY <2>8, SameOpsAddr
  <2>10. SameOps(a \o addrOn(x[4], name), b \o addrOn(y[4], name))
    BY <2>7, <2>9, SameOpsConcat
  <2> QED BY <2>1, <2>10, Zenon
<1> QED BY <1>2, <1>3, <1>4, <1>5, <1>6, <1>7, SixTiles

\* Trees that carry addresses in the same places place as many.
LEMMA SamePlaced ==
  ASSUME NEW l, NEW f, Opposite(l, f),
         \A j \in 1..Len(l) : CarriesAddress(f[j]) = CarriesAddress(l[j]) /\ f[j].name = l[j].name,
         NEW s, NEW h, NEW e, NEW n, NEW u, CompletedBy(l, s, h, e, n, u),
         NEW z, NEW g, NEW d, NEW m, NEW w, CompletedBy(f, z, g, d, m, w)
  PROVE  Len(PlacedBy(z)) = Len(PlacedBy(s)) /\ Len(PlacedBy(s)) \in Nat
<1>1. /\ Walked(l, h, e, n) /\ EndsAt(l, h[n]) /\ OnlyUps(u)
      /\ s = (e[n] \o LastOf(l, h[n])) \o u
  BY DEF CompletedBy
<1>2. /\ Walked(f, g, d, m) /\ OnlyUps(w)
      /\ z = (d[m] \o LastOf(f, g[m])) \o w
  BY DEF CompletedBy
<1>3. m = n /\ n \in Nat /\ \A k \in 0..n : g[k] = h[k]
  BY SameDevices
<1>4. \A j \in 1..Len(l) : CarriesAddress(f[j]) = CarriesAddress(l[j]) /\ f[j].name = l[j].name
  OBVIOUS
<1>5. SameOps(e[0], d[0])
  <2>1. e[0] = << >> /\ d[0] = << >>
    BY <1>1, <1>2 DEF Walked
  <2>2. IsSeq(<< >>) /\ Len(<< >>) = 0
    BY EmptySeq, SeqIsSeq
  <2> QED BY <2>1, <2>2 DEF SameOps
<1>6. ASSUME NEW k \in 1..n, SameOps(e[k - 1], d[k - 1]) PROVE SameOps(e[k], d[k])
  <2> PICK p : p = h[k - 1]
    OBVIOUS
  <2>1. Turns(l, h[k - 1], e[k - 1], h[k], e[k])
    BY <1>1, Zenon DEF Walked
  <2>2. Turns(f, g[k - 1], d[k - 1], g[k], d[k])
    BY <1>2, <1>3, Zenon DEF Walked
  <2>3. k - 1 \in 0..n
    BY <1>3
  <2>4. g[k - 1] = p
    BY <1>3, <2>3
  <2>5. Passed(l, p) /\ e[k] = e[k - 1] \o CommandsAt(l, p)
    BY <2>1 DEF Turns
  <2>6. Passed(f, p) /\ d[k] = d[k - 1] \o CommandsAt(f, p)
    BY <2>2, <2>4 DEF Turns
  <2> PICK t : t = TileAt(l, p.at)
    OBVIOUS
  <2> PICK x : x = SubAt(l, p)
    OBVIOUS
  <2> PICK y : y = SubAt(f, p)
    OBVIOUS
  <2>7. /\ TileAt(f, p.at) = t /\ t \in TilesOf(Registry)
        /\ \A q \in 1..Len(t.pattern) :
             /\ p.at + q \in 1..Len(l) /\ x[q] = l[p.at + q] /\ y[q] = f[p.at + q]
             /\ l[p.at + q].name = t.pattern[q]
    BY <2>5, SamePick
  <2>8. NameAt(f, p) = NameAt(l, p)
    BY <2>5, SameTurn
  <2>9. Ready(t, x) /\ Ready(t, y)
    BY <2>5, <2>6, <2>7 DEF Passed
  <2>10. \A q \in 1..Len(t.pattern) :
           CarriesAddress(y[q]) = CarriesAddress(x[q]) /\ y[q].name = x[q].name
    BY <1>4, <2>7, Zenon
  <2>11. \A q \in 1..Len(t.pattern) : x[q].name = t.pattern[q]
    BY <2>7, Zenon
  <2>12. SameOps(Commands(t, x, NameAt(l, p), p.dev), Commands(t, y, NameAt(l, p), p.dev))
    BY <2>7, <2>9, <2>10, <2>11, TileSameOps
  <2>13. SameOps(CommandsAt(l, p), CommandsAt(f, p))
    BY <2>7, <2>8, <2>12, Zenon DEF CommandsAt
  <2>14. SameOps(e[k - 1] \o CommandsAt(l, p), d[k - 1] \o CommandsAt(f, p))
    BY <1>6, <2>13, SameOpsConcat
  <2> QED BY <2>5, <2>6, <2>14, Zenon
<1>7. SameOps(e[n], d[n])
  <2> DEFINE T == {k \in 1..n : SameOps(e[k], d[k])}
  <2>1. CASE n = 0
    BY <1>5, <2>1
  <2>2. CASE n # 0
    <3>1. 1 \in T
      <4>1. 1 \in 1..n /\ 1 - 1 = 0
        BY <1>3, <2>2
      <4> QED BY <1>5, <1>6, <4>1
    <3>2. ASSUME NEW k \in 2..n, k - 1 \in T PROVE k \in T
      <4>1. k \in 1..n /\ k - 1 \in 1..n
        BY <1>3
      <4> QED BY <1>6, <3>2, <4>1
    <3>3. \A k \in 1..n : k \in T
      <4> HIDE DEF T
      <4> QED BY <1>3, <3>1, <3>2, UpFromOne
    <3>4. n \in 1..n
      BY <1>3, <2>2
    <3> QED BY <3>3, <3>4
  <2> QED BY <2>1, <2>2
<1>8. SameOps(LastOf(l, h[n]), LastOf(f, h[n]))
  <2>1. Len(f) = Len(l) /\ Len(l) \in Nat
    BY SeqLength DEF Opposite
  <2>2. CASE h[n].at < Len(l)
    <3> PICK i : i = h[n].at + 1
      OBVIOUS
    <3>1. i \in 1..Len(l)
      BY <1>1, <2>1, <2>2 DEF EndsAt
    <3>2. LastOf(l, h[n]) = addrOn(l[i], h[n].dev) /\ LastOf(f, h[n]) = addrOn(f[i], h[n].dev)
      BY <2>1, <2>2 DEF LastOf
    <3>3. SameOps(addrOn(l[i], h[n].dev), addrOn(f[i], h[n].dev))
      BY <1>4, <3>1, SameOpsAddr
    <3> QED BY <3>2, <3>3, Zenon
  <2>3. CASE ~(h[n].at < Len(l))
    <3>1. LastOf(l, h[n]) = << >> /\ LastOf(f, h[n]) = << >>
      BY <2>1, <2>3 DEF LastOf
    <3>2. IsSeq(<< >>) /\ Len(<< >>) = 0
      BY EmptySeq, SeqIsSeq
    <3> QED BY <3>1, <3>2 DEF SameOps
  <2> QED BY <2>2, <2>3
<1> PICK a : a = e[n] \o LastOf(l, h[n])
  OBVIOUS
<1> PICK b : b = d[n] \o LastOf(f, h[n])
  OBVIOUS
<1>9. SameOps(a, b)
  BY <1>7, <1>8, SameOpsConcat
<1>10. s = a \o u /\ z = b \o w
  <2>1. g[n] = h[n]
    BY <1>3
  <2> QED BY <1>1, <1>2, <1>3, <2>1, Zenon
<1>11. ASSUME NEW r, IsSeq(r), NEW v, OnlyUps(v) PROVE PlacedBy(r \o v) = PlacedBy(r)
  <2>1. IsSeq(v) /\ Len(v) \in Nat /\ \A j \in 1..Len(v) : v[j].op # "addr"
    BY <1>11, SeqLength DEF OnlyUps
  <2>2. PlacedBy(v) = << >>
    BY <2>1, NothingPlaced
  <2>3. PlacedBy(r \o v) = PlacedBy(r) \o PlacedBy(v)
    BY <1>11, <2>1, PlacedConcat, Zenon
  <2>4. PlacedBy(r) \o << >> = PlacedBy(r)
    BY <1>11, PlacedIsSeq, Zenon
  <2> QED BY <2>2, <2>3, <2>4, Zenon
<1>12. PlacedBy(s) = PlacedBy(a) /\ PlacedBy(z) = PlacedBy(b)
  <2>1. IsSeq(a) /\ IsSeq(b)
    BY <1>9 DEF SameOps
  <2> QED BY <1>1, <1>2, <1>10, <1>11, <2>1, Zenon
<1>13. Len(PlacedBy(b)) = Len(PlacedBy(a)) /\ Len(PlacedBy(a)) \in Nat
  BY <1>9, SameOpsPlace
<1> QED BY <1>12, <1>13, Zenon

\* Peer writes no other address.
LEMMA PeerAddresses ==
  ASSUME NEW layers, NEW v, v # NoInner => IsRaw(v) /\ v.kind = "prefix", Len(layers) \in Nat,
         \A j \in 1..Len(layers) : IsLayer(layers[j]) /\ RawLayer(layers[j]),
         \A j \in 1..Len(layers) :
           CarriesAddress(layers[j]) /\ ~TwoEnded(layers[j]) => j \in innermostAddressed(layers),
         NEW i \in 1..Len(layers), CarriesAddress(PeerLayers(layers, v)[i])
  PROVE  LET w == PeerLayers(layers, v)[i].props.src
         IN ToldOrTurned(layers, v, Prefix(w.addr, w.bits))
<1> PICK turned : turned = TurnedAround(layers)
  OBVIOUS
<1> PICK f : f = PeerLayers(layers, v)[i]
  OBVIOUS
<1> PICK n : n = layers[i]
  OBVIOUS
<1>1. /\ Len(turned) = Len(layers)
      /\ \A j \in 1..Len(layers) :
           turned[j] = IF TwoEnded(layers[j]) THEN swapEndpoints(layers[j]) ELSE layers[j]
  BY DEF TurnedAround
<1>2. f = IF i \notin innermostAddressed(turned) THEN turned[i]
          ELSE IF v = NoInner THEN removeProp(turned[i], "src") ELSE setProp(turned[i], "src", v)
  BY DEF PeerLayers
<1>3. Lookup(f, "src") /\ f.props.src # Star /\ f.props.src.kind = "prefix"
  BY CarriedAddress
<1>4. CASE i \in innermostAddressed(turned)
  <2>1. CASE v = NoInner
    <3>1. f = removeProp(turned[i], "src")
      BY <1>2, <1>4, <2>1
    <3>2. ~Lookup(removeProp(turned[i], "src"), "src")
      <4> PICK r : r = turned[i]
        OBVIOUS
      <4>1. IsLayer(r)
        <5>1. CASE TwoEnded(n)
          BY <1>1, <5>1, SwapEndpoints
        <5>2. CASE ~TwoEnded(n)
          BY <1>1, <5>2
        <5> QED BY <5>1, <5>2
      <4> DEFINE q == [k \in DOMAIN r.props \ {"src"} |-> r.props[k]]
      <4>2. removeProp(r, "src") = Layer(r.name, q)
        BY <4>1 DEF IsLayer, Layer, removeProp
      <4>3. "src" \notin DOMAIN q
        OBVIOUS
      <4> HIDE DEF q
      <4>4. ~Lookup(removeProp(r, "src"), "src")
        BY <4>2, <4>3 DEF Lookup, Layer
      <4> QED BY <4>4
    <3> QED BY <1>3, <3>1, <3>2, Zenon
  <2>2. CASE v # NoInner
    <3>1. f = setProp(turned[i], "src", v)
      BY <1>2, <1>4, <2>2
    <3>2. IsLayer(turned[i]) /\ Lookup(turned[i], "src")
      <4>1. CarriesAddress(turned[i])
        BY <1>4 DEF innermostAddressed
      <4>2. IsLayer(turned[i])
        <5>1. CASE TwoEnded(n)
          BY <1>1, <5>1, SwapEndpoints
        <5>2. CASE ~TwoEnded(n)
          BY <1>1, <5>2
        <5> QED BY <5>1, <5>2
      <4> QED BY <4>1, <4>2, CarriedAddress
    <3>3. f.props.src = v
      BY <3>1, <3>2, SourceSet
    <3>4. v = Prefix(v.addr, v.bits)
      BY <2>2 DEF IsRaw
    <3> QED BY <3>3, <3>4, Zenon DEF ToldOrTurned
  <2> QED BY <2>1, <2>2
<1>5. CASE i \notin innermostAddressed(turned)
  <2>1. f = turned[i]
    BY <1>2, <1>5
  <2>2. CASE TwoEnded(n)
    <3>1. f = swapEndpoints(n)
      BY <1>1, <2>1, <2>2
    <3>2. f.props.src = rebuild(n.props.dst, LengthOf(n.props.src))
      BY <2>2, <3>1, SwapEndpoints
    <3>3. IsRaw(n.props.dst)
      BY <2>2 DEF TwoEnded, Lookup, RawLayer
    <3>4. f.props.src = Prefix(n.props.dst.addr, LengthOf(n.props.src))
      BY <1>3, <3>2, <3>3, RebuiltPrefix
    <3>5. \A x, b : Prefix(x, b).addr = x /\ Prefix(x, b).bits = b
      BY DEF Prefix
    <3>6. Prefix(f.props.src.addr, f.props.src.bits) = Prefix(n.props.dst.addr, LengthOf(n.props.src))
      BY <3>4, <3>5
    <3> QED BY <2>2, <3>6, Zenon DEF ToldOrTurned
  <2>3. CASE ~TwoEnded(n)
    <3>1. turned[i] = n /\ CarriesAddress(n)
      BY <1>1, <2>1, <2>3
    <3>2. i \in innermostAddressed(layers)
      BY <2>3, <3>1
    <3>3. \A k \in 1..Len(layers) : CarriesAddress(layers[k]) => k <= i
      BY <3>2 DEF innermostAddressed
    <3>4. ASSUME NEW k \in 1..Len(layers), CarriesAddress(turned[k]) PROVE CarriesAddress(layers[k])
      <4>1. CASE TwoEnded(layers[k])
        <5>1. turned[k] = swapEndpoints(layers[k])
          BY <1>1, <4>1
        <5> QED BY <3>4, <4>1, <5>1, TurnedCarries
      <4>2. CASE ~TwoEnded(layers[k])
        BY <1>1, <3>4, <4>2
      <4> QED BY <4>1, <4>2
    <3>5. i \in innermostAddressed(turned)
      <4>1. i \in 1..Len(turned) /\ CarriesAddress(turned[i])
        BY <1>1, <3>1
      <4>2. \A k \in 1..Len(turned) : CarriesAddress(turned[k]) => k <= i
        BY <1>1, <3>3, <3>4
      <4> QED BY <4>1, <4>2 DEF innermostAddressed
    <3> QED BY <1>5, <3>5
  <2> QED BY <2>2, <2>3
<1> QED BY <1>4, <1>5

\* The far tree carries an address where the near one does, if nothing is missing
\* of the innermost one.
LEMMA FarCarries ==
  ASSUME FollowInv, side = "far", CounterpartsWritten, "inner" \notin missing,
         NEW j \in 1..Len(near.layers)
  PROVE  /\ CarriesAddress(file[1].layers[j]) = CarriesAddress(near.layers[j])
         /\ file[1].layers[j].name = near.layers[j].name
<1> PICK layers : layers = near.layers
  OBVIOUS
<1> PICK n : n = layers[j]
  OBVIOUS
<1> PICK turned : turned = TurnedAround(layers)
  OBVIOUS
<1> PICK f : f = file[1].layers[j]
  OBVIOUS
<1> PICK r : r = turned[j]
  OBVIOUS
<1>1. IsLayer(n) /\ RawLayer(n) /\ file[1].layers = PeerLayers(layers, inner)
  BY NearIsRead DEF FollowInv
<1>2. missing = PeerMissing(layers, inner) /\ (inner # NoInner => ParsePrefix(inner))
  BY DEF FollowInv
<1>3. inner = NoInner => innermostAddressed(turned) = {}
  BY <1>2 DEF PeerMissing
<1>4. r = IF TwoEnded(n) THEN swapEndpoints(n) ELSE n
  BY DEF TurnedAround
<1>5. f = IF j \notin innermostAddressed(turned) THEN r ELSE setProp(r, "src", inner)
  BY <1>1, <1>3 DEF PeerLayers
<1>6. SameButEnds(n, f)
  BY <1>1, PeerKeepsTheRest
<1>7. IsLayer(r) /\ r.name = n.name /\ (CarriesAddress(r) <=> CarriesAddress(n))
  <2>1. CASE TwoEnded(n)
    <3>1. r = swapEndpoints(n) /\ IsLayer(r) /\ r.name = n.name
      BY <1>1, <1>4, <2>1, SwapEndpoints DEF SameButEnds
    <3>2. CarriesAddress(r) => CarriesAddress(n)
      BY <1>1, <2>1, <3>1, TurnedCarries
    <3>3. CarriesAddress(n) => /\ n.props.dst.kind \in {"addr", "prefix"}
                               /\ LengthFits(n.props.dst, LengthOf(n.props.src))
      <4>1. TwoEnded(near.layers[j]) /\ CarriesAddress(near.layers[j]) =>
              /\ near.layers[j].props.dst.kind \in {"addr", "prefix"}
              /\ LengthFits(near.layers[j].props.dst, LengthOf(near.layers[j].props.src))
        BY Zenon DEF CounterpartsWritten
      <4> QED BY <2>1, <4>1
    <3>4. CarriesAddress(n) => CarriesAddress(r)
      BY <1>1, <2>1, <3>1, <3>3, CarriesTurned
    <3> QED BY <3>1, <3>2, <3>4
  <2>2. CASE ~TwoEnded(n)
    BY <1>1, <1>4, <2>2
  <2> QED BY <2>1, <2>2
<1>8. CarriesAddress(f) <=> CarriesAddress(r)
  <2>1. CASE j \notin innermostAddressed(turned)
    BY <1>5, <2>1
  <2>2. CASE j \in innermostAddressed(turned)
    <3>1. CarriesAddress(r)
      BY <2>2 DEF innermostAddressed
    <3>2. Lookup(r, "src") /\ r.name \in {"ipv4", "ipv6"}
      BY <3>1, CarriedAddress DEF CarriesAddress
    <3>3. DOMAIN f.props = DOMAIN r.props /\ f.props.src = inner
      BY <1>5, <1>7, <2>2, <3>2, SourceSet
    <3>4. inner.kind = "prefix"
      BY <1>2, <1>3, <2>2 DEF ParsePrefix
    <3>5. Star.kind = "star"
      BY DEF Star
    <3>6. Lookup(f, "src") /\ f.props["src"] # Star /\ Parses("prefix", f.props["src"])
      BY <3>2, <3>3, <3>4, <3>5 DEF Lookup, Parses, ParsePrefix
    <3>7. f.name = n.name
      BY <1>6 DEF SameButEnds
    <3>8. CarriesAddress(f)
      BY <1>7, <3>2, <3>6, <3>7 DEF CarriesAddress, SrcPrefix, Get
    <3> QED BY <3>1, <3>8
  <2> QED BY <2>1, <2>2
<1>9. CarriesAddress(f) \in BOOLEAN /\ CarriesAddress(n) \in BOOLEAN
  BY DEF CarriesAddress
<1>10. CarriesAddress(f) = CarriesAddress(n)
  BY <1>7, <1>8, <1>9
<1> QED BY <1>6, <1>10 DEF SameButEnds

\* What is placed at the far end was told or turned around, and if that is less
\* than at the near end, Peer says so.
LEMMA FollowTurns ==
  ASSUME FollowInv, BothPrinted
  PROVE  /\ OwnAddressInnermost =>
              \A a \in ToSet(PlacedBy(out[1].script)) : ToldOrTurned(near.layers, inner, a)
         /\ CounterpartsWritten /\ FarPlacesFewer => "inner" \in missing
<1> PICK l : l = near.layers
  OBVIOUS
<1> PICK f : f = file[1].layers
  OBVIOUS
<1> PICK s : s = near.script
  OBVIOUS
<1> PICK z : z = out[1].script
  OBVIOUS
<1>1. MirrorInv /\ side = "far" /\ phase = "done"
  BY DEF FollowInv, BothPrinted
<1>2. Opposite(l, f)
  BY <1>1, FarIsOpposite
<1>3. /\ IsSeq(l) /\ \A j \in 1..Len(l) : IsLayer(l[j]) /\ RawLayer(l[j])
      /\ f = PeerLayers(l, inner)
  BY <1>1, NearIsRead
<1>4. Completed(l, s)
  BY <1>1 DEF FollowInv
<1>5. Completed(f, z)
  <2>1. rule > 1
    BY <1>1 DEF FollowInv
  <2> QED BY <1>1, <2>1 DEF FollowInv
<1>6. PICK h, e, n, u : CompletedBy(l, s, h, e, n, u)
  BY <1>4 DEF Completed
<1>7. PICK g, d, m, w : CompletedBy(f, z, g, d, m, w)
  BY <1>5 DEF Completed
<1>8. Len(f) = Len(l) /\ IsSeq(f) /\ Len(l) \in Nat
  BY <1>2, SeqLength DEF Opposite
<1>9. FromLayers(f, z)
  BY <1>7, <1>8, CompletedFrom
<1>10. inner # NoInner => IsRaw(inner) /\ inner.kind = "prefix"
  <2>1. inner \in PeerInners /\ (inner # NoInner => ParsePrefix(inner))
    BY <1>1 DEF FollowInv
  <2> QED BY <2>1, MirrorAssumption DEF ParsePrefix
<1>11. ASSUME OwnAddressInnermost, NEW a \in ToSet(PlacedBy(z)) PROVE ToldOrTurned(l, inner, a)
  <2>1. IsSeq(z)
    BY <1>9 DEF FromLayers
  <2>2. PICK j \in 1..Len(z) : z[j].op = "addr" /\ a = Prefix(z[j].addr, z[j].bits)
    BY <2>1, PlacedFrom
  <2>3. FromLayer(f, z[j])
    BY <1>9, <2>2 DEF FromLayers
  <2>4. PICK i \in 1..Len(l) :
          CarriesAddress(f[i]) /\ z[j].addr = f[i].props.src.addr /\ z[j].bits = f[i].props.src.bits
    BY <1>8, <2>3 DEF FromLayer
  <2>5. a = Prefix(f[i].props.src.addr, f[i].props.src.bits)
    BY <2>2, <2>4, Zenon
  <2>6. \A k \in 1..Len(l) :
          CarriesAddress(l[k]) /\ ~TwoEnded(l[k]) => k \in innermostAddressed(l)
    BY <1>11 DEF OwnAddressInnermost
  <2>7. ToldOrTurned(l, inner, Prefix(f[i].props.src.addr, f[i].props.src.bits))
    BY <1>3, <1>8, <1>10, <2>4, <2>6, PeerAddresses
  <2> QED BY <2>5, <2>7, Zenon
<1>12. ASSUME CounterpartsWritten, "inner" \notin missing
       PROVE  ~(Len(PlacedBy(z)) < Len(PlacedBy(s)))
  <2>1. \A j \in 1..Len(l) : CarriesAddress(f[j]) = CarriesAddress(l[j]) /\ f[j].name = l[j].name
    BY <1>1, <1>12, FarCarries
  <2>2. Len(PlacedBy(z)) = Len(PlacedBy(s)) /\ Len(PlacedBy(s)) \in Nat
    BY <1>2, <1>6, <1>7, <2>1, SamePlaced
  <2> QED BY <2>2
<1> QED BY <1>11, <1>12 DEF FarPlacesFewer

\* mirror.go:17: of every tree whose own address is the innermost one, an address
\* placed at the far end was told, or is a :dst of the near tree with the length
\* of the :src beside it; and of every tree that has an address opposite each one
\* it places, if the far end places fewer, that is reported.
THEOREM AddressesAreTurned == MirrorSpec => []AddressesTurnAround
<1>1. FollowInv => AddressesTurnAround
  BY FollowTurns DEF AddressesTurnAround
<1> QED BY <1>1, FollowInvariant, PTL

============================================================================
