------------------------------- MODULE Mirror -------------------------------
(* `pktc mirror': one rule is lowered for the near end, mirror.Peer turns   *)
(* its tree around, and the result is lowered for the far end, against an   *)
(* Env of its own.  This module composes Lower, once for each end, with     *)
(* package mirror.                                                          *)
(*                                                                          *)
(* The far end's underlay has the near one's name, the default of           *)
(* -peer-underlay.  Result.Supplied, the notes on what was turned around,   *)
(* is wording only and left out; Result.Missing is the set of its notes.    *)
EXTENDS Lower, Wire

CONSTANT PeerInners   \* the values of -peer-inner: NoInner, or a raw value

NoInner == [kind |-> "none"]

ASSUME MirrorAssumption ==
  /\ \A f \in Files : \A r \in 1..Len(f) : \A j \in 1..Len(f[r].layers) :
       IsLayer(f[r].layers[j])
  /\ \A v \in PeerInners : v = NoInner \/ IsRaw(v)

VARIABLES
  side,     \* the end being lowered: "near" or "far"
  inner,    \* -peer-inner
  near,     \* the near end once it is printed: its tree and its result
  missing   \* Result.Missing: "keys", "peer" and "inner"

mirrorVars == <<side, inner, near, missing>>
allVars == <<dev, created, used, count, file, rule, phase, at, base, script,
             applied, out, side, inner, near, missing>>

NotYet  == [layers |-> << >>, script |-> << >>, applied |-> << >>]

----------------------------------------------------------------------------
\* Package mirror on a sequence of layers.

TwoEnded(n) == Lookup(n, "src") /\ Lookup(n, "dst")

\* splitPrefix: the length a value carries, or NoLength.
NoLength == -1
LengthOf(v) == IF v.kind = "prefix" THEN v.bits ELSE NoLength

\* An address has at least as many bits as the length.
LengthFits(v, length) == length = NoLength \/ length <= BitLen(v.addr)

\* An address and a length, joined.  A length past the address's bits, the
\* other family's, is not read as one again.
WithLength(v, length) ==
  IF ~LengthFits(v, length) THEN Text("misfit")
  ELSE IF length = NoLength THEN Addr(v.addr) ELSE Prefix(v.addr, length)

\* rebuild: an address with the length of its new position.  A '*' stays, and
\* what is not an address does not become one: it is left a string.
rebuild(v, length) ==
  CASE v.kind = "star" -> Star
    [] v.kind \in {"addr", "prefix"} -> WithLength(v, length)
    [] v.kind = "num"    -> Text(ToString(v.num))
    [] v.kind = "bignum" -> Text("bignum")
    [] v.kind = "text"   -> v

\* Faulty: a prefix length travels with its address.
swapWhole(n) ==
  [n EXCEPT !.props.src = n.props.dst, !.props.dst = n.props.src]

\* Faulty: the far end is told where it is and not where the near end is.
swapSource(n) ==
  [n EXCEPT !.props.src = rebuild(n.props.dst, LengthOf(n.props.src))]

\* The addresses change places, the prefix lengths do not.
swapEndpoints(n) ==
  [n EXCEPT !.props.src = rebuild(n.props.dst, LengthOf(n.props.src)),
            !.props.dst = rebuild(n.props.src, LengthOf(n.props.dst))]

TurnedAround(layers) ==
  [j \in 1..Len(layers) |->
     IF TwoEnded(layers[j]) THEN swapEndpoints(layers[j]) ELSE layers[j]]

\* innermostAddressed: where the deepest address/length stands, if anywhere.
innermostAddressed(layers) ==
  LET J == {j \in 1..Len(layers) : CarriesAddress(layers[j])}
  IN {j \in J : \A l \in J : l <= j}

setProp(n, key, v) == [n EXCEPT !.props[key] = v]

removeProp(n, key) ==
  [n EXCEPT !.props = [q \in DOMAIN n.props \ {key} |-> n.props[q]]]

\* Faulty: with no -peer-inner the near end's own address is kept.
PeerLayersKeepsInner(layers, v) ==
  LET turned == TurnedAround(layers)
  IN [j \in 1..Len(layers) |->
        IF j \notin innermostAddressed(turned) \/ v = NoInner THEN turned[j]
        ELSE setProp(turned[j], "src", v)]

\* Peer's tree: every layer that names both ends turns around, then the
\* innermost address becomes the one given, or is dropped.
PeerLayers(layers, v) ==
  LET turned == TurnedAround(layers)
  IN [j \in 1..Len(layers) |->
        IF j \notin innermostAddressed(turned) THEN turned[j]
        ELSE IF v = NoInner THEN removeProp(turned[j], "src")
        ELSE setProp(turned[j], "src", v)]

PeerMissing(layers, v) ==
  LET wg == {j \in 1..Len(layers) : layers[j].name = "wireguard"}
  IN {m \in {"keys", "peer", "inner"} :
        \/ m = "keys" /\ wg # {}
        \/ m = "peer" /\ \E j \in wg : Lookup(layers[j], "peer")
        \/ /\ m = "inner"
           /\ v = NoInner
           /\ innermostAddressed(TurnedAround(layers)) # {}}

----------------------------------------------------------------------------
MirrorInit ==
  /\ Init
  /\ side = "near"
  /\ inner \in PeerInners
  /\ near = NotYet
  /\ missing = {}

\* readTree: exactly one form.
ReadTree ==
  /\ \/ Len(file) = 1 /\ ReadTrees
     \/ Len(file) # 1 /\ phase = "read" /\ Abort /\ UNCHANGED envVars
  /\ UNCHANGED mirrorVars

\* render, of either end.
Render ==
  /\ \/ StartRule
     \/ \E t \in Picks : LowerTile(t)
     \/ NoLowering
     \/ FinishRule
  /\ UNCHANGED mirrorVars

\* The near end is printed.  Peer refuses an inner address without a length
\* and a tree in which no layer names both ends.
PeerRefuses ==
  \/ inner # NoInner /\ ~ParsePrefix(inner)
  \/ \A j \in 1..Len(file[1].layers) : ~TwoEnded(file[1].layers[j])

MirrorPeer ==
  /\ phase = "rule"
  /\ rule > Len(file)
  /\ side = "near"
  /\ IF PeerRefuses THEN Abort /\ UNCHANGED <<envVars, mirrorVars>>
     ELSE LET layers == file[1].layers
          IN /\ near' = [layers |-> layers, script |-> out[1].script,
                         applied |-> out[1].applied]
             /\ missing' = PeerMissing(layers, inner)
             /\ file' = <<[defect |-> "none", layers |-> PeerLayers(layers, inner)]>>
             /\ side' = "far"
             /\ rule' = 1
             /\ out' = << >>
             /\ dev' = Root
             /\ created' = << >>
             /\ used' = {Root}
             /\ count' = [p \in NamePrefixes |-> 0]
             /\ UNCHANGED <<phase, at, base, script, applied, inner>>

FarPrinted ==
  /\ side = "far"
  /\ EndOfFile
  /\ UNCHANGED mirrorVars

MirrorNext ==
  \/ ReadTree \/ Render \/ MirrorPeer \/ FarPrinted
  \/ Terminated /\ UNCHANGED mirrorVars

MirrorSpec == MirrorInit /\ [][MirrorNext]_allVars

----------------------------------------------------------------------------
BothPrinted == side = "far" /\ phase = "done"

\* The commands of a script that make a device.
LinkOnly(c) == IF c.op = "link" THEN <<c>> ELSE << >>
LinksOf(s) == FlattenSeq([j \in 1..Len(s) |-> LinkOnly(s[j])])

Agree(f, g, keys) ==
  \A key \in keys :
    /\ key \in DOMAIN f <=> key \in DOMAIN g
    /\ key \in DOMAIN f => f[key] = g[key]

\* Is the innermost address, which Peer replaces or drops, on a layer that
\* names one end only?
InnerIsOneEnded ==
  \A j \in innermostAddressed(near.layers) : ~TwoEnded(near.layers[j])

\* mirror.go:3-5 "most of the peer's configuration is the local configuration
\* with the outer source and destination exchanged": the printed ends have the
\* same devices, whose identifiers agree, and where one end names its remote,
\* that is where the other end says it is.
EndsMeet ==
  BothPrinted /\ InnerIsOneEnded =>
    LET n == LinksOf(near.script)
        f == LinksOf(out[1].script)
    IN /\ Len(n) = Len(f)
       /\ \A j \in 1..Len(n) :
            LET here == n[j].opts
                far  == f[j].opts
            IN /\ n[j].type = f[j].type
               /\ Agree(here, far, {"id", "external", "key", "dstport"})
               /\ "remote" \in DOMAIN here =>
                    "local" \in DOMAIN far /\ far["local"] = here["remote"]
               /\ "remote" \in DOMAIN far =>
                    "local" \in DOMAIN here /\ here["local"] = far["remote"]

\* Every layer that names both ends names them by addresses, each of which the
\* other's length fits.
EndsAreAddresses ==
  \A j \in 1..Len(near.layers) :
    LET n == near.layers[j]
    IN TwoEnded(n) =>
         /\ \A key \in {"src", "dst"} : n.props[key].kind \in {"addr", "prefix"}
         /\ LengthFits(n.props.dst, LengthOf(n.props.src))
         /\ LengthFits(n.props.src, LengthOf(n.props.dst))

\* Where a layer that names both ends places an address, its :dst is an address
\* too, which the length fits.
CounterpartsWritten ==
  \A j \in 1..Len(near.layers) :
    LET n == near.layers[j]
    IN TwoEnded(n) /\ CarriesAddress(n) =>
         /\ n.props.dst.kind \in {"addr", "prefix"}
         /\ LengthFits(n.props.dst, LengthOf(n.props.src))

\* An address on a layer that names one end only is the innermost one.
OwnAddressInnermost ==
  \A j \in 1..Len(near.layers) :
    CarriesAddress(near.layers[j]) /\ ~TwoEnded(near.layers[j])
      => j \in innermostAddressed(near.layers)

\* A tree whose near end was printed, and of which Peer reports nothing
\* missing, has a far end that can be printed too.
FarEndLowers ==
  side = "far" /\ phase = "failed" /\ EndsAreAddresses => missing # {}

\* An address that was told, or a :dst of the near tree with the length of the
\* :src beside it.
ToldOrTurned(layers, v, a) ==
  \/ a = v
  \/ \E j \in 1..Len(layers) :
       /\ TwoEnded(layers[j])
       /\ a = Prefix(layers[j].props.dst.addr, LengthOf(layers[j].props.src))

FarPlacesFewer == Len(PlacedBy(out[1].script)) < Len(PlacedBy(near.script))

\* mirror.go:17 "Peer swaps what it can, substitutes what it is told, and
\* reports everything left over rather than inventing it": no address placed at
\* the far end is invented; and if the far end places fewer, that is reported,
\* unless the far end's address is not in the tree: see LossIsReported.
AddressesTurnAround ==
  BothPrinted =>
    /\ OwnAddressInnermost =>
         \A a \in ToSet(PlacedBy(out[1].script)) : ToldOrTurned(near.layers, inner, a)
    /\ CounterpartsWritten /\ FarPlacesFewer => "inner" \in missing

\* The facts of a prediction, seen from the other end.
FromAfar(facts) ==
  {<<CASE f.label = "outer source"      -> "outer destination"
       [] f.label = "outer destination" -> "outer source"
       [] OTHER                         -> f.label, f.value>> : f \in facts}

\* The two ends of a tunnel see one underlay: what the near tree predicts of
\* the packets it sends is, with source and destination exchanged, what the far
\* tree predicts of its own, and one capture filter finds both.
PredictionsTurnAround ==
  BothPrinted /\ TwoEnded(near.layers[1]) /\ Expect(near.layers).ok =>
    LET n == Expect(near.layers)
        f == Expect(file[1].layers)
    IN /\ f.ok
       /\ f.filter = n.filter
       /\ {<<g.label, g.value>> : g \in f.facts} = FromAfar(n.facts)

----------------------------------------------------------------------------
\* Statements of the comments that the code does not keep.

\* mirror.go:141 "This is the one place a peer's inner address can be derived
\* rather than supplied: both host parts are already written down": a layer
\* with :src A/n :dst B has :src B/n in the far tree.
DerivedAddressKept ==
  side = "far" =>
    \A j \in 1..Len(near.layers) :
      LET n == near.layers[j]
          f == file[1].layers[j]
      IN TwoEnded(n) /\ n.props.src.kind = "prefix" /\ n.props.dst.kind = "addr" =>
           /\ Lookup(f, "src")
           /\ f.props.src = Prefix(n.props.dst.addr, n.props.src.bits)

\* mirror.go:17 "reports everything left over rather than inventing it": if the
\* far end places fewer addresses than the near end, that is reported.
LossIsReported == BothPrinted /\ FarPlacesFewer => "inner" \in missing

\* tiles/linux/wireguard.go:53 "WireGuard listens on a fixed port, which is the
\* port the peer sends to": the port in the far end's endpoint is the one the
\* near end listens on.
PeerSendsToListenPort ==
  BothPrinted =>
    \A i, j \in 1..Len(near.script) :
      /\ near.script[i].op = "wg" /\ "listen_port" \in DOMAIN near.script[i].opts
      /\ j <= Len(out[1].script)
      /\ out[1].script[j].op = "wg" /\ "endpoint" \in DOMAIN out[1].script[j].opts
      /\ near.script[i].dev = out[1].script[j].dev
      => out[1].script[j].opts["endpoint"][2] = near.script[i].opts["listen_port"]

============================================================================
