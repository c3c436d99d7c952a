---------------------------- MODULE LowerProofs ----------------------------
(* Proofs about `pktc lower', for every file, every root device, every      *)
(* limit on the length of a name and whatever the layers' properties are.   *)
EXTENDS Lower, Wire, SequenceTheorems, FiniteSetTheorems, WellFoundedInduction, TLAPS

----------------------------------------------------------------------------
\* Sequences of commands, whatever the commands are.

\* A sequence over any set is one over its own elements.
LEMMA SeqIsSeq ==
  ASSUME NEW S, NEW s \in Seq(S)
  PROVE  IsSeq(s)
<1> DEFINE T == {s[j] : j \in 1..Len(s)}
<1>1. Len(s) \in Nat /\ SubSeq(s, 1, Len(s)) = s
  BY SubSeqFull
<1>2. \A j \in 1..Len(s) : s[j] \in T
  OBVIOUS
<1>3. SubSeq(s, 1, Len(s)) \in Seq(T)
  <2> HIDE DEF T
  <2> QED BY <1>1, <1>2, SubSeqProperties
<1> QED BY <1>1, <1>3 DEF IsSeq

\* Two such sequences, one after the other.
LEMMA ConcatIsSeq ==
  ASSUME NEW s, NEW t, IsSeq(s), IsSeq(t)
  PROVE  /\ Len(s) \in Nat /\ Len(t) \in Nat
         /\ IsSeq(s \o t)
         /\ Len(s \o t) = Len(s) + Len(t)
         /\ \A j \in 1..Len(s) : (s \o t)[j] = s[j]
         /\ \A j \in 1..Len(t) : (s \o t)[Len(s) + j] = t[j]
<1>1. PICK S : s \in Seq(S)
  BY DEF IsSeq
<1>2. PICK T : t \in Seq(T)
  BY DEF IsSeq
<1>3. s \in Seq(S \cup T) /\ t \in Seq(S \cup T)
  BY <1>1, <1>2, SeqMonotonic
<1> HIDE DEF IsSeq
<1>4. s \o t \in Seq(S \cup T)
  BY <1>3, ConcatProperties
<1>5. IsSeq(s \o t)
  BY <1>4, SeqIsSeq
<1> QED BY <1>3, <1>5

\* One more element.
LEMMA AppendIsSeq ==
  ASSUME NEW s, NEW e, IsSeq(s)
  PROVE  /\ Len(s) \in Nat
         /\ IsSeq(Append(s, e))
         /\ Len(Append(s, e)) = Len(s) + 1
         /\ \A j \in 1..Len(s) : Append(s, e)[j] = s[j]
         /\ Append(s, e)[Len(s) + 1] = e
<1>1. PICK S : s \in Seq(S)
  BY DEF IsSeq
<1>2. s \in Seq(S \cup {e})
  BY <1>1, SeqMonotonic
<1>3. Append(s, e) \in Seq(S \cup {e})
  BY <1>2
<1>4. IsSeq(Append(s, e))
  BY <1>3, SeqIsSeq
<1> QED BY <1>2, <1>4

\* A set of numbers that is not empty has a smallest one.
LEMMA SmallestOf ==
  ASSUME NEW T, T \subseteq Nat, T # {}
  PROVE  \E x \in T : \A y \in T : x <= y
<1>1. PICK x \in T : \A y \in T : ~ (<<y, x>> \in OpToRel(<, Nat))
  BY NatLessThanWellFounded, WFMin
<1>2. \A y \in T : ~(y < x)
  BY <1>1 DEF OpToRel
<1> QED BY <1>2

----------------------------------------------------------------------------
\* Alloc in one step.

\* Of one prefix, different numbers are different names; so among one more
\* number than there are names taken, one is free: Alloc's loop stops.
LEMMA AllocStops ==
  ASSUME NEW p \in NamePrefixes, count[p] \in Nat, IsFiniteSet(used)
  PROVE  FirstStop(p) \in Nat /\ StopsAt(p, FirstStop(p))
<1> DEFINE c == count[p]
           I == (c + 1)..(c + Cardinality(used) + 1)
<1>1. Cardinality(used) \in Nat /\ c \in Nat
  BY FS_CardinalityType
<1>2. \E n \in I : Stops(p, n)
  <2> SUFFICES ASSUME \A n \in I : Name(p, n) \in used PROVE FALSE
    BY DEF Stops
  <2> DEFINE f == [n \in I |-> Name(p, n)]
  <2>1. \A m, n \in I : f[m] = f[n] => m = n
    <3>1. ASSUME NEW m \in I, NEW n \in I, f[m] = f[n] PROVE m = n
      <4>1. Name(p, m).num = m /\ Name(p, n).num = n
        BY DEF Name
      <4> QED BY <3>1, <4>1
    <3> QED BY <3>1
  <2>2. f \in Injection(I, used)
    BY <2>1 DEF Injection, IsInjective
  <2>3. Cardinality(I) <= Cardinality(used)
    <3> HIDE DEF f, I
    <3> QED BY <2>2, FS_Injection
  <2>4. Cardinality(I) = Cardinality(used) + 1
    <3> DEFINE a == c + 1
               b == c + Cardinality(used) + 1
    <3>1. a \in Int /\ b \in Int /\ a <= b /\ (b - a) + 1 = Cardinality(used) + 1
      BY <1>1
    <3>2. I = a..b
      OBVIOUS
    <3> HIDE DEF a, b, I
    <3> QED BY <3>1, <3>2, FS_Interval
  <2> QED BY <1>1, <2>3, <2>4
<1>3. PICK n \in I : Stops(p, n) /\ \A m \in I : Stops(p, m) => n <= m
  <2> DEFINE T == {n \in I : Stops(p, n)}
  <2>1. T \subseteq Nat /\ T # {}
    BY <1>1, <1>2
  <2>2. \E n \in T : \A m \in T : n <= m
    <3> HIDE DEF T
    <3> QED BY <2>1, SmallestOf
  <2> QED BY <2>2
<1>4. StopsAt(p, n)
  BY <1>1, <1>3 DEF StopsAt
<1>5. FirstStop(p) \in I /\ StopsAt(p, FirstStop(p))
  BY <1>4 DEF FirstStop
<1> QED BY <1>1, <1>5

\* It stops no later than at the first number no name has room for.
LEMMA AllocBounded ==
  ASSUME NEW p \in NamePrefixes, count[p] \in Nat, count[p] < MaxCount,
         NEW n \in Nat, StopsAt(p, n)
  PROVE  /\ n <= MaxCount
         /\ validName(Name(p, n)) => n < MaxCount
<1>1. MaxCount \in Nat /\ ~validName(Name(p, MaxCount))
  BY EnvAssumption
<1>2. n <= MaxCount
  <2> SUFFICES ASSUME MaxCount < n PROVE FALSE
    BY <1>1
  <2>1. MaxCount \in (count[p] + 1)..(n - 1)
    BY <1>1
  <2> QED BY <1>1, <2>1 DEF StopsAt, Stops
<1> QED BY <1>1, <1>2

----------------------------------------------------------------------------
\* What a tile's Lower returns: one command that makes the device, on the one
\* below if on any; before it only addresses of the device below, after it
\* only commands on the new one.
OneDevice(c, k, name, under) ==
  /\ k \in 1..Len(c)
  /\ c[k].op = "link" /\ c[k].dev = name /\ c[k].parent \in {NoDev, under}
  /\ \A j \in 1..(k - 1) : c[j].op = "addr" /\ c[j].dev = under
  /\ \A j \in (k + 1)..Len(c) : c[j].op \in {"addr", "wg"} /\ c[j].dev = name

\* An address command, if there is one, is on the device it is asked for.
LEMMA AddressCommands ==
  ASSUME NEW n, NEW d
  PROVE  /\ IsSeq(addrOn(n, d))
         /\ Len(addrOn(n, d)) \in {0, 1}
         /\ \A j \in 1..Len(addrOn(n, d)) :
              addrOn(n, d)[j].op = "addr" /\ addrOn(n, d)[j].dev = d
<1>1. CASE CarriesAddress(n)
  <2> DEFINE a == AddAddr(d, n.props.src)
  <2>1. addrOn(n, d) = <<a>>
    BY <1>1 DEF addrOn
  <2>2. a.op = "addr" /\ a.dev = d
    BY DEF AddAddr
  <2> HIDE DEF a
  <2>3. <<a>> \in Seq({a})
    OBVIOUS
  <2>4. IsSeq(<<a>>)
    BY <2>3, SeqIsSeq
  <2> QED BY <2>1, <2>2, <2>4
<1>2. CASE ~CarriesAddress(n)
  <2>1. addrOn(n, d) = << >> /\ << >> \in Seq({n})
    BY <1>2 DEF addrOn
  <2>2. IsSeq(addrOn(n, d))
    BY <2>1, SeqIsSeq
  <2> QED BY <2>1, <2>2
<1> QED BY <1>1, <1>2

\* Commands on the new device may follow.
LEMMA MoreOnTheDevice ==
  ASSUME NEW c, NEW r, NEW k, NEW name, NEW under, IsSeq(c), IsSeq(r),
         OneDevice(c, k, name, under),
         \A j \in 1..Len(r) : r[j].op \in {"addr", "wg"} /\ r[j].dev = name
  PROVE  IsSeq(c \o r) /\ OneDevice(c \o r, k, name, under)
<1> DEFINE n == Len(c)
           u == c \o r
<1>1. /\ n \in Nat /\ Len(r) \in Nat /\ IsSeq(u) /\ Len(u) = n + Len(r)
      /\ \A j \in 1..n : u[j] = c[j]
      /\ \A j \in 1..Len(r) : u[n + j] = r[j]
  BY ConcatIsSeq
<1>2. k \in 1..n /\ k \in 1..Len(u)
  BY <1>1 DEF OneDevice
<1> HIDE DEF n, u
<1>3. /\ u[k].op = "link" /\ u[k].dev = name /\ u[k].parent \in {NoDev, under}
      /\ \A j \in 1..(k - 1) : u[j].op = "addr" /\ u[j].dev = under
  BY <1>1, <1>2 DEF OneDevice
<1>4. ASSUME NEW j \in (k + 1)..Len(u)
      PROVE  u[j].op \in {"addr", "wg"} /\ u[j].dev = name
  <2>1. CASE j <= n
    BY <1>1, <1>2, <2>1 DEF OneDevice, n
  <2>2. CASE j > n
    <3>1. j - n \in 1..Len(r) /\ n + (j - n) = j
      BY <1>1, <1>2, <2>2
    <3>2. u[j] = r[j - n]
      BY <1>1, <3>1
    <3> QED BY <3>1, <3>2
  <2> QED BY <1>1, <1>2, <2>1, <2>2
<1>5. OneDevice(u, k, name, under)
  BY <1>2, <1>3, <1>4 DEF OneDevice
<1> QED BY <1>1, <1>5 DEF u

\* A link by itself makes one device.
LEMMA LinkMakesOne ==
  ASSUME NEW type, NEW name, NEW parent, NEW opts, NEW under,
         parent \in {NoDev, under}
  PROVE  LET c == <<Link(type, name, parent, opts)>>
         IN  IsSeq(c) /\ OneDevice(c, 1, name, under)
<1> DEFINE l == Link(type, name, parent, opts)
           c == <<l>>
<1>1. l.op = "link" /\ l.dev = name /\ l.parent = parent
  BY DEF Link
<1> HIDE DEF l
<1>2. c \in Seq({l}) /\ Len(c) = 1 /\ c[1] = l
  OBVIOUS
<1>3. IsSeq(c)
  BY <1>2, SeqIsSeq
<1>4. OneDevice(c, 1, name, under)
  BY <1>1, <1>2 DEF OneDevice
<1> QED BY <1>3, <1>4 DEF l

\* The six tiles, told apart by their names.
LEMMA SixTiles ==
  /\ TilesOf(Registry) = {IPIP, GRE, GRETAP, VXLAN, VLAN, WireGuard}
  /\ \A t \in TilesOf(Registry) :
       Len(t.pattern) \in Nat /\ Len(t.pattern) >= 2 /\ t.pattern[2] # ""
  /\ IPIP # GRE /\ IPIP # GRETAP /\ IPIP # VXLAN /\ IPIP # VLAN /\ IPIP # WireGuard
  /\ GRE # GRETAP /\ GRE # VXLAN /\ GRE # VLAN /\ GRE # WireGuard
  /\ GRETAP # VXLAN /\ GRETAP # VLAN /\ GRETAP # WireGuard
  /\ VXLAN # VLAN /\ VXLAN # WireGuard /\ VLAN # WireGuard
<1>1. /\ IPIP.name = "IPIP" /\ GRE.name = "GRE" /\ GRETAP.name = "GRETAP"
      /\ VXLAN.name = "VXLAN" /\ VLAN.name = "VLAN" /\ WireGuard.name = "WireGuard"
  BY DEF IPIP, GRE, GRETAP, VXLAN, VLAN, WireGuard, LinuxTile
<1>2. /\ Len(Registry) = 6
      /\ Registry[1] = IPIP /\ Registry[2] = GRE /\ Registry[3] = GRETAP
      /\ Registry[4] = VXLAN /\ Registry[5] = VLAN /\ Registry[6] = WireGuard
  BY DEF Registry
<1>3. \A j \in 1..6 : j = 1 \/ j = 2 \/ j = 3 \/ j = 4 \/ j = 5 \/ j = 6
  OBVIOUS
<1>4. TilesOf(Registry) = {IPIP, GRE, GRETAP, VXLAN, VLAN, WireGuard}
  BY <1>2, <1>3 DEF TilesOf
<1>5. /\ Len(IPIP.pattern) = 2 /\ Len(GRE.pattern) = 3 /\ Len(GRETAP.pattern) = 3
      /\ Len(VXLAN.pattern) = 4 /\ Len(VLAN.pattern) = 2 /\ Len(WireGuard.pattern) = 4
  BY DEF IPIP, GRE, GRETAP, VXLAN, VLAN, WireGuard, LinuxTile
<1>6. /\ IPIP.pattern[2] # "" /\ GRE.pattern[2] # "" /\ GRETAP.pattern[2] # ""
      /\ VXLAN.pattern[2] # "" /\ VLAN.pattern[2] # "" /\ WireGuard.pattern[2] # ""
  BY DEF IPIP, GRE, GRETAP, VXLAN, VLAN, WireGuard, LinuxTile
<1>7. \A t \in TilesOf(Registry) :
        Len(t.pattern) \in Nat /\ Len(t.pattern) >= 2 /\ t.pattern[2] # ""
  <2>1. \A t \in TilesOf(Registry) : Len(t.pattern) \in Nat /\ Len(t.pattern) >= 2
    <3>1. \A t \in TilesOf(Registry) :
            Len(t.pattern) = 2 \/ Len(t.pattern) = 3 \/ Len(t.pattern) = 4
      BY <1>4, <1>5, Zenon
    <3>2. ASSUME NEW t \in TilesOf(Registry)
          PROVE  Len(t.pattern) \in Nat /\ Len(t.pattern) >= 2
      BY <3>1
    <3> QED BY <3>2
  <2>2. \A t \in TilesOf(Registry) : t.pattern[2] # ""
    BY <1>4, <1>6, Zenon
  <2> QED BY <2>1, <2>2
<1> QED BY <1>1, <1>4, <1>7

\* Every tile's Lower makes one device.
LEMMA CommandsMakeOne ==
  ASSUME NEW t \in TilesOf(Registry), NEW sub, NEW name, NEW under
  PROVE  LET c == Commands(t, sub, name, under)
         IN  IsSeq(c) /\ \E k : OneDevice(c, k, name, under)
<1> DEFINE c == Commands(t, sub, name, under)
           Makes(d) == IsSeq(d) /\ \E k : OneDevice(d, k, name, under)
<1>1. ASSUME NEW type PROVE Makes(<<PointToPoint(type, sub, name)>>)
  BY LinkMakesOne DEF PointToPoint
<1>2. ASSUME NEW d, Makes(d), NEW n PROVE Makes(d \o addrOn(n, name))
  <2>1. /\ IsSeq(addrOn(n, name))
        /\ \A j \in 1..Len(addrOn(n, name)) :
             addrOn(n, name)[j].op \in {"addr", "wg"} /\ addrOn(n, name)[j].dev = name
    BY AddressCommands
  <2>2. PICK k : OneDevice(d, k, name, under)
    BY <1>2
  <2> QED BY <1>2, <2>1, <2>2, MoreOnTheDevice
<1>3. CASE t = IPIP
  <2>1. c = lowerIPIP(sub, name)
    BY <1>3, SixTiles DEF Commands
  <2>2. Makes(<<PointToPoint("ipip", sub, name)>>)
    BY <1>1
  <2> HIDE DEF Makes
  <2>3. Makes(lowerIPIP(sub, name))
    BY <1>2, <2>2 DEF lowerIPIP
  <2> QED BY <2>1, <2>3 DEF Makes
<1>4. CASE t = GRE
  <2>1. c = lowerGRE(sub, name)
    BY <1>4, SixTiles DEF Commands
  <2>2. Makes(<<PointToPoint("gre", sub, name)>>)
    BY <1>1
  <2> HIDE DEF Makes
  <2>3. Makes(lowerGRE(sub, name))
    BY <1>2, <2>2 DEF lowerGRE
  <2> QED BY <2>1, <2>3 DEF Makes
<1>5. CASE t = GRETAP
  <2>1. c = lowerGRETAP(sub, name)
    BY <1>5, SixTiles DEF Commands
  <2>2. Makes(<<PointToPoint("gretap", sub, name)>>)
    BY <1>1
  <2> QED BY <2>1, <2>2 DEF lowerGRETAP
<1>6. CASE t = VXLAN
  <2> DEFINE l == VXLANLink(sub, name, under)
             a == underlayAddress(sub, under)
  <2>1. c = Append(a, l)
    BY <1>6, SixTiles DEF Commands, lowerVXLAN
  <2>2. l.op = "link" /\ l.dev = name /\ l.parent = under
    BY DEF VXLANLink, Link
  <2>3. CASE sub[1].props.src.kind = "prefix"
    <3> DEFINE e == AddAddr(under, sub[1].props.src)
    <3>1. a = <<e>>
      BY <2>3 DEF underlayAddress
    <3>2. e.op = "addr" /\ e.dev = under
      BY DEF AddAddr
    <3> HIDE DEF e, l, c, a
    <3>3. c \in Seq({e, l}) /\ Len(c) = 2 /\ c[1] = e /\ c[2] = l
      BY <2>1, <3>1
    <3>4. OneDevice(c, 2, name, under)
      BY <2>2, <3>2, <3>3 DEF OneDevice
    <3> QED BY <3>3, <3>4, SeqIsSeq DEF c
  <2>4. CASE sub[1].props.src.kind # "prefix"
    <3>1. a = << >>
      BY <2>4 DEF underlayAddress
    <3> HIDE DEF l, c, a
    <3>3. c \in Seq({l}) /\ Len(c) = 1 /\ c[1] = l
      BY <2>1, <3>1
    <3>4. OneDevice(c, 1, name, under)
      BY <2>2, <3>3 DEF OneDevice
    <3> QED BY <3>3, <3>4, SeqIsSeq DEF c
  <2> QED BY <2>3, <2>4
<1>7. CASE t = VLAN
  <2>1. c = lowerVLAN(sub, name, under)
    BY <1>7, SixTiles DEF Commands
  <2>2. Makes(lowerVLAN(sub, name, under))
    BY LinkMakesOne DEF lowerVLAN
  <2> QED BY <2>1, <2>2
<1>8. CASE t = WireGuard
  <2> DEFINE l == Link("wireguard", name, NoDev, NoProps)
             w == WgSet(name, Only("listen_port", sub[2].props.src_port.num))
             v == WireGuardPeer(sub, name)
             d == <<l, w, v>>
  <2>1. c = d \o addrOn(sub[4], name)
    BY <1>8, SixTiles DEF Commands, lowerWireGuard
  <2>2. l.op = "link" /\ l.dev = name /\ l.parent = NoDev
    BY DEF Link
  <2>3. w.op = "wg" /\ w.dev = name /\ v.op = "wg" /\ v.dev = name
    BY DEF WgSet, WireGuardPeer
  <2> HIDE DEF l, w, v
  <2>4. d \in Seq({l, w, v}) /\ Len(d) = 3 /\ d[1] = l /\ d[2] = w /\ d[3] = v
    OBVIOUS
  <2> HIDE DEF d
  <2>5. \A j \in 2..3 : j = 2 \/ j = 3
    OBVIOUS
  <2>6. OneDevice(d, 1, name, under)
    BY <2>2, <2>3, <2>4, <2>5 DEF OneDevice
  <2>7. Makes(d)
    BY <2>4, <2>6, SeqIsSeq
  <2> HIDE DEF Makes
  <2>8. Makes(d \o addrOn(sub[4], name))
    BY <1>2, <2>7
  <2> QED BY <2>1, <2>8 DEF Makes
<1> QED BY <1>3, <1>4, <1>5, <1>6, <1>7, <1>8, SixTiles

\* The command with which a tile makes its device.
LinkOf(t, sub, name, under) ==
  CASE t = IPIP      -> PointToPoint("ipip", sub, name)
    [] t = GRE       -> PointToPoint("gre", sub, name)
    [] t = GRETAP    -> PointToPoint("gretap", sub, name)
    [] t = VXLAN     -> VXLANLink(sub, name, under)
    [] t = VLAN      -> Link("vlan", name, under, Only("id", sub[2].props.id.num))
    [] t = WireGuard -> Link("wireguard", name, NoDev, NoProps)

\* An address command behind other commands.
LEMMA AddressBehind ==
  ASSUME NEW d, IsSeq(d), NEW n, NEW name
  PROVE  LET c == d \o addrOn(n, name)
         IN  \A j \in 1..Len(c) : (j \in 1..Len(d) /\ c[j] = d[j]) \/ c[j].op = "addr"
<1> DEFINE a == addrOn(n, name)
           c == d \o a
<1>1. IsSeq(a) /\ \A j \in 1..Len(a) : a[j].op = "addr"
  BY AddressCommands
<1> HIDE DEF a
<1>2. /\ Len(d) \in Nat /\ Len(a) \in Nat /\ Len(c) = Len(d) + Len(a)
      /\ \A j \in 1..Len(d) : c[j] = d[j]
      /\ \A j \in 1..Len(a) : c[Len(d) + j] = a[j]
  BY <1>1, ConcatIsSeq
<1> HIDE DEF c
<1>3. ASSUME NEW j \in 1..Len(c), j \notin 1..Len(d) PROVE c[j].op = "addr"
  <2>1. j - Len(d) \in 1..Len(a) /\ Len(d) + (j - Len(d)) = j
    BY <1>2, <1>3
  <2> QED BY <1>1, <1>2, <2>1
<1>4. \A j \in 1..Len(c) : (j \in 1..Len(d) /\ c[j] = d[j]) \/ c[j].op = "addr"
  BY <1>2, <1>3
<1> QED BY <1>4 DEF c, a

\* Every command of a tile is that one, an address, or what WireGuard's tile
\* sets, whose key and port go to the device it made.
LEMMA CommandsOfTile ==
  ASSUME NEW t \in TilesOf(Registry), NEW sub, NEW name, NEW under
  PROVE  LET c == Commands(t, sub, name, under)
         IN  \A j \in 1..Len(c) :
               \/ c[j].op = "addr"
               \/ c[j].op = "link" /\ c[j] = LinkOf(t, sub, name, under)
               \/ /\ t = WireGuard /\ c[j].op = "wg"
                  /\ c[j] \in {WgSet(name, Only("listen_port", sub[2].props.src_port.num)),
                               WireGuardPeer(sub, name)}
<1> DEFINE c == Commands(t, sub, name, under)
           k == LinkOf(t, sub, name, under)
           w == WgSet(name, Only("listen_port", sub[2].props.src_port.num))
           v == WireGuardPeer(sub, name)
           Fine(x) == \/ x.op = "addr"
                      \/ x.op = "link" /\ x = k
                      \/ t = WireGuard /\ x.op = "wg" /\ x \in {w, v}
<1>1. k.op = "link"
  BY SixTiles DEF LinkOf, PointToPoint, VXLANLink, Link
<1>2. IsSeq(<<k>>) /\ Len(<<k>>) = 1 /\ <<k>>[1] = k
  <2> HIDE DEF k
  <2>1. <<k>> \in Seq({k}) /\ Len(<<k>>) = 1 /\ <<k>>[1] = k
    OBVIOUS
  <2> QED BY <2>1, SeqIsSeq
<1>3. ASSUME NEW n, c = <<k>> \o addrOn(n, name) PROVE \A j \in 1..Len(c) : Fine(c[j])
  <2> HIDE DEF c, k, w, v
  <2>1. \A j \in 1..Len(c) : (j \in 1..Len(<<k>>) /\ c[j] = <<k>>[j]) \/ c[j].op = "addr"
    BY <1>2, <1>3, AddressBehind
  <2>2. \A j \in 1..Len(<<k>>) : <<k>>[j] = k
    BY <1>2
  <2> QED BY <1>1, <2>1, <2>2, Zenon
<1>4. ASSUME c = <<k>> PROVE \A j \in 1..Len(c) : Fine(c[j])
  <2> HIDE DEF c, k, w, v
  <2> QED BY <1>1, <1>2, <1>4
<1>5. CASE t = IPIP
  <2>1. c = <<k>> \o addrOn(sub[2], name)
    BY <1>5, SixTiles DEF Commands, lowerIPIP, LinkOf
  <2> HIDE DEF c, Fine
  <2> QED BY <1>3, <2>1 DEF c, Fine
<1>6. CASE t = GRE
  <2>1. c = <<k>> \o addrOn(sub[3], name)
    BY <1>6, SixTiles DEF Commands, lowerGRE, LinkOf
  <2> HIDE DEF c, Fine
  <2> QED BY <1>3, <2>1 DEF c, Fine
<1>7. CASE t = GRETAP
  <2>1. c = <<k>>
    BY <1>7, SixTiles DEF Commands, lowerGRETAP, LinkOf
  <2> HIDE DEF c, Fine
  <2> QED BY <1>4, <2>1 DEF c, Fine
<1>8. CASE t = VLAN
  <2>1. c = <<k>>
    BY <1>8, SixTiles DEF Commands, lowerVLAN, LinkOf
  <2> HIDE DEF c, Fine
  <2> QED BY <1>4, <2>1 DEF c, Fine
<1>9. CASE t = VXLAN
  <2> DEFINE a == underlayAddress(sub, under)
             e == AddAddr(under, sub[1].props.src)
  <2>1. c = Append(a, k)
    BY <1>9, SixTiles DEF Commands, lowerVXLAN, LinkOf
  <2>2. a = <<e>> \/ a = << >>
    BY DEF underlayAddress
  <2>3. e.op = "addr"
    BY DEF AddAddr
  <2> HIDE DEF a, e, c, k, w, v
  <2>4. CASE a = <<e>>
    <3>1. Len(c) = 2 /\ c[1] = e /\ c[2] = k
      BY <2>1, <2>4
    <3>2. \A j \in 1..Len(c) : j = 1 \/ j = 2
      BY <3>1
    <3>3. \A j \in 1..Len(c) : Fine(c[j])
      BY <1>1, <2>3, <3>1, <3>2, Zenon
    <3> QED BY <3>3 DEF c, k, w, v
  <2>5. CASE a = << >>
    <3>1. Len(c) = 1 /\ c[1] = k
      BY <2>1, <2>5
    <3>2. \A j \in 1..Len(c) : j = 1
      BY <3>1
    <3>3. \A j \in 1..Len(c) : Fine(c[j])
      BY <1>1, <3>1, <3>2, Zenon
    <3> QED BY <3>3 DEF c, k, w, v
  <2> QED BY <2>2, <2>4, <2>5
<1>10. CASE t = WireGuard
  <2> DEFINE d == <<k, w, v>>
  <2>1. c = d \o addrOn(sub[4], name)
    BY <1>10, SixTiles DEF Commands, lowerWireGuard, LinkOf
  <2>2. w.op = "wg" /\ v.op = "wg"
    BY DEF WgSet, WireGuardPeer
  <2> HIDE DEF c, k, w, v
  <2>3. d \in Seq({k, w, v}) /\ Len(d) = 3 /\ d[1] = k /\ d[2] = w /\ d[3] = v
    OBVIOUS
  <2> HIDE DEF d
  <2>4. IsSeq(d)
    BY <2>3, SeqIsSeq
  <2>5. \A j \in 1..Len(d) : j = 1 \/ j = 2 \/ j = 3
    BY <2>3
  <2>6. \A j \in 1..Len(d) : Fine(d[j])
    BY <1>1, <1>10, <2>2, <2>3, <2>5, Zenon
  <2>7. \A j \in 1..Len(c) : (j \in 1..Len(d) /\ c[j] = d[j]) \/ c[j].op = "addr"
    BY <2>1, <2>4, AddressBehind
  <2>8. \A j \in 1..Len(c) : Fine(c[j])
    BY <2>6, <2>7, Zenon
  <2> QED BY <2>8 DEF c, k, w, v
<1> QED BY <1>5, <1>6, <1>7, <1>8, <1>9, <1>10, SixTiles

----------------------------------------------------------------------------
\* Scripts grow at their end.

\* What ChainOnUnderlay and BuiltBeforeUsed ask of one script.
SoundScript(s) ==
  \A j \in 1..Len(s) :
    /\ s[j].op = "link" => s[j].parent = NoDev \/ StandsAt(s, j, s[j].parent)
    /\ s[j].op = "addr" => StandsAt(s, j, s[j].dev)
    /\ s[j].op # "link" => s[j].dev \in Made(s, j)

\* The device that stands has been made.
LEMMA StandingIsMade ==
  ASSUME NEW s, NEW j, NEW d, StandsAt(s, j, d)
  PROVE  d \in Made(s, j)
BY DEF StandsAt, Made

\* What stood, stands, and what was made, was made: longer scripts begin alike.
LEMMA SameBeginning ==
  ASSUME NEW s, NEW u, Len(s) \in Nat, Len(u) \in Nat, Len(s) <= Len(u),
         \A j \in 1..Len(s) : u[j] = s[j]
  PROVE  /\ Links(s) = {l \in Links(u) : l <= Len(s)}
         /\ \A j \in 1..(Len(s) + 1) :
              /\ Before(u, j) = Before(s, j)
              /\ Made(u, j) = Made(s, j)
              /\ \A d : StandsAt(u, j, d) <=> StandsAt(s, j, d)
         /\ SoundScript(s) =>
              \A j \in 1..Len(s) :
                /\ u[j].op = "link" => u[j].parent = NoDev \/ StandsAt(u, j, u[j].parent)
                /\ u[j].op = "addr" => StandsAt(u, j, u[j].dev)
                /\ u[j].op # "link" => u[j].dev \in Made(u, j)
<1>1. Links(s) = {l \in Links(u) : l <= Len(s)}
  BY DEF Links
<1>2. ASSUME NEW j \in 1..(Len(s) + 1) PROVE Before(u, j) = Before(s, j)
  BY DEF Before, Links
<1>3. \A j \in 1..(Len(s) + 1) : \A l \in Before(s, j) : u[l] = s[l]
  BY DEF Before, Links
<1>4. ASSUME NEW j \in 1..(Len(s) + 1) PROVE Made(u, j) = Made(s, j)
  <2>1. {u[l].dev : l \in Before(s, j)} = {s[l].dev : l \in Before(s, j)}
    BY <1>3
  <2> QED BY <1>2, <2>1 DEF Made
<1>5. ASSUME NEW j \in 1..(Len(s) + 1), NEW d
      PROVE  StandsAt(u, j, d) <=> StandsAt(s, j, d)
  <2>1. \A l \in Before(s, j) : u[l].dev = s[l].dev
    BY <1>3
  <2> QED BY <1>2, <2>1 DEF StandsAt
<1>6. ASSUME SoundScript(s), NEW j \in 1..Len(s)
      PROVE  /\ u[j].op = "link" => u[j].parent = NoDev \/ StandsAt(u, j, u[j].parent)
             /\ u[j].op = "addr" => StandsAt(u, j, u[j].dev)
             /\ u[j].op # "link" => u[j].dev \in Made(u, j)
  <2>1. j \in 1..(Len(s) + 1) /\ u[j] = s[j]
    OBVIOUS
  <2> QED BY <1>4, <1>5, <1>6, <2>1 DEF SoundScript
<1> QED BY <1>1, <1>2, <1>4, <1>5, <1>6

\* The commands of one more tile: one more link, and its device stands.
LEMMA OneMoreTile ==
  ASSUME NEW s, NEW c, NEW k, NEW name, NEW under, IsSeq(s), IsSeq(c),
         SoundScript(s), StandsAt(s, Len(s) + 1, under),
         OneDevice(c, k, name, under)
  PROVE  LET u == s \o c
         IN  /\ IsSeq(u) /\ Len(s) + k \in 1..Len(u) /\ Len(s) \in Nat /\ k \in Nat \ {0}
             /\ \A j \in 1..Len(s) : u[j] = s[j]
             /\ Links(u) = Links(s) \cup {Len(s) + k}
             /\ u[Len(s) + k].dev = name
             /\ Ups(u) = Ups(s)
             /\ SoundScript(u)
             /\ StandsAt(u, Len(u) + 1, name)
<1> DEFINE n == Len(s)
           u == s \o c
<1>1. /\ n \in Nat /\ Len(c) \in Nat /\ IsSeq(u) /\ Len(u) = n + Len(c)
      /\ \A j \in 1..n : u[j] = s[j]
      /\ \A j \in 1..Len(c) : u[n + j] = c[j]
  BY ConcatIsSeq
<1>2. k \in 1..Len(c)
  BY DEF OneDevice
<1> HIDE DEF n, u
<1>3. ASSUME NEW i \in 1..Len(u), i > n
      PROVE  /\ i < n + k => u[i].op = "addr" /\ u[i].dev = under
             /\ i = n + k => /\ u[i].op = "link" /\ u[i].dev = name
                             /\ u[i].parent \in {NoDev, under}
             /\ i > n + k => u[i].op \in {"addr", "wg"} /\ u[i].dev = name
  <2>1. PICK j \in 1..Len(c) : i = n + j
    <3>1. i - n \in 1..Len(c) /\ i = n + (i - n)
      BY <1>1, <1>3
    <3> QED BY <3>1
  <2>2. u[i] = c[j] /\ (j < k \/ j = k \/ j > k) /\ Len(c) \in Nat
    BY <1>1, <1>2, <2>1
  <2>3. (i < n + k <=> j < k) /\ (i = n + k <=> j = k) /\ (i > n + k <=> j > k)
    BY <1>1, <1>2, <2>1
  <2>4. j < k => j \in 1..(k - 1)
    BY <1>2
  <2>5. j > k => j \in (k + 1)..Len(c)
    BY <1>1, <1>2
  <2> QED BY <2>2, <2>3, <2>4, <2>5 DEF OneDevice
<1>4. n + k \in 1..Len(u) /\ n + k > n
  BY <1>1, <1>2
<1>5. Links(u) = Links(s) \cup {n + k}
  <2>1. ASSUME NEW i \in 1..Len(u), i > n PROVE u[i].op = "link" <=> i = n + k
    BY <1>1, <1>2, <1>3, <2>1
  <2>2. \A i \in 1..n : i \in 1..Len(u) /\ u[i].op = s[i].op
    BY <1>1
  <2>3. \A i \in 1..Len(u) : i \in 1..n \/ i > n
    BY <1>1
  <2> QED BY <1>4, <2>1, <2>2, <2>3 DEF Links, n
<1>6. Ups(u) = Ups(s)
  <2>1. ASSUME NEW i \in 1..Len(u), i > n PROVE u[i].op # "up"
    BY <1>1, <1>2, <1>3, <2>1
  <2>2. \A i \in 1..n : i \in 1..Len(u) /\ u[i].op = s[i].op
    BY <1>1
  <2>3. \A i \in 1..Len(u) : i \in 1..n \/ i > n
    BY <1>1
  <2> QED BY <2>1, <2>2, <2>3 DEF Ups, n
<1>7. u[n + k].dev = name
  BY <1>3, <1>4
<1>8. Links(s) \subseteq 1..n
  BY DEF Links, n
\* Up to the link what stood before stands, after it the new device does.
<1>9. ASSUME NEW i \in (n + 1)..(n + k) PROVE StandsAt(u, i, under)
  <2>1. Before(u, i) = Before(s, n + 1)
    BY <1>1, <1>2, <1>5, <1>8 DEF Before
  <2>2. \A l \in Before(s, n + 1) : u[l] = s[l]
    BY <1>1, <1>8 DEF Before
  <2> QED BY <2>1, <2>2 DEF StandsAt, n
<1>10. ASSUME NEW i \in (n + k + 1)..(Len(u) + 1) PROVE StandsAt(u, i, name)
  <2>1. n + k \in Before(u, i)
    BY <1>1, <1>2, <1>5 DEF Before
  <2>2. \A l \in Before(u, i) : l <= n + k
    BY <1>1, <1>2, <1>5, <1>8 DEF Before
  <2> QED BY <1>7, <2>1, <2>2 DEF StandsAt
<1>11. SoundScript(u)
  <2>1. ASSUME NEW i \in 1..Len(u), i > n
        PROVE  /\ u[i].op = "link" => u[i].parent = NoDev \/ StandsAt(u, i, u[i].parent)
               /\ u[i].op = "addr" => StandsAt(u, i, u[i].dev)
               /\ u[i].op # "link" => u[i].dev \in Made(u, i)
    <3>1. CASE i < n + k
      <4>1. StandsAt(u, i, under)
        BY <1>1, <1>2, <1>9, <2>1, <3>1
      <4> QED BY <1>3, <2>1, <3>1, <4>1, StandingIsMade
    <3>2. CASE i = n + k
      <4>1. StandsAt(u, i, under)
        BY <1>1, <1>2, <1>9, <2>1, <3>2
      <4> QED BY <1>3, <2>1, <3>2, <4>1
    <3>3. CASE i > n + k
      <4>1. StandsAt(u, i, name)
        BY <1>1, <1>2, <1>10, <2>1, <3>3
      <4> QED BY <1>3, <2>1, <3>3, <4>1, StandingIsMade
    <3> QED BY <1>1, <1>2, <2>1, <3>1, <3>2, <3>3
  <2>2. ASSUME NEW i \in 1..n
        PROVE  /\ u[i].op = "link" => u[i].parent = NoDev \/ StandsAt(u, i, u[i].parent)
               /\ u[i].op = "addr" => StandsAt(u, i, u[i].dev)
               /\ u[i].op # "link" => u[i].dev \in Made(u, i)
    <3>1. Len(s) \in Nat /\ Len(u) \in Nat /\ Len(s) <= Len(u)
      BY <1>1 DEF n
    <3>2. \A j \in 1..Len(s) : u[j] = s[j]
      BY <1>1 DEF n
    <3>3. i \in 1..Len(s)
      BY DEF n
    <3> QED BY <3>1, <3>2, <3>3, SameBeginning, Zenon
  <2>3. \A i \in 1..Len(u) : i \in 1..n \/ i > n
    BY <1>1
  <2> QED BY <2>1, <2>2, <2>3 DEF SoundScript
<1>12. StandsAt(u, Len(u) + 1, name)
  BY <1>1, <1>2, <1>10
<1> QED BY <1>1, <1>2, <1>4, <1>5, <1>6, <1>7, <1>11, <1>12 DEF n, u

\* The commands that end a rule make nothing: addresses go on the device that
\* stands, and what is brought up has been made.
LEMMA NoMoreLinks ==
  ASSUME NEW s, NEW c, NEW d, IsSeq(s), IsSeq(c),
         SoundScript(s), StandsAt(s, Len(s) + 1, d),
         \A j \in 1..Len(c) :
           \/ c[j].op = "addr" /\ c[j].dev = d
           \/ c[j].op = "up" /\ c[j].dev \in Made(s, Len(s) + 1)
  PROVE  LET u == s \o c
         IN  /\ IsSeq(u) /\ Len(s) \in Nat /\ Len(c) \in Nat
             /\ Len(u) = Len(s) + Len(c)
             /\ \A j \in 1..Len(s) : u[j] = s[j]
             /\ \A j \in 1..Len(c) : u[Len(s) + j] = c[j]
             /\ Links(u) = Links(s)
             /\ SoundScript(u)
             /\ StandsAt(u, Len(u) + 1, d)
             /\ Made(u, Len(u) + 1) = Made(s, Len(s) + 1)
<1> DEFINE n == Len(s)
           u == s \o c
<1>1. /\ n \in Nat /\ Len(c) \in Nat /\ IsSeq(u) /\ Len(u) = n + Len(c)
      /\ \A j \in 1..n : u[j] = s[j]
      /\ \A j \in 1..Len(c) : u[n + j] = c[j]
  BY ConcatIsSeq
<1> HIDE DEF n, u
<1>2. ASSUME NEW i \in 1..Len(u), i > n
      PROVE  \/ u[i].op = "addr" /\ u[i].dev = d
             \/ u[i].op = "up" /\ u[i].dev \in Made(s, n + 1)
  <2>1. i - n \in 1..Len(c) /\ n + (i - n) = i
    BY <1>1, <1>2
  <2>2. u[i] = c[i - n]
    BY <1>1, <2>1
  <2> QED BY <2>1, <2>2 DEF n
<1>3. \A i \in 1..Len(u) : i \in 1..n \/ i > n
  BY <1>1
<1>4. Links(u) = Links(s)
  <2>1. \A i \in 1..Len(u) : i > n => u[i].op # "link"
    BY <1>2
  <2>2. \A i \in 1..n : i \in 1..Len(u) /\ u[i].op = s[i].op
    BY <1>1
  <2> QED BY <1>3, <2>1, <2>2 DEF Links, n
<1>5. Links(s) \subseteq 1..n
  BY DEF Links, n
<1>6. ASSUME NEW i \in (n + 1)..(Len(u) + 1)
      PROVE  StandsAt(u, i, d) /\ Made(u, i) = Made(s, n + 1)
  <2>1. Before(u, i) = Before(s, n + 1)
    BY <1>1, <1>4, <1>5 DEF Before
  <2>2. \A l \in Before(s, n + 1) : u[l] = s[l]
    BY <1>1, <1>5 DEF Before
  <2>3. {u[l].dev : l \in Before(s, n + 1)} = {s[l].dev : l \in Before(s, n + 1)}
    BY <2>2
  <2>4. Made(u, i) = Made(s, n + 1)
    BY <2>1, <2>3 DEF Made
  <2> QED BY <2>1, <2>2, <2>4 DEF StandsAt, n
<1>7. SoundScript(u)
  <2>1. ASSUME NEW i \in 1..Len(u), i > n
        PROVE  /\ u[i].op = "link" => u[i].parent = NoDev \/ StandsAt(u, i, u[i].parent)
               /\ u[i].op = "addr" => StandsAt(u, i, u[i].dev)
               /\ u[i].op # "link" => u[i].dev \in Made(u, i)
    <3>1. i \in (n + 1)..(Len(u) + 1)
      BY <1>1, <2>1
    <3>2. StandsAt(u, i, d) /\ Made(u, i) = Made(s, n + 1)
      BY <1>6, <3>1
    <3>3. d \in Made(u, i)
      BY <3>2, StandingIsMade
    <3> QED BY <1>2, <2>1, <3>2, <3>3
  <2>2. ASSUME NEW i \in 1..n
        PROVE  /\ u[i].op = "link" => u[i].parent = NoDev \/ StandsAt(u, i, u[i].parent)
               /\ u[i].op = "addr" => StandsAt(u, i, u[i].dev)
               /\ u[i].op # "link" => u[i].dev \in Made(u, i)
    <3>1. Len(s) \in Nat /\ Len(u) \in Nat /\ Len(s) <= Len(u)
      BY <1>1 DEF n
    <3>2. \A j \in 1..Len(s) : u[j] = s[j]
      BY <1>1 DEF n
    <3>3. i \in 1..Len(s)
      BY DEF n
    <3> QED BY <3>1, <3>2, <3>3, SameBeginning, Zenon
  <2> QED BY <1>3, <2>1, <2>2 DEF SoundScript
<1>8. StandsAt(u, Len(u) + 1, d) /\ Made(u, Len(u) + 1) = Made(s, n + 1)
  BY <1>1, <1>6
<1> QED BY <1>1, <1>4, <1>7, <1>8 DEF n, u

----------------------------------------------------------------------------
\* The inductive invariant.

\* What the arithmetic and the sequences need.  Where Alloc runs out of numbers
\* the program ends.
Shape ==
  /\ IsSeq(file) /\ \A r \in 1..Len(file) : IsSeq(file[r].layers)
  /\ IsSeq(created) /\ IsSeq(out) /\ IsSeq(script)
  /\ phase = "cover" => rule <= Len(file)
  /\ IsFiniteSet(used) /\ Root \in used
  /\ phase # "failed" => \A p \in NamePrefixes : count[p] < MaxCount

\* The devices made are names taken, ...
DevicesTaken ==
  \A r \in Rules : \A j \in Links(Script(r)) : Script(r)[j].dev \in used

\* ... every script is in order so far, ...
ScriptsSound == \A r \in Rules : SoundScript(Script(r))

\* ... and the script in hand has brought nothing up, stands where the Env does,
\* and has one link for each device that Enter recorded since the rule began,
\* in the same order.
Matched(s, made, from) ==
  /\ \A l \in Links(s) : \E i \in (from + 1)..Len(made) : s[l].dev = made[i]
  /\ \A i \in (from + 1)..Len(made) : \E l \in Links(s) : s[l].dev = made[i]
  /\ \A i, k \in (from + 1)..Len(made) : \A l, m \in Links(s) :
       s[l].dev = made[i] /\ s[m].dev = made[k] => (i < k <=> l < m)

InHand ==
  phase = "cover" =>
    /\ Ups(script) = {}
    /\ StandsAt(script, Len(script) + 1, dev)
    /\ Matched(script, created, base)

LowerInv ==
  /\ Shape /\ TypeOK /\ DevicesTaken /\ ScriptsSound /\ NamesUnique
  /\ BroughtUpOnce /\ InHand

----------------------------------------------------------------------------
\* A step may keep links, move them to a longer script of the same rule, or add
\* one whose name was free.
LEMMA LinksStayUnique ==
  ASSUME DevicesTaken, NamesUnique, Root \in used, used \subseteq used',
         \A r \in Rules' : \A j \in Links(Script(r)') :
           \/ /\ r \in Rules /\ j \in Links(Script(r))
              /\ Script(r)'[j].dev = Script(r)[j].dev
           \/ Script(r)'[j].dev \in used' \ used,
         \A r, q \in Rules' : \A j \in Links(Script(r)') : \A l \in Links(Script(q)') :
           /\ Script(r)'[j].dev \notin used
           /\ Script(q)'[l].dev \notin used
           => r = q /\ j = l
  PROVE  DevicesTaken' /\ NamesUnique'
<1> HIDE DEF Rules, Script, Links
<1>1. ASSUME NEW r \in Rules', NEW j \in Links(Script(r)')
      PROVE  Script(r)'[j].dev \in used' /\ Script(r)'[j].dev # Root
  BY <1>1 DEF DevicesTaken, NamesUnique
<1>2. ASSUME NEW r \in Rules', NEW j \in Links(Script(r)'),
             NEW q \in Rules', NEW l \in Links(Script(q)'),
             Script(q)'[l].dev = Script(r)'[j].dev
      PROVE  q = r /\ l = j
  BY <1>2 DEF DevicesTaken, NamesUnique
<1>3. DevicesTaken'
  BY <1>1 DEF DevicesTaken
<1>4. NamesUnique'
  BY <1>1, <1>2 DEF NamesUnique
<1> QED BY <1>3, <1>4

\* A step that makes no link keeps the names as they are.
LEMMA NoNewLinks ==
  ASSUME LowerInv, used \subseteq used',
         \A r \in Rules' : \A j \in Links(Script(r)') :
           /\ r \in Rules /\ j \in Links(Script(r))
           /\ Script(r)'[j].dev = Script(r)[j].dev
  PROVE  DevicesTaken' /\ NamesUnique'
<1>1. DevicesTaken /\ NamesUnique /\ Root \in used
  BY DEF LowerInv, Shape
<1> HIDE DEF Rules, Script, Links
<1>2. \A r \in Rules' : \A j \in Links(Script(r)') : Script(r)'[j].dev \in used
  BY <1>1 DEF DevicesTaken
<1> QED BY <1>1, <1>2, LinksStayUnique

\* A tile asks for an exact name, or for the next one of a prefix it may use.
LEMMA NamingAsks ==
  ASSUME NEW t \in TilesOf(Registry), NEW sub, NEW under
  PROVE  \/ Naming(t, sub, under).op = "claim"
         \/ /\ Naming(t, sub, under).op = "alloc"
            /\ Naming(t, sub, under).prefix \in NamePrefixes
<1>1. /\ "ipip" \in NamePrefixes /\ "gre" \in NamePrefixes /\ "gretap" \in NamePrefixes
      /\ "vxlan" \in NamePrefixes /\ "wg" \in NamePrefixes
  BY LowerAssumption
<1>2. CASE t = IPIP
  BY <1>1, <1>2, SixTiles DEF Naming
<1>3. CASE t = GRE
  BY <1>1, <1>3, SixTiles DEF Naming
<1>4. CASE t = GRETAP
  BY <1>1, <1>4, SixTiles DEF Naming
<1>5. CASE t = VXLAN
  BY <1>1, <1>5, SixTiles DEF Naming
<1>6. CASE t = VLAN
  BY <1>1, <1>6, SixTiles DEF Naming
<1>7. CASE t = WireGuard
  BY <1>1, <1>7, SixTiles DEF Naming
<1> QED BY <1>2, <1>3, <1>4, <1>5, <1>6, <1>7, SixTiles

\* A name given was free and is taken, and the counters stay in their range.
LEMMA NameGiven ==
  ASSUME count \in [NamePrefixes -> 0..MaxCount], IsFiniteSet(used),
         \A p \in NamePrefixes : count[p] < MaxCount,
         NEW ask,
         ask.op = "claim" \/ (ask.op = "alloc" /\ ask.prefix \in NamePrefixes),
         Named(ask)
  PROVE  /\ Answer(ask) \notin used
         /\ used' = used \cup {Answer(ask)}
         /\ IsFiniteSet(used')
         /\ count' \in [NamePrefixes -> 0..MaxCount]
         /\ \A p \in NamePrefixes : count'[p] < MaxCount
<1>1. MaxCount \in Nat
  BY EnvAssumption
<1>2. CASE ask.op = "claim"
  <2>1. Claim(ask.name) /\ Answer(ask) = ask.name
    BY <1>2 DEF Named, Answer
  <2>2. Answer(ask) \notin used /\ used' = used \cup {Answer(ask)} /\ count' = count
    BY <2>1 DEF Claim, Free
  <2>3. IsFiniteSet(used')
    BY <2>2, FS_AddElement
  <2> QED BY <2>2, <2>3
<1>3. CASE ask.op = "alloc" /\ ask.prefix \in NamePrefixes
  <2> DEFINE p == ask.prefix
             n == FirstStop(ask.prefix)
  <2>1. Alloc(p, n) /\ Answer(ask) = Name(p, n)
    BY <1>3 DEF Named, Answer
  <2>2. count[p] \in Nat /\ count[p] < MaxCount /\ p \in NamePrefixes
    BY <1>1, <1>3
  <2>3. n \in Nat /\ StopsAt(p, n)
    BY <2>2, AllocStops
  <2> HIDE DEF p, n
  <2>4. /\ StopsAt(p, n) /\ validName(Name(p, n))
        /\ used' = used \cup {Name(p, n)} /\ count' = [count EXCEPT ![p] = n]
    BY <2>1 DEF Alloc
  <2>5. n < MaxCount
    BY <2>2, <2>3, <2>4, AllocBounded
  <2>6. Name(p, n) \notin used
    BY <2>4 DEF StopsAt, Stops
  <2>7. IsFiniteSet(used')
    BY <2>4, FS_AddElement
  <2>8. n \in 0..MaxCount
    BY <1>1, <2>3, <2>5
  <2>9. count' \in [NamePrefixes -> 0..MaxCount]
    BY <2>4, <2>8
  <2>10. \A q \in NamePrefixes : count'[q] < MaxCount
    BY <2>4, <2>5
  <2> QED BY <2>1, <2>4, <2>6, <2>7, <2>9, <2>10
<1> QED BY <1>2, <1>3

\* A name refused leaves the names alone, and the counter reaches its limit at
\* most.
LEMMA NameRefused ==
  ASSUME count \in [NamePrefixes -> 0..MaxCount], IsFiniteSet(used),
         \A p \in NamePrefixes : count[p] < MaxCount,
         NEW ask,
         ask.op = "claim" \/ (ask.op = "alloc" /\ ask.prefix \in NamePrefixes),
         NotNamed(ask)
  PROVE  used' = used /\ count' \in [NamePrefixes -> 0..MaxCount]
<1>1. MaxCount \in Nat
  BY EnvAssumption
<1>2. CASE ask.op = "claim"
  BY <1>2 DEF NotNamed
<1>3. CASE ask.op = "alloc" /\ ask.prefix \in NamePrefixes
  <2> DEFINE p == ask.prefix
             n == FirstStop(ask.prefix)
  <2>1. AllocFails(p, n)
    BY <1>3 DEF NotNamed
  <2>2. count[p] \in Nat /\ count[p] < MaxCount /\ p \in NamePrefixes
    BY <1>1, <1>3
  <2>3. n \in Nat /\ StopsAt(p, n)
    BY <2>2, AllocStops
  <2> HIDE DEF p, n
  <2>4. used' = used /\ count' = [count EXCEPT ![p] = n]
    BY <2>1 DEF AllocFails
  <2>5. n <= MaxCount
    BY <2>2, <2>3, AllocBounded
  <2>6. n \in 0..MaxCount
    BY <1>1, <2>3, <2>5
  <2> QED BY <2>4, <2>6
<1> QED BY <1>2, <1>3

----------------------------------------------------------------------------
\* The invariant holds of every step.

\* env.New and an unread file.
LEMMA LowerInit == Init => LowerInv
<1> SUFFICES ASSUME Init PROVE LowerInv
  OBVIOUS
<1> USE DEF Init, EnvInit
<1>1. IsSeq(<< >>)
  <2>1. << >> \in Seq({1})
    OBVIOUS
  <2> QED BY <2>1, SeqIsSeq
<1>2. MaxCount \in Nat /\ MaxCount > 0
  BY EnvAssumption, LowerAssumption
<1>3. IsSeq(file) /\ \A r \in 1..Len(file) : IsSeq(file[r].layers)
  BY LowerAssumption
<1>4. Len(file) \in Nat
  BY <1>3 DEF IsSeq
<1>5. Len(created) = 0 /\ Len(out) = 0 /\ Len(script) = 0
  OBVIOUS
<1>6. Shape
  <2>1. IsFiniteSet(used)
    BY FS_Singleton
  <2> QED BY <1>1, <1>2, <1>3, <2>1 DEF Shape
<1>7. TypeOK
  BY <1>2, <1>4, <1>5 DEF TypeOK
<1>8. Rules = {}
  BY <1>5 DEF Rules
<1>9. DevicesTaken /\ ScriptsSound /\ NamesUnique
  BY <1>8 DEF DevicesTaken, ScriptsSound, NamesUnique
<1>10. BroughtUpOnce
  BY <1>5 DEF BroughtUpOnce
<1>11. InHand
  BY DEF InHand
<1> QED BY <1>6, <1>7, <1>9, <1>10, <1>11 DEF LowerInv

\* The scripts a step leaves as they are stay in order, and their names taken.
LEMMA ScriptsKept ==
  ASSUME LowerInv, out' = out, used \subseteq used', Rules' \subseteq Rules,
         \A r \in Rules' : Script(r)' = Script(r)
  PROVE  DevicesTaken' /\ ScriptsSound' /\ NamesUnique' /\ BroughtUpOnce'
<1>1. DevicesTaken' /\ NamesUnique'
  <2>1. \A r \in Rules' : \A j \in Links(Script(r)') :
          r \in Rules /\ j \in Links(Script(r)) /\ Script(r)'[j].dev = Script(r)[j].dev
    <3> HIDE DEF Rules, Script, Links
    <3> QED OBVIOUS
  <2> HIDE DEF Rules, Script, Links
  <2> QED BY <2>1, NoNewLinks
<1>2. ScriptsSound'
  <2> HIDE DEF Rules, Script
  <2> QED BY DEF LowerInv, ScriptsSound
<1>3. BroughtUpOnce'
  BY DEF LowerInv, BroughtUpOnce
<1> QED BY <1>1, <1>2, <1>3

\* An error return: the Env may have moved on, what was printed stays.
LEMMA AbortKeeps ==
  ASSUME LowerInv, Abort, used \subseteq used', IsFiniteSet(used'),
         dev' \in used', IsSeq(created'), Len(created) <= Len(created'),
         \A j \in 1..Len(created') : created'[j] \in used',
         count' \in [NamePrefixes -> 0..MaxCount]
  PROVE  LowerInv'
<1> USE DEF Abort
<1>1. Shape'
  BY DEF LowerInv, Shape
<1>2. TypeOK'
  <2>1. Len(created) \in Nat /\ Len(created') \in Nat
    BY DEF LowerInv, Shape, IsSeq
  <2>2. base' \in 0..Len(created')
    BY <2>1 DEF LowerInv, TypeOK
  <2> QED BY <2>2 DEF LowerInv, TypeOK
<1>3. Rules' \subseteq Rules /\ \A r \in Rules' : Script(r)' = Script(r)
  <2>1. Len(out) \in Nat
    BY DEF LowerInv, Shape, IsSeq
  <2> QED BY <2>1 DEF Rules, Script
<1>4. DevicesTaken' /\ ScriptsSound' /\ NamesUnique' /\ BroughtUpOnce'
  <2>1. out' = out
    OBVIOUS
  <2> QED BY <1>3, <2>1, ScriptsKept
<1>5. InHand'
  BY DEF InHand
<1> QED BY <1>1, <1>2, <1>4, <1>5 DEF LowerInv

\* The same where no name was asked for.
LEMMA AbortHere ==
  ASSUME LowerInv, Abort, UNCHANGED <<created, used, count>>, dev' \in used
  PROVE  LowerInv'
<1>1. /\ IsFiniteSet(used) /\ IsSeq(created) /\ Len(created) \in Nat
      /\ \A j \in 1..Len(created) : created[j] \in used
      /\ count \in [NamePrefixes -> 0..MaxCount]
  BY DEF LowerInv, Shape, TypeOK, IsSeq
<1> QED BY <1>1, AbortKeeps

\* readTrees prints nothing and names nothing.
LEMMA ReadTreesKeeps ==
  ASSUME LowerInv, ReadTrees
  PROVE  LowerInv'
<1>1. CASE Abort
  <2>1. UNCHANGED <<created, used, count>> /\ dev' \in used
    BY DEF ReadTrees, envVars, LowerInv, TypeOK
  <2> QED BY <1>1, <2>1, AbortHere
<1>2. CASE phase' = "rule" /\ UNCHANGED <<file, rule, at, base, script, applied, out>>
  <2>1. UNCHANGED envVars /\ phase = "read"
    BY DEF ReadTrees
  <2> USE DEF envVars
  <2>2. Shape'
    BY <1>2, <2>1 DEF LowerInv, Shape
  <2>3. TypeOK'
    BY <1>2, <2>1 DEF LowerInv, TypeOK
  <2>4. Rules' \subseteq Rules /\ \A r \in Rules' : Script(r)' = Script(r)
    BY <1>2, <2>1 DEF Rules, Script
  <2>5. out' = out /\ used \subseteq used'
    BY <1>2, <2>1
  <2>6. DevicesTaken' /\ ScriptsSound' /\ NamesUnique' /\ BroughtUpOnce'
    BY <2>4, <2>5, ScriptsKept
  <2>7. InHand'
    BY <1>2 DEF InHand
  <2> QED BY <2>2, <2>3, <2>6, <2>7 DEF LowerInv
<1> QED BY <1>1, <1>2 DEF ReadTrees

\* Nor does leaving the loop over the rules.
LEMMA EndOfFileKeeps ==
  ASSUME LowerInv, EndOfFile
  PROVE  LowerInv'
<1> USE DEF EndOfFile, envVars
<1>1. Shape'
  BY DEF LowerInv, Shape
<1>2. TypeOK'
  BY DEF LowerInv, TypeOK
<1>3. Rules' \subseteq Rules /\ \A r \in Rules' : Script(r)' = Script(r)
  BY DEF Rules, Script
<1>4. out' = out /\ used \subseteq used'
  OBVIOUS
<1>5. DevicesTaken' /\ ScriptsSound' /\ NamesUnique' /\ BroughtUpOnce'
  BY <1>3, <1>4, ScriptsKept
<1>6. InHand'
  BY DEF InHand
<1> QED BY <1>1, <1>2, <1>5, <1>6 DEF LowerInv

\* A program that has ended changes nothing.
LEMMA StutterKeeps ==
  ASSUME LowerInv, UNCHANGED vars
  PROVE  LowerInv'
<1> USE DEF vars
<1>1. Shape'
  BY DEF LowerInv, Shape
<1>2. TypeOK'
  BY DEF LowerInv, TypeOK, sp
<1>3. Rules' \subseteq Rules /\ \A r \in Rules' : Script(r)' = Script(r)
  BY DEF Rules, Script
<1>4. out' = out /\ used \subseteq used'
  OBVIOUS
<1>5. DevicesTaken' /\ ScriptsSound' /\ NamesUnique' /\ BroughtUpOnce'
  BY <1>3, <1>4, ScriptsKept
<1>6. InHand'
  BY DEF LowerInv, InHand
<1> QED BY <1>1, <1>2, <1>5, <1>6 DEF LowerInv

\* The lengths the steps count with.
LEMMA Lengths ==
  ASSUME LowerInv
  PROVE  /\ Len(out) \in Nat /\ Len(script) \in Nat /\ Len(created) \in Nat
         /\ Len(file) \in Nat /\ base \in 0..Len(created)
         /\ rule \in 1..(Len(file) + 1) /\ Len(out) = rule - 1
         /\ \A r \in 1..Len(file) : Len(file[r].layers) \in Nat
<1>1. IsSeq(file) /\ \A r \in 1..Len(file) : IsSeq(file[r].layers)
  BY DEF LowerInv, Shape
<1>2. Len(file) \in Nat
  BY <1>1 DEF IsSeq
<1>3. \A r \in 1..Len(file) : Len(file[r].layers) \in Nat
  BY <1>1 DEF IsSeq
<1>4. Len(out) \in Nat /\ Len(script) \in Nat /\ Len(created) \in Nat
  BY DEF LowerInv, Shape, IsSeq
<1> QED BY <1>2, <1>3, <1>4 DEF LowerInv, TypeOK

\* A rule begins with an empty script, on the underlay, with no device of its own.
LEMMA StartRuleKeeps ==
  ASSUME LowerInv, StartRule
  PROVE  LowerInv'
<1>1. CASE Abort
  <2>1. UNCHANGED <<created, used, count>> /\ dev' \in used
    BY DEF StartRule, Reset, LowerInv, Shape
  <2> QED BY <1>1, <2>1, AbortHere
<1>2. CASE ~Abort
  <2>1. /\ phase = "rule" /\ rule <= Len(file) /\ phase' = "cover"
        /\ at' = 0 /\ base' = Len(created) /\ script' = << >>
        /\ UNCHANGED <<file, rule, out>>
        /\ dev' = Root /\ UNCHANGED <<created, used, count>>
    BY <1>2 DEF StartRule, Reset
  <2>2. IsSeq(<< >>) /\ Len(<< >>) = 0
    <3>1. << >> \in Seq({1})
      OBVIOUS
    <3> QED BY <3>1, SeqIsSeq
  <2> HIDE DEF StartRule, Abort
  <2>3. Shape'
    BY <2>1, <2>2 DEF LowerInv, Shape
  <2>4. TypeOK'
    <3>1. rule \in 1..Len(file) /\ at' \in 0..Len(sp') /\ base' \in 0..Len(created')
      BY <2>1, Lengths DEF sp
    <3> QED BY <2>1, <3>1 DEF LowerInv, TypeOK, Shape
  <2> PICK h : h = Len(out) + 1
    OBVIOUS
  <2>5. /\ Rules' = Rules \cup {h}
        /\ \A r \in Rules : Script(r)' = Script(r)
        /\ Script(h)' = << >>
    BY <2>1, Lengths DEF Rules, Script
  <2>6. DevicesTaken' /\ NamesUnique'
    <3>1. Links(<< >>) = {}
      BY <2>2 DEF Links
    <3> HIDE DEF Rules, Script, Links
    <3>2. \A r \in Rules' : \A j \in Links(Script(r)') :
            r \in Rules /\ j \in Links(Script(r)) /\ Script(r)'[j].dev = Script(r)[j].dev
      BY <2>5, <3>1
    <3>3. used \subseteq used'
      BY <2>1
    <3> QED BY <3>2, <3>3, NoNewLinks
  <2>7. ScriptsSound'
    <3>1. SoundScript(<< >>)
      BY <2>2 DEF SoundScript
    <3> HIDE DEF Rules, Script
    <3> QED BY <2>5, <3>1 DEF LowerInv, ScriptsSound
  <2>8. BroughtUpOnce'
    BY <2>1 DEF LowerInv, BroughtUpOnce
  <2>9. InHand'
    <3>1. Ups(<< >>) = {} /\ Links(<< >>) = {}
      BY <2>2 DEF Ups, Links
    <3>2. StandsAt(<< >>, 0 + 1, Root)
      BY <3>1 DEF StandsAt, Before
    <3>3. (base' + 1)..Len(created') = {}
      BY <2>1, Lengths
    <3>4. StandsAt(script', Len(script') + 1, dev')
      BY <2>1, <2>2, <3>2
    <3>5. Ups(script') = {} /\ Links(script') = {}
      BY <2>1, <3>1
    <3>6. Matched(script', created', base')
      BY <3>3, <3>5 DEF Matched
    <3> QED BY <3>4, <3>5, <3>6 DEF InHand
  <2> QED BY <2>3, <2>4, <2>6, <2>7, <2>8, <2>9 DEF LowerInv
<1> QED BY <1>1, <1>2

\* One more device on either side.
LEMMA OneMoreMatch ==
  ASSUME NEW s, NEW u, NEW a, NEW e, NEW q \in Nat, NEW b \in Nat,
         Len(a) \in Nat, Len(s) \in Nat, Len(e) = Len(a) + 1, b <= Len(a), Len(s) < q,
         \A j \in 1..Len(a) : e[j] = a[j] /\ a[j] # e[Len(e)],
         Links(u) = Links(s) \cup {q}, u[q].dev = e[Len(e)],
         \A j \in Links(s) : u[j].dev = s[j].dev /\ s[j].dev # e[Len(e)],
         Matched(s, a, b)
  PROVE  Matched(u, e, b)
<1> PICK x, name : x = Len(a) /\ name = e[Len(e)]
  OBVIOUS
<1>0. x \in Nat /\ Len(e) = x + 1 /\ name = e[x + 1]
  OBVIOUS
<1> DEFINE B == (b + 1)..x
           C == (b + 1)..(x + 1)
           K == Links(s)
<1>1. C = B \cup {x + 1} /\ \A i \in B : i < x + 1 /\ i \in 1..x
  OBVIOUS
<1>2. \A l \in K : l < q /\ l \in Nat
  BY DEF Links
<1>3. \A i \in B : e[i] = a[i] /\ a[i] # name
  OBVIOUS
<1>4. /\ \A l \in K : \E i \in B : s[l].dev = a[i]
      /\ \A i \in B : \E l \in K : s[l].dev = a[i]
      /\ \A i, j \in B : \A l, m \in K :
           s[l].dev = a[i] /\ s[m].dev = a[j] => (i < j <=> l < m)
  BY DEF Matched
<1>5. Links(u) = K \cup {q} /\ C = (b + 1)..Len(e)
  OBVIOUS
<1> HIDE DEF B, C, K
<1>6. \A l \in K : u[l].dev = s[l].dev /\ s[l].dev # name
  BY DEF K
<1>7. ASSUME NEW l \in Links(u) PROVE \E i \in C : u[l].dev = e[i]
  BY <1>1, <1>3, <1>4, <1>5, <1>6, <1>7
<1>8. ASSUME NEW i \in C PROVE \E l \in Links(u) : u[l].dev = e[i]
  BY <1>1, <1>3, <1>4, <1>5, <1>6, <1>8
<1>9. ASSUME NEW i \in C, NEW j \in C, NEW l \in Links(u), NEW m \in Links(u),
             u[l].dev = e[i], u[m].dev = e[j]
      PROVE  i < j <=> l < m
  <2>1. (i \in B /\ l \in K) \/ (i = x + 1 /\ l = q)
    BY <1>1, <1>3, <1>5, <1>6, <1>9
  <2>2. (j \in B /\ m \in K) \/ (j = x + 1 /\ m = q)
    BY <1>1, <1>3, <1>5, <1>6, <1>9
  <2>3. CASE i \in B /\ l \in K /\ j \in B /\ m \in K
    BY <1>3, <1>4, <1>6, <1>9, <2>3
  <2>4. CASE i \in B /\ l \in K /\ j = x + 1 /\ m = q
    BY <1>1, <1>2, <2>4
  <2>5. CASE i = x + 1 /\ l = q /\ j \in B /\ m \in K
    <3>1. j < x + 1 /\ m < q /\ j \in Nat /\ m \in Nat
      BY <1>1, <1>2, <2>5
    <3> QED BY <2>5, <3>1
  <2>6. CASE i = x + 1 /\ l = q /\ j = x + 1 /\ m = q
    BY <2>6
  <2> QED BY <2>1, <2>2, <2>3, <2>4, <2>5, <2>6
<1> QED BY <1>5, <1>7, <1>8, <1>9 DEF Matched

\* A tile's Lower that returns its commands.
LEMMA TileAdded ==
  ASSUME LowerInv, phase = "cover", NEW name, NEW c, NEW w \in Nat, NEW k,
         name \notin used, used' = used \cup {name}, IsFiniteSet(used'),
         count' \in [NamePrefixes -> 0..MaxCount],
         \A p \in NamePrefixes : count'[p] < MaxCount,
         created' = Append(created, name), dev' = name,
         IsSeq(c), OneDevice(c, k, name, dev),
         script' = script \o c, at' = at + w, at + w <= Len(sp),
         UNCHANGED <<file, rule, phase, base, out>>
  PROVE  LowerInv'
<1> HIDE DEF OneDevice
<1>1. /\ IsSeq(created) /\ IsSeq(script) /\ Root \in used
      /\ StandsAt(script, Len(script) + 1, dev) /\ Ups(script) = {}
  BY DEF LowerInv, Shape, InHand
<1> PICK n, x, h : n = Len(script) /\ x = Len(created) /\ h = Len(out) + 1
  OBVIOUS
<1>2. h \in Rules /\ Rules' = Rules /\ Script(h) = script /\ Script(h)' = script'
  BY Lengths DEF Rules, Script
<1>3. \A r \in Rules \ {h} : Script(r)' = Script(r)
  BY Lengths DEF Rules, Script
<1>4. SoundScript(script)
  BY <1>2 DEF LowerInv, ScriptsSound
<1>5. /\ IsSeq(script') /\ n + k \in 1..Len(script') /\ n \in Nat /\ k \in Nat \ {0}
      /\ \A j \in 1..n : script'[j] = script[j]
      /\ Links(script') = Links(script) \cup {n + k}
      /\ script'[n + k].dev = name
      /\ Ups(script') = Ups(script)
      /\ SoundScript(script')
      /\ StandsAt(script', Len(script') + 1, name)
  <2>1. LET u == script \o c
        IN  /\ IsSeq(u) /\ Len(script) + k \in 1..Len(u) /\ Len(script) \in Nat
            /\ k \in Nat \ {0}
            /\ \A j \in 1..Len(script) : u[j] = script[j]
            /\ Links(u) = Links(script) \cup {Len(script) + k}
            /\ u[Len(script) + k].dev = name
            /\ Ups(u) = Ups(script)
            /\ SoundScript(u)
            /\ StandsAt(u, Len(u) + 1, name)
    BY <1>1, <1>4, OneMoreTile, Zenon
  <2> QED BY <2>1
<1> PICK q : q = n + k
  OBVIOUS
<1>6. /\ x \in Nat /\ IsSeq(created') /\ Len(created') = x + 1
      /\ \A j \in 1..x : created'[j] = created[j]
      /\ created'[x + 1] = name
  BY <1>1, AppendIsSeq
<1>7. Shape'
  BY <1>5, <1>6 DEF LowerInv, Shape
<1>8. TypeOK'
  <2>1. at \in 0..Len(sp) /\ Len(sp) \in Nat
    <3>1. at \in 0..Len(sp)
      BY DEF LowerInv, TypeOK
    <3>2. rule \in 1..Len(file)
      <4>1. rule <= Len(file)
        BY DEF LowerInv, Shape
      <4> QED BY <4>1, Lengths
    <3>3. Len(sp) \in Nat
      BY <3>2, Lengths DEF sp
    <3> QED BY <3>1, <3>3
  <2>2. at' \in 0..Len(sp') /\ base' \in 0..Len(created')
    <3>1. sp' = sp
      BY DEF sp
    <3>2. at' \in 0..Len(sp)
      BY <2>1
    <3>3. base \in 0..x
      BY Lengths
    <3>4. base \in 0..(x + 1)
      BY <1>6, <3>3
    <3> QED BY <1>6, <3>1, <3>2, <3>4
  <2>3. \A j \in 1..(x + 1) : created'[j] \in used'
    <3>1. \A j \in 1..x : created[j] \in used
      BY DEF LowerInv, TypeOK
    <3>2. \A j \in 1..(x + 1) : j \in 1..x \/ j = x + 1
      BY <1>6
    <3> QED BY <1>6, <3>1, <3>2
  <2> QED BY <1>6, <2>2, <2>3 DEF LowerInv, TypeOK
<1>9. DevicesTaken' /\ NamesUnique'
  <2>1. \A j \in Links(script) : script'[j] = script[j]
    BY <1>5 DEF Links
  <2>2. DevicesTaken /\ NamesUnique /\ used \subseteq used' /\ name \in used' \ used
    BY DEF LowerInv
  <2> HIDE DEF Rules, Script, Links, SoundScript
  <2>3. ASSUME NEW r \in Rules', NEW j \in Links(Script(r)')
        PROVE \/ /\ r \in Rules /\ j \in Links(Script(r))
                 /\ Script(r)'[j].dev = Script(r)[j].dev
              \/ r = h /\ j = q /\ Script(r)'[j].dev = name
    <3>1. CASE r = h
      BY <1>2, <1>5, <2>1, <2>3, <3>1
    <3>2. CASE r # h
      BY <1>2, <1>3, <2>3, <3>2
    <3> QED BY <3>1, <3>2
  <2>4. ASSUME NEW r \in Rules, NEW j \in Links(Script(r)) PROVE Script(r)[j].dev \in used
    BY <2>2, <2>4 DEF DevicesTaken
  <2>5. ASSUME NEW r \in Rules', NEW j \in Links(Script(r)'), Script(r)'[j].dev \notin used
        PROVE  r = h /\ j = q
    BY <2>3, <2>4, <2>5
  <2>6. \A r \in Rules' : \A j \in Links(Script(r)') :
           \/ /\ r \in Rules /\ j \in Links(Script(r))
              /\ Script(r)'[j].dev = Script(r)[j].dev
           \/ Script(r)'[j].dev \in used' \ used
    BY <2>2, <2>3
  <2>7. \A r, z \in Rules' : \A j \in Links(Script(r)') : \A l \in Links(Script(z)') :
           /\ Script(r)'[j].dev \notin used
           /\ Script(z)'[l].dev \notin used
           => r = z /\ j = l
    BY <2>5
  <2> QED BY <1>1, <2>2, <2>6, <2>7, LinksStayUnique
<1>10. ScriptsSound'
  <2> HIDE DEF Rules, Script, SoundScript
  <2> QED BY <1>2, <1>3, <1>5 DEF LowerInv, ScriptsSound
<1>11. BroughtUpOnce'
  BY DEF LowerInv, BroughtUpOnce
<1>12. InHand'
  <2>1. Links(script) \subseteq 1..n /\ \A j \in Links(script) : script'[j] = script[j]
    BY <1>5 DEF Links
  <2>2. \A j \in Links(script) : script[j].dev \in used
    BY <1>2 DEF LowerInv, DevicesTaken
  <2>3. \A j \in 1..x : created[j] \in used
    BY DEF LowerInv, TypeOK
  <2>4. Matched(script, created, base)
    BY DEF LowerInv, InHand
  <2>5. base \in Nat /\ base <= x
    BY <1>6, Lengths
  <2>6. \A j \in Links(script) : script'[j].dev = script[j].dev /\ script[j].dev # name
    BY <2>1, <2>2
  <2>7. \A j \in 1..x : created'[j] = created[j] /\ created[j] # name
    BY <1>6, <2>3
  <2>8. /\ q \in Nat /\ n < q /\ Links(script') = Links(script) \cup {q}
        /\ script'[q].dev = name
    BY <1>5
  <2>9. Matched(script', created', base)
    <3>1. created'[Len(created')] = name /\ Len(created') = Len(created) + 1
      BY <1>6
    <3>2. /\ Len(created) \in Nat /\ Len(script) \in Nat
          /\ Len(script) < q /\ base <= Len(created)
      BY <1>5, <1>6, <2>5, <2>8
    <3>3. script'[q].dev = created'[Len(created')]
      BY <2>8, <3>1
    <3>4. \A j \in 1..Len(created) :
            created'[j] = created[j] /\ created[j] # created'[Len(created')]
      BY <2>7, <3>1
    <3>5. \A j \in Links(script) :
            script'[j].dev = script[j].dev /\ script[j].dev # created'[Len(created')]
      BY <2>6, <3>1
    <3>6. q \in Nat /\ base \in Nat /\ Links(script') = Links(script) \cup {q}
      BY <2>5, <2>8
    <3> QED BY <2>4, <3>1, <3>2, <3>3, <3>4, <3>5, <3>6, OneMoreMatch, Zenon
  <2>10. Ups(script') = {} /\ StandsAt(script', Len(script') + 1, dev')
    BY <1>1, <1>5
  <2> QED BY <2>9, <2>10 DEF InHand
<1> QED BY <1>7, <1>8, <1>9, <1>10, <1>11, <1>12 DEF LowerInv

\* A turn of Cover's loop, by the way it returns.
LEMMA LowerTileKeeps ==
  ASSUME LowerInv, NEW t \in Picks, LowerTile(t)
  PROVE  LowerInv'
<1> DEFINE sub == Slice(sp, at, at + Len(t.pattern))
           ask == Naming(t, sub, dev)
           name == Answer(ask)
<1>1. /\ t \in TilesOf(Registry) /\ phase = "cover"
      /\ at + Len(t.pattern) <= Len(sp) /\ Len(t.pattern) \in Nat
  <2>1. t \in Candidates /\ phase = "cover"
    BY DEF Picks, LowerTile
  <2>2. t \in TilesOf(Registry) /\ Matches(t, sp, at)
    BY <2>1 DEF Candidates
  <2> QED BY <2>1, <2>2, SixTiles DEF Matches
<1>2. /\ count \in [NamePrefixes -> 0..MaxCount] /\ IsFiniteSet(used)
      /\ \A p \in NamePrefixes : count[p] < MaxCount
      /\ IsSeq(created) /\ Len(created) \in Nat /\ dev \in used
      /\ \A j \in 1..Len(created) : created[j] \in used
  BY <1>1, Lengths DEF LowerInv, Shape, TypeOK
<1>3. ask.op = "claim" \/ (ask.op = "alloc" /\ ask.prefix \in NamePrefixes)
  BY <1>1, NamingAsks
<1>4. \/ Abort /\ UNCHANGED envVars
      \/ NotNamed(ask) /\ Abort /\ UNCHANGED <<dev, created>>
      \/ Named(ask) /\ Abort /\ UNCHANGED <<dev, created>>
      \/ Named(ask) /\ Enter(name) /\ Abort
      \/ /\ Named(ask) /\ Enter(name)
         /\ script' = script \o Commands(t, sub, name, dev)
         /\ at' = at + Len(t.pattern)
         /\ UNCHANGED <<file, rule, phase, base, out>>
  BY Zenon DEF LowerTile
<1> HIDE DEF sub, ask, name
<1>5. CASE Abort /\ UNCHANGED envVars
  BY <1>2, <1>5, AbortHere DEF envVars
<1>6. CASE NotNamed(ask) /\ Abort /\ UNCHANGED <<dev, created>>
  <2>1. used' = used /\ count' \in [NamePrefixes -> 0..MaxCount]
    BY <1>2, <1>3, <1>6, NameRefused
  <2>2. /\ used \subseteq used' /\ IsFiniteSet(used') /\ dev' \in used' /\ IsSeq(created')
        /\ Len(created) <= Len(created')
        /\ \A j \in 1..Len(created') : created'[j] \in used'
    BY <1>2, <1>6, <2>1
  <2> QED BY <1>6, <2>1, <2>2, AbortKeeps
<1>7. ASSUME Named(ask)
      PROVE  /\ name \notin used /\ used' = used \cup {name} /\ IsFiniteSet(used')
             /\ count' \in [NamePrefixes -> 0..MaxCount]
             /\ \A p \in NamePrefixes : count'[p] < MaxCount
  BY <1>2, <1>3, <1>7, NameGiven DEF name
<1>8. CASE Named(ask) /\ Abort /\ UNCHANGED <<dev, created>>
  <2>1. /\ used \subseteq used' /\ IsFiniteSet(used') /\ dev' \in used' /\ IsSeq(created')
        /\ Len(created) <= Len(created')
        /\ \A j \in 1..Len(created') : created'[j] \in used'
    BY <1>2, <1>7, <1>8
  <2> QED BY <1>7, <1>8, <2>1, AbortKeeps
<1>9. CASE Named(ask) /\ Enter(name) /\ Abort
  <2>1. created' = Append(created, name) /\ dev' = name
    BY <1>9 DEF Enter
  <2>2. /\ IsSeq(created') /\ Len(created') = Len(created) + 1
        /\ \A j \in 1..Len(created) : created'[j] = created[j]
        /\ created'[Len(created) + 1] = name
    BY <1>2, <2>1, AppendIsSeq
  <2>3. /\ used \subseteq used' /\ IsFiniteSet(used') /\ dev' \in used'
        /\ Len(created) <= Len(created')
        /\ \A j \in 1..Len(created') : created'[j] \in used'
    BY <1>2, <1>7, <1>9, <2>1, <2>2
  <2> QED BY <1>7, <1>9, <2>2, <2>3, AbortKeeps
<1>10. CASE /\ Named(ask) /\ Enter(name)
            /\ script' = script \o Commands(t, sub, name, dev)
            /\ at' = at + Len(t.pattern)
            /\ UNCHANGED <<file, rule, phase, base, out>>
  <2>1. created' = Append(created, name) /\ dev' = name
    BY <1>10 DEF Enter
  <2>2. PICK c : c = Commands(t, sub, name, dev)
    OBVIOUS
  <2>3. IsSeq(c) /\ \E k : OneDevice(c, k, name, dev)
    BY <1>1, <2>2, CommandsMakeOne
  <2>4. PICK k : OneDevice(c, k, name, dev)
    BY <2>3
  <2> QED BY <1>1, <1>7, <1>10, <2>1, <2>2, <2>3, <2>4, TileAdded
<1> QED BY <1>4, <1>5, <1>6, <1>8, <1>9, <1>10

\* Only the links of a script are matched with devices.
LEMMA MatchedByLinks ==
  ASSUME NEW s, NEW u, NEW made, NEW from, Links(u) = Links(s),
         \A l \in Links(s) : u[l] = s[l], Matched(s, made, from)
  PROVE  Matched(u, made, from)
<1> PICK K, B : K = Links(s) /\ B = (from + 1)..Len(made)
  OBVIOUS
<1>1. /\ \A l \in K : \E i \in B : s[l].dev = made[i]
      /\ \A i \in B : \E l \in K : s[l].dev = made[i]
      /\ \A i, k \in B : \A l, m \in K :
           s[l].dev = made[i] /\ s[m].dev = made[k] => (i < k <=> l < m)
  BY DEF Matched
<1>2. \A l \in K : u[l].dev = s[l].dev
  OBVIOUS
<1>3. \A l \in K : \E i \in B : u[l].dev = made[i]
  BY <1>1, <1>2
<1>4. \A i \in B : \E l \in K : u[l].dev = made[i]
  BY <1>1, <1>2
<1>5. \A i, k \in B : \A l, m \in K :
        u[l].dev = made[i] /\ u[m].dev = made[k] => (i < k <=> l < m)
  BY <1>1, <1>2
<1> QED BY <1>3, <1>4, <1>5 DEF Matched

\* Cover's end, on one script: a command for each device made, in their order.
LEMMA EndsBroughtUp ==
  ASSUME NEW s, NEW v, NEW made, NEW from \in Nat, IsSeq(s), IsSeq(v)
  PROVE  /\ Len(made) \in Nat
         /\ Len(v) = Len(made) - from
         /\ \A j \in 1..Len(v) : v[j].op = "up" /\ v[j].dev = made[from + j]
         /\ Ups(s) = {}
         /\ Matched(s, made, from)
         => BroughtUp(s \o v)
<1> DEFINE u == s \o v
           n == Len(s)
           x == Len(made)
           w == Len(v)
<1>1. /\ n \in Nat /\ w \in Nat /\ IsSeq(u) /\ Len(u) = n + w
      /\ \A j \in 1..n : u[j] = s[j]
      /\ \A j \in 1..w : u[n + j] = v[j]
  BY ConcatIsSeq
<1> SUFFICES ASSUME Len(made) \in Nat, Len(v) = Len(made) - from,
                    \A j \in 1..Len(v) : v[j].op = "up" /\ v[j].dev = made[from + j],
                    Ups(s) = {}, Matched(s, made, from)
             PROVE  BroughtUp(u)
  OBVIOUS
<1>0. x \in Nat /\ w = x - from
  OBVIOUS
<1> HIDE DEF u, n, x, w
<1>2. ASSUME NEW i \in (n + 1)..(n + w)
      PROVE  /\ u[i].op = "up" /\ u[i].dev = made[(from + i) - n]
             /\ (from + i) - n \in (from + 1)..x
  <2>1. i - n \in 1..w /\ n + (i - n) = i /\ from + (i - n) = (from + i) - n
    BY <1>1
  <2>2. u[i] = v[i - n]
    BY <1>1, <2>1
  <2>3. (from + i) - n \in (from + 1)..x
    BY <1>0, <1>1, <1>2
  <2> QED BY <2>1, <2>2, <2>3 DEF w
<1>3. \A i \in 1..Len(u) : i \in 1..n \/ i \in (n + 1)..(n + w)
  BY <1>1
<1>4. \A i \in 1..n : i \in 1..Len(u) /\ u[i].op = s[i].op /\ s[i].op # "up"
  <2>1. \A i \in 1..n : s[i].op # "up"
    BY DEF Ups, n
  <2> QED BY <1>1, <2>1
<1>5. (n + 1)..(n + w) \subseteq 1..Len(u)
  BY <1>1
<1>6. Ups(u) = (n + 1)..(n + w)
  BY <1>2, <1>3, <1>4, <1>5 DEF Ups
<1>7. Links(u) = Links(s)
  BY <1>2, <1>3, <1>4, <1>5 DEF Links, n
<1>8. \A l \in Links(s) : u[l] = s[l]
  BY <1>1 DEF Links, n
<1> DEFINE K == Links(s)
           B == (from + 1)..x
<1>9. /\ \A l \in K : \E i \in B : s[l].dev = made[i]
      /\ \A i \in B : \E l \in K : s[l].dev = made[i]
      /\ \A i, j \in B : \A l, m \in K :
           s[l].dev = made[i] /\ s[m].dev = made[j] => (i < j <=> l < m)
  BY DEF Matched, x
<1>10. ASSUME NEW b \in B PROVE \E i \in Ups(u) : u[i].dev = made[b]
  <2>1. (b + n) - from \in (n + 1)..(n + w) /\ (from + ((b + n) - from)) - n = b
    BY <1>0, <1>1
  <2> QED BY <1>2, <1>6, <2>1
<1> HIDE DEF K, B
<1>11. \A j \in Ups(u) : \A l \in j..Len(u) : l \in Ups(u)
  BY <1>1, <1>6
<1>12. ASSUME NEW l \in K PROVE \E j \in Ups(u) : u[j].dev = u[l].dev
  <2>1. PICK b \in B : s[l].dev = made[b]
    BY <1>9
  <2>2. PICK j \in Ups(u) : u[j].dev = made[b]
    BY <1>10
  <2> QED BY <1>8, <2>1, <2>2 DEF K
<1>13. ASSUME NEW j \in Ups(u) PROVE \E l \in K : u[l].dev = u[j].dev
  <2>1. PICK b \in B : u[j].dev = made[b]
    BY <1>2, <1>6 DEF B
  <2>2. PICK l \in K : s[l].dev = made[b]
    BY <1>9
  <2> QED BY <1>8, <2>1, <2>2 DEF K
<1>14. ASSUME NEW j \in Ups(u), NEW k \in Ups(u), NEW l \in K, NEW m \in K,
              u[j].dev = u[l].dev, u[k].dev = u[m].dev
       PROVE  j < k <=> l < m
  <2> PICK b, c : b = (from + j) - n /\ c = (from + k) - n
    OBVIOUS
  <2>1. /\ b \in B /\ u[j].dev = made[b] /\ c \in B /\ u[k].dev = made[c]
    BY <1>2, <1>6 DEF B
  <2>2. b < c <=> j < k
    <3>1. j \in Int /\ k \in Int /\ n \in Int /\ from \in Int
      BY <1>1, <1>6
    <3> QED BY <3>1
  <2>3. s[l].dev = made[b] /\ s[m].dev = made[c]
    BY <1>8, <1>14, <2>1 DEF K
  <2>4. \A i, y \in B : s[l].dev = made[i] /\ s[m].dev = made[y] => (i < y <=> l < m)
    BY <1>9
  <2>5. b < c <=> l < m
    BY <2>1, <2>3, <2>4
  <2> QED BY <2>2, <2>5
<1>15. BroughtUp(u)
  <2>1. \A l \in Links(u) : \E j \in Ups(u) : u[j].dev = u[l].dev
    BY <1>7, <1>12 DEF K
  <2>2. \A j \in Ups(u) : \E l \in Links(u) : u[l].dev = u[j].dev
    BY <1>7, <1>13 DEF K
  <2>3. \A j, k \in Ups(u) : \A l, m \in Links(u) :
          u[j].dev = u[l].dev /\ u[k].dev = u[m].dev => (j < k <=> l < m)
    BY <1>7, <1>14 DEF K
  <2> QED BY <1>11, <2>1, <2>2, <2>3 DEF BroughtUp
<1> QED BY <1>15

\* The script of a finished rule.
LEMMA RuleFinished ==
  ASSUME LowerInv, phase = "cover", NEW n
  PROVE  LET u == script \o n \o BringUp
         IN  (n = << >> \/ \E y : n = addrOn(y, dev)) =>
               /\ SoundScript(u) /\ BroughtUp(u) /\ Links(u) = Links(script)
               /\ \A l \in Links(script) : u[l] = script[l]
<1> SUFFICES ASSUME n = << >> \/ \E y : n = addrOn(y, dev)
             PROVE  LET u == script \o n \o BringUp
                    IN  /\ SoundScript(u) /\ BroughtUp(u) /\ Links(u) = Links(script)
                        /\ \A l \in Links(script) : u[l] = script[l]
  OBVIOUS
<1>1. /\ IsSeq(script) /\ Ups(script) = {} /\ StandsAt(script, Len(script) + 1, dev)
      /\ Matched(script, created, base)
  BY DEF LowerInv, Shape, InHand
<1>2. SoundScript(script)
  <2>1. Len(out) + 1 \in Rules /\ Script(Len(out) + 1) = script
    BY Lengths DEF Rules, Script
  <2> QED BY <2>1 DEF LowerInv, ScriptsSound
<1>3. IsSeq(n) /\ \A j \in 1..Len(n) : n[j].op = "addr" /\ n[j].dev = dev
  <2>1. CASE n = << >>
    <3>1. << >> \in Seq({1})
      OBVIOUS
    <3>2. IsSeq(<< >>)
      BY <3>1, SeqIsSeq
    <3> QED BY <2>1, <3>2
  <2>2. CASE \E y : n = addrOn(y, dev)
    BY <2>2, AddressCommands
  <2> QED BY <2>1, <2>2
<1> DEFINE s == script \o n
<1>4. /\ IsSeq(s) /\ Len(script) \in Nat /\ Len(n) \in Nat /\ Len(s) = Len(script) + Len(n)
      /\ \A j \in 1..Len(script) : s[j] = script[j]
      /\ \A j \in 1..Len(n) : s[Len(script) + j] = n[j]
      /\ Links(s) = Links(script) /\ SoundScript(s) /\ StandsAt(s, Len(s) + 1, dev)
      /\ Made(s, Len(s) + 1) = Made(script, Len(script) + 1)
  <2>1. \A j \in 1..Len(n) :
          \/ n[j].op = "addr" /\ n[j].dev = dev
          \/ n[j].op = "up" /\ n[j].dev \in Made(script, Len(script) + 1)
    BY <1>3
  <2>2. LET u == script \o n
        IN  /\ IsSeq(u) /\ Len(script) \in Nat /\ Len(n) \in Nat
            /\ Len(u) = Len(script) + Len(n)
            /\ \A j \in 1..Len(script) : u[j] = script[j]
            /\ \A j \in 1..Len(n) : u[Len(script) + j] = n[j]
            /\ Links(u) = Links(script)
            /\ SoundScript(u)
            /\ StandsAt(u, Len(u) + 1, dev)
            /\ Made(u, Len(u) + 1) = Made(script, Len(script) + 1)
    BY <1>1, <1>2, <1>3, <2>1, NoMoreLinks, Zenon
  <2> QED BY <2>2
<1> HIDE DEF s
<1>5. \A l \in Links(script) : s[l] = script[l]
  BY <1>4 DEF Links
<1>6. Matched(s, created, base)
  BY <1>1, <1>4, <1>5, MatchedByLinks
<1>7. Ups(s) = {}
  <2>1. ASSUME NEW i \in 1..Len(s), s[i].op = "up" PROVE FALSE
    <3>1. CASE i <= Len(script)
      <4>1. i \in 1..Len(script) /\ s[i] = script[i]
        BY <1>4, <3>1
      <4> QED BY <1>1, <2>1, <4>1 DEF Ups
    <3>2. CASE i > Len(script)
      <4>1. i - Len(script) \in 1..Len(n) /\ Len(script) + (i - Len(script)) = i
        BY <1>4, <3>2
      <4>2. s[i].op = "addr"
        BY <1>3, <1>4, <4>1
      <4> QED BY <2>1, <4>2
    <3> QED BY <1>4, <3>1, <3>2
  <2> QED BY <2>1 DEF Ups
<1> DEFINE v == BringUp
<1>8. /\ IsSeq(v) /\ Len(v) = Len(created) - base
      /\ \A j \in 1..Len(v) : v[j].op = "up" /\ v[j].dev = created[base + j]
  <2> PICK z : z = Len(created) - base
    OBVIOUS
  <2>1. z \in Nat
    BY Lengths
  <2>2. v = [j \in 1..z |-> SetUp(created[base + j])]
    BY DEF BringUp
  <2>3. v \in Seq({SetUp(created[base + j]) : j \in 1..z}) /\ Len(v) = z
    BY <2>1, <2>2
  <2>4. IsSeq(v)
    BY <2>3, SeqIsSeq
  <2>5. \A j \in 1..z : v[j] = SetUp(created[base + j])
    BY <2>2
  <2>6. \A d : SetUp(d).op = "up" /\ SetUp(d).dev = d
    BY DEF SetUp
  <2> QED BY <2>3, <2>4, <2>5, <2>6
<1> HIDE DEF v
<1>9. ASSUME NEW j \in 1..Len(v) PROVE v[j].dev \in Made(s, Len(s) + 1)
  <2>1. base + j \in (base + 1)..Len(created)
    BY <1>8, <1>9, Lengths
  <2>2. PICK l \in Links(script) : script[l].dev = created[base + j]
    BY <1>1, <2>1 DEF Matched
  <2>3. l \in Before(script, Len(script) + 1)
    BY <1>4 DEF Before, Links
  <2>4. script[l].dev \in Made(script, Len(script) + 1)
    BY <2>3 DEF Made
  <2> QED BY <1>4, <1>8, <2>2, <2>4
<1> DEFINE u == s \o v
<1>10. /\ IsSeq(u) /\ \A j \in 1..Len(s) : u[j] = s[j]
       /\ Links(u) = Links(s) /\ SoundScript(u)
  <2>1. \A j \in 1..Len(v) :
          \/ v[j].op = "addr" /\ v[j].dev = dev
          \/ v[j].op = "up" /\ v[j].dev \in Made(s, Len(s) + 1)
    BY <1>8, <1>9
  <2>2. LET y == s \o v
        IN  /\ IsSeq(y) /\ Len(s) \in Nat /\ Len(v) \in Nat
            /\ Len(y) = Len(s) + Len(v)
            /\ \A j \in 1..Len(s) : y[j] = s[j]
            /\ \A j \in 1..Len(v) : y[Len(s) + j] = v[j]
            /\ Links(y) = Links(s)
            /\ SoundScript(y)
            /\ StandsAt(y, Len(y) + 1, dev)
            /\ Made(y, Len(y) + 1) = Made(s, Len(s) + 1)
    <3>1. IsSeq(s) /\ IsSeq(v) /\ SoundScript(s) /\ StandsAt(s, Len(s) + 1, dev)
      BY <1>4, <1>8
    <3> QED BY <2>1, <3>1, NoMoreLinks, Zenon
  <2> QED BY <2>2
<1>11. BroughtUp(u)
  <2>1. base \in Nat /\ Len(created) \in Nat
    BY Lengths
  <2> QED BY <1>4, <1>6, <1>7, <1>8, <2>1, EndsBroughtUp
<1> HIDE DEF u
<1>12. \A l \in Links(script) : u[l] = script[l]
  BY <1>4, <1>5, <1>10 DEF Links
<1> QED BY <1>4, <1>10, <1>11, <1>12 DEF s, u, v

\* The end of Cover, and render printing the rule.
LEMMA FinishRuleKeeps ==
  ASSUME LowerInv, FinishRule
  PROVE  LowerInv'
<1> DEFINE rest == Slice(sp, at, Len(sp))
           addr == LeftoverAddress(rest)
           u    == script \o addr \o BringUp
<1>1. phase = "cover" /\ UNCHANGED envVars
  BY DEF FinishRule
<1>2. CASE Abort
  <2>1. UNCHANGED <<created, used, count>> /\ dev' \in used
    BY <1>1 DEF envVars, LowerInv, TypeOK
  <2> QED BY <1>2, <2>1, AbortHere
<1>3. CASE ~Abort
  <2>1. PICK e : /\ e.script = u /\ out' = Append(out, e)
                 /\ rule' = rule + 1 /\ phase' = "rule"
                 /\ UNCHANGED <<file, at, base, script, applied>>
    <3> DEFINE e == [script |-> u, applied |-> applied,
                     payload |-> IF addr = << >> THEN rest ELSE Tail(rest)]
    <3>1. /\ out' = Append(out, e) /\ rule' = rule + 1 /\ phase' = "rule"
          /\ UNCHANGED <<file, at, base, script, applied>>
      BY <1>3, Zenon DEF FinishRule
    <3>2. e.script = u
      OBVIOUS
    <3> QED BY <3>1, <3>2
  <2>2. addr = << >> \/ \E y : addr = addrOn(y, dev)
    BY DEF LeftoverAddress
  <2> HIDE DEF rest, addr
  <2>3. /\ SoundScript(u) /\ BroughtUp(u) /\ Links(u) = Links(script)
        /\ \A l \in Links(script) : u[l] = script[l]
    BY <1>1, <2>2, RuleFinished
  <2> HIDE DEF u
  <2> PICK n, h : n = Len(out) /\ h = n + 1
    OBVIOUS
  <2>4. /\ IsSeq(out') /\ Len(out') = n + 1 /\ n \in Nat
        /\ \A r \in 1..n : out'[r] = out[r]
        /\ out'[n + 1] = e
    <3>1. IsSeq(out)
      BY DEF LowerInv, Shape
    <3> QED BY <2>1, <3>1, AppendIsSeq
  <2>5. Shape'
    BY <1>1, <2>1, <2>4 DEF LowerInv, Shape, envVars
  <2>6. TypeOK'
    <3>1. rule <= Len(file)
      BY <1>1 DEF LowerInv, Shape
    <3>2. rule' \in 1..(Len(file') + 1) /\ Len(out') = rule' - 1
      BY <2>1, <2>4, <3>1, Lengths
    <3> QED BY <1>1, <2>1, <3>2 DEF LowerInv, TypeOK, envVars
  <2>7. /\ Rules' = Rules /\ h \in Rules /\ Script(h) = script /\ Script(h)' = u
        /\ \A r \in Rules \ {h} : Script(r)' = Script(r)
    BY <1>1, <2>1, <2>4 DEF Rules, Script
  <2>8. DevicesTaken' /\ NamesUnique'
    <3> HIDE DEF Rules, Script, Links
    <3>1. ASSUME NEW r \in Rules', NEW j \in Links(Script(r)')
          PROVE  /\ r \in Rules /\ j \in Links(Script(r))
                 /\ Script(r)'[j].dev = Script(r)[j].dev
      <4>1. CASE r = h
        BY <2>3, <2>7, <3>1, <4>1
      <4>2. CASE r # h
        BY <2>7, <3>1, <4>2
      <4> QED BY <4>1, <4>2
    <3>2. used \subseteq used'
      BY <1>1 DEF envVars
    <3>3. \A r \in Rules' : \A j \in Links(Script(r)') :
            /\ r \in Rules /\ j \in Links(Script(r))
            /\ Script(r)'[j].dev = Script(r)[j].dev
      BY <3>1
    <3> QED BY <3>2, <3>3, NoNewLinks
  <2>9. ScriptsSound'
    <3> HIDE DEF Rules, Script, SoundScript
    <3> QED BY <2>3, <2>7 DEF LowerInv, ScriptsSound
  <2>10. BroughtUpOnce'
    <3>1. \A r \in 1..n : BroughtUp(out[r].script)
      BY DEF LowerInv, BroughtUpOnce
    <3>2. \A r \in 1..(n + 1) : BroughtUp(out'[r].script)
      <4>1. \A r \in 1..(n + 1) : r \in 1..n \/ r = n + 1
        BY <2>4
      <4> QED BY <2>1, <2>3, <2>4, <3>1, <4>1
    <3> QED BY <2>4, <3>2 DEF BroughtUpOnce
  <2>11. InHand'
    BY <2>1 DEF InHand
  <2> QED BY <2>5, <2>6, <2>8, <2>9, <2>10, <2>11 DEF LowerInv
<1> QED BY <1>2, <1>3

\* One case an action.
LEMMA LowerStep == LowerInv /\ [Next]_vars => LowerInv'
<1> SUFFICES ASSUME LowerInv, [Next]_vars PROVE LowerInv'
  OBVIOUS
<1>1. CASE ReadTrees
  BY <1>1, ReadTreesKeeps
<1>2. CASE StartRule
  BY <1>2, StartRuleKeeps
<1>3. ASSUME NEW t \in Picks, LowerTile(t) PROVE LowerInv'
  BY <1>3, LowerTileKeeps
<1>4. CASE NoLowering
  <2>1. Abort /\ UNCHANGED <<created, used, count>> /\ dev' \in used
    BY <1>4 DEF NoLowering, envVars, LowerInv, TypeOK
  <2> QED BY <2>1, AbortHere
<1>5. CASE FinishRule
  BY <1>5, FinishRuleKeeps
<1>6. CASE EndOfFile
  BY <1>6, EndOfFileKeeps
<1>7. CASE Terminated
  BY <1>7, StutterKeeps DEF Terminated
<1>8. CASE UNCHANGED vars
  BY <1>8, StutterKeeps
<1> QED BY <1>1, <1>2, <1>3, <1>4, <1>5, <1>6, <1>7, <1>8 DEF Next

\* The invariant holds of `pktc lower' on every file.
THEOREM LowerInvariant == Spec => []LowerInv
<1> QED BY LowerInit, LowerStep, PTL DEF Spec

----------------------------------------------------------------------------
\* The properties.

\* What the invariant says of the scripts.
LEMMA SoundScriptsSuffice ==
  LowerInv => NamesUnique /\ BuiltBeforeUsed /\ BroughtUpOnce /\ ChainOnUnderlay
<1>1. ASSUME NEW s, SoundScript(s), NEW j \in 1..Len(s)
      PROVE  IF s[j].op = "link" THEN s[j].parent \in Made(s, j) \cup {NoDev}
                                 ELSE s[j].dev \in Made(s, j)
  BY <1>1, StandingIsMade DEF SoundScript
<1>2. LowerInv => BuiltBeforeUsed
  BY <1>1 DEF LowerInv, ScriptsSound, BuiltBeforeUsed
<1>3. LowerInv => ChainOnUnderlay
  BY DEF LowerInv, ScriptsSound, SoundScript, ChainOnUnderlay
<1> QED BY <1>2, <1>3 DEF LowerInv

\* The Env, Cover's position and the rule count stay in their ranges: no counter
\* passes the number no name has room for, whatever the file.
THEOREM LowerTypeOK == Spec => []TypeOK
<1>1. LowerInv => TypeOK
  BY DEF LowerInv
<1> QED BY <1>1, LowerInvariant, PTL

\* Over all the rules of a file no device is made twice, whether its name was
\* claimed or allocated.
THEOREM LowerNamesUnique == Spec => []NamesUnique
<1> QED BY SoundScriptsSuffice, LowerInvariant, PTL

\* No command comes before the one that makes its device.
THEOREM LowerBuiltBeforeUsed == Spec => []BuiltBeforeUsed
<1> QED BY SoundScriptsSuffice, LowerInvariant, PTL

\* Every printed rule ends with its own devices brought up, outermost first.
THEOREM LowerBroughtUpOnce == Spec => []BroughtUpOnce
<1> QED BY SoundScriptsSuffice, LowerInvariant, PTL

\* Every rule's chain starts from the underlay and goes on from the device made
\* last, and addresses go on that device.
THEOREM LowerChainOnUnderlay == Spec => []ChainOnUnderlay
<1> QED BY SoundScriptsSuffice, LowerInvariant, PTL

----------------------------------------------------------------------------
\* What package wire predicts of a tree.

\* A fact is read by its label.
LEMMA OneLabel ==
  ASSUME NEW l, NEW x, NEW y
  PROVE  Fact(l, x, y).label = l
BY DEF Fact

\* A tree that predicts anything has an IP header outermost.
LEMMA OuterIsIP ==
  ASSUME NEW layers, Expect(layers).ok
  PROVE  /\ layers # << >> /\ layers[1].name \in {"ipv4", "ipv6"}
         /\ "error" \notin {Src(layers[1]), Dst(layers[1])}
BY DEF Expect, NoPrediction

\* The layer under the transport, if there is one.
Below(layers) == {layers[j] : j \in {l \in 1..Len(layers) : l = 3}}

\* It is the third layer.
LEMMA BelowIsThird ==
  ASSUME NEW layers, Len(layers) \in Nat
  PROVE  Below(layers) = IF Len(layers) >= 3 THEN {layers[3]} ELSE {}
<1>1. {l \in 1..Len(layers) : l = 3} = IF Len(layers) >= 3 THEN {3} ELSE {}
  OBVIOUS
<1> QED BY <1>1 DEF Below

\* A tunnel has layers, and a second one.
LEMMA LongEnough ==
  ASSUME NEW s, Len(s) \in Nat, Len(s) >= 2
  PROVE  s # << >> /\ ~(Len(s) < 2)
<1>1. Len(<< >>) = 0
  OBVIOUS
<1> QED BY <1>1

\* The shapes of a tunnel's prediction.
LEMMA ShapeOfPrediction ==
  ASSUME NEW layers, Len(layers) \in Nat, Len(layers) >= 2, layers[2].name # "",
         layers[1].name \in {"ipv4", "ipv6"},
         "error" \notin {Src(layers[1]), Dst(layers[1])}
  PROVE  LET next == layers[2].name
         IN /\ next = "udp"  => Expect(layers) = ExpectUDP(layers[1], layers[2], Below(layers))
            /\ next = "gre"  => Expect(layers) = ExpectProtocol(layers[1], <<"proto gre">>, "GREv0")
            /\ next = "ipv4" => Expect(layers) = ExpectProtocol(layers[1], <<"proto 4">>, "IP")
            /\ next \notin {"udp", "gre", "ipv4"} => Expect(layers) = NoPrediction
<1> DEFINE next == IF Len(layers) < 2 THEN "" ELSE layers[2].name
<1>1. layers # << >> /\ next = layers[2].name
  BY LongEnough, Zenon
<1>2. Expect(layers) =
        IF \/ layers = << >>
           \/ layers[1].name \notin {"ipv4", "ipv6"}
           \/ "error" \in {Src(layers[1]), Dst(layers[1])}
        THEN NoPrediction
        ELSE CASE next = ""     -> Predicts(<<"ip">>, SourceFact(layers[1]))
               [] next = "udp"  -> ExpectUDP(layers[1], layers[2], Below(layers))
               [] next = "gre"  -> ExpectProtocol(layers[1], <<"proto gre">>, "GREv0")
               [] next = "ipv4" -> ExpectProtocol(layers[1], <<"proto 4">>, "IP")
               [] OTHER         -> NoPrediction
  BY Zenon DEF Expect, Below
<1> HIDE DEF next
<1> QED BY <1>1, <1>2

============================================================================
