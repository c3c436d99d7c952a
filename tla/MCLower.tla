------------------------------ MODULE MCLower ------------------------------
(* Lower over three families of files: one tile with its properties in      *)
(* every state, chains of tiles with what may follow them, and files of up  *)
(* to three rules that share an Env.  Names have eleven characters.         *)
EXTENDS Readings

MCStems   == {"eth", "vxlan", "gre", "gretap", "ipip", "wg"}
MCStemLen == [s \in MCStems |-> CASE s \in {"eth", "gre"} -> 3
                                  [] s = "vxlan"  -> 5
                                  [] s = "gretap" -> 6
                                  [] s = "ipip"   -> 4
                                  [] s = "wg"     -> 2]
MCTens == <<10, 100, 1000, 10000, 100000, 1000000, 10000000, 100000000,
            1000000000>>
MCRoot == Name("eth", 0)

NilGuard(t, sub) == t.guard = "nil"

----------------------------------------------------------------------------
\* Addresses, and the values a property may have.
Host(n, h)   == [net |-> n, host |-> h]
Near         == Host("under", 1)
Far          == Host("under", 2)
Group        == Host("group", 1)
MCMulticast(a) == a.net = "group"
MCBitLen(a)    == IF a.net = "six" THEN 128 ELSE 32

\* The props of a layer: each key absent or with one of its values.
PropSets(vals) ==
  UNION {{f \in [K -> UNION {vals[k] : k \in K}] : \A k \in K : f[k] \in vals[k]}
         : K \in SUBSET DOMAIN vals}

Layers(name, vals) == {Layer(name, p) : p \in PropSets(vals)}

Eth   == Layer("ethernet", NoProps)
Tcp   == Layer("tcp", NoProps)
Bare4 == Layer("ipv4", NoProps)
Out4  == Layer("ipv4", [src |-> Addr(Near), dst |-> Addr(Far)])
Mid4(n) == Layer("ipv4", [src |-> Prefix(Host(n, 1), 24), dst |-> Addr(Host(n, 2))])
In4(n)  == Layer("ipv4", [src |-> Prefix(Host(n, 1), 24)])
Udp   == Layer("udp", [src_port |-> Num(51820), dst_port |-> Num(4789)])
Gre   == Layer("gre", NoProps)
Vx(v) == Layer("vxlan", [vni |-> v])
Tag(i) == Layer("vlan", [id |-> Num(i)])
Wg    == Layer("wireguard", [peer |-> Text("peer")])
OtherUdp == Layer("udp", [src_port |-> Num(4789), dst_port |-> Num(8472)])
Six      == Host("six", 1)

Rule(ls) == [defect |-> "none", layers |-> ls]

----------------------------------------------------------------------------
\* One tile, its properties in every state.
AnyOuter == Layers("ipv4", [src |-> {Star, Addr(Near), Prefix(Near, 24), Text("x")},
                            dst |-> {Star, Addr(Far), Addr(Six), Addr(Group), Text("x")}])
AnyInner == Layers("ipv4", [src |-> {Star, Addr(Near), Prefix(Near, 24), Prefix(Near, 32)}])
AnyGre   == Layers("gre", [key |-> {Star, Num(7), BigNum}])
AnyVx    == Layers("vxlan", [vni |-> {Star, Num(100), Num(16777216)}])
AnyTag   == Layers("vlan", [id |-> {Star, Num(0), Num(1), Num(4094), Num(4095)}])
AnyUdp   == Layers("udp", [dst_port |-> {Star, Num(4789), Num(8472), Num(65536)}])
AnyWgUdp == Layers("udp", [src_port |-> {Star, Num(0), Num(51820), Text("x")},
                           dst_port |-> {Star, Num(51821), Num(65536)}])
AnyWg    == Layers("wireguard", [peer |-> {Star, Text("peer"), Num(1)}])

OneTile ==
  {<<a, b>> : a \in AnyOuter, b \in AnyInner} \cup
  {<<a, b, c>> : a \in AnyOuter, b \in AnyGre, c \in AnyInner \cup {Eth}} \cup
  {<<a, b, c, Eth>> : a \in AnyOuter, b \in AnyUdp, c \in AnyVx} \cup
  {<<Eth, b>> : b \in AnyTag} \cup
  {<<a, b, c, d>> : a \in AnyOuter, b \in AnyWgUdp, c \in AnyWg, d \in AnyInner}

----------------------------------------------------------------------------
\* Chains: what a stack may begin with, go on with, and end in.
Outer ==
  { <<Out4, Gre, Eth>>, <<Out4, Udp, Vx(Num(100)), Eth>>,
    <<Out4, Udp, Vx(Star), Eth>>, <<Eth, Tag(10)>>, <<Out4, In4("a")>>,
    <<Out4, Gre, In4("a")>>, <<Out4, Udp, Wg, In4("a")>> }
Nested ==
  { << >>, <<Mid4("b"), Udp, Vx(Num(200)), Eth>>, <<Mid4("b"), Udp, Vx(Num(1)), Eth>>,
    <<Out4, Udp, Vx(Star), Eth>>, <<Out4, Gre, Eth>>, <<Out4, In4("c")>>,
    <<Eth, Tag(20)>>, <<Eth, Tag(100)>>, <<Udp, Vx(Num(1)), Eth>> }
Tails == { << >>, <<Bare4>>, <<In4("d")>>, <<In4("d"), Tcp>>, <<Tcp>>, <<Out4>> }

\* UDP is carried by IP alone.
Plausible(ls) ==
  \A j \in 1..(Len(ls) - 1) : ls[j + 1].name = "udp" => ls[j].name = "ipv4"

Chains ==
  {ls \in {o \o m \o n \o t : o \in Outer, m \in Nested, n \in Nested, t \in Tails} :
     Plausible(ls)}

----------------------------------------------------------------------------
\* Rules that meet in one file.
SomeRules ==
  {Rule(ls) : ls \in
     { <<Out4, Udp, Vx(Num(100)), Eth, In4("a")>>, <<Out4, Udp, Vx(Star), Eth, In4("b")>>,
       <<Out4, Udp, Vx(Num(1)), Eth>>, <<Mid4("b"), Udp, Vx(Num(2)), Eth, Tcp>>,
       <<Eth, Tag(10), Mid4("b"), Udp, Vx(Star), Eth>>, <<Eth, Tag(10), In4("a")>>,
       <<Out4, Gre, In4("a"), Tcp>>, <<Out4, Gre, Eth, Out4>>, <<Out4, In4("a")>>,
       <<Out4, Udp, Wg, In4("a")>>, <<Out4, OtherUdp, Wg, In4("c")>>,
       <<Out4, OtherUdp, Vx(Star), Eth, In4("six")>>, <<Tcp>>, <<Bare4, Bare4>> }}
  \cup {[defect |-> "form", layers |-> <<Tcp>>], [defect |-> "build", layers |-> <<Tcp>>]}

MCFiles ==
  {<<Rule(ls)>> : ls \in OneTile \cup Chains} \cup
  {<< >>} \cup
  {<<a, b>> : a \in SomeRules, b \in SomeRules} \cup
  {<<a, b, c>> : a \in SomeRules, b \in SomeRules, c \in SomeRules}

----------------------------------------------------------------------------
\* The files of the runs that refute a statement.

\* VXLAN inside GRE.
NestedFiles ==
  {<<Rule(<<Out4, Gre, Mid4("a"), Udp, Vx(Num(100)), Eth, In4("b")>>)>>}

\* Routed GRE, captured on its underlay.
CaptureFiles == {<<Rule(<<Out4, Gre, In4("a")>>)>>}

============================================================================
