------------------------------ MODULE MCMirror ------------------------------
(* Mirror over single tiles with their endpoints in every state, chains of  *)
(* tiles, and files that hold no rule, two rules or a rule that is refused. *)
(* The values and layers are those of MCLower.                              *)
EXTENDS Mirror, MCLower

Told == Prefix(Host("a", 9), 24)
MCPeerInners == {NoInner, Told, Addr(Host("a", 9))}

----------------------------------------------------------------------------
\* A layer with neither, one or both of its ends.
Ends4(srcs, dsts) == Layers("ipv4", [src |-> srcs, dst |-> dsts])

AnyEnds ==
  Ends4({Star, Addr(Near), Prefix(Near, 24), Prefix(Six, 64), Num(7)},
        {Star, Addr(Far), Prefix(Far, 24), Addr(Group), Text("x")})

\* What a tunnel carries: an address of one end, of both, or none.
Within ==
  Ends4({Star, Prefix(Host("a", 1), 24), Prefix(Six, 64)},
        {Star, Addr(Host("a", 2)), Prefix(Host("a", 2), 30), Text("x")})

Ports == {Udp, Layer("udp", [src_port |-> Num(51820), dst_port |-> Num(51820)])}
Keyed == {Gre, Layer("gre", [key |-> Num(7)])}

TurnedTiles ==
  {<<a, b>> : a \in AnyEnds, b \in Within} \cup
  {<<a, g, b>> : a \in AnyEnds, g \in Keyed, b \in Within \cup {Eth}} \cup
  {<<a, Udp, Vx(v), Eth>> \o t : a \in AnyEnds, v \in {Num(100), Star},
                                 t \in {<< >>} \cup {<<b>> : b \in Within}} \cup
  {<<Eth, Tag(10), a>> : a \in AnyEnds} \cup
  {<<a, u, Wg, b>> : a \in AnyEnds, u \in Ports, b \in Within}

TurnedChains ==
  {o \o m \o t : o \in Outer, m \in Nested, t \in {<< >>} \cup {<<b>> : b \in Within}}

MirrorFiles ==
  {<<Rule(ls)>> : ls \in TurnedTiles \cup {c \in TurnedChains : Plausible(c)}} \cup
  {<< >>, <<Rule(<<Out4, In4("a")>>), Rule(<<Out4, In4("b")>>)>>,
   <<[defect |-> "form", layers |-> <<Tcp>>]>>,
   <<[defect |-> "build", layers |-> <<Tcp>>]>>}

----------------------------------------------------------------------------
\* The files of the runs that refute a statement.

\* VXLAN whose outer layer names both host parts and the length, and nothing
\* further in carries an address.
DerivedFiles == {<<Rule(<<Mid4("a"), Udp, Vx(Num(100)), Eth>>)>>}

\* VXLAN that knows its own address and learns its peers.
LostFiles ==
  {<<Rule(<<Layer("ipv4", [src |-> Prefix(Near, 24), dst |-> Star]), Udp, Vx(Num(100)), Eth>>)>>}

\* WireGuard that listens on one port and sends to another.
PortFiles == {<<Rule(<<Out4, Udp, Wg, In4("a")>>)>>}

============================================================================
