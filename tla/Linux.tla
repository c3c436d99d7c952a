------------------------------- MODULE Linux -------------------------------
(* The Lower functions of the iproute2 tiles: the conditions each checks    *)
(* before it names a device, between naming and entering it, and after, and *)
(* the commands it returns.                                                 *)
(*                                                                          *)
(* A command is a record: what it does (link, addr, wg or up), the device   *)
(* it does it to, and its arguments.  A link names the device it is built   *)
(* on, or NoDev when its command line has no `dev' or `link'.               *)
EXTENDS LinuxTiles, Ast, Names, TLC

CONSTANTS
  Multicast(_),   \* is this address a multicast group?
  BitLen(_)       \* the bits of an address of its family: 32 or 128

NoDev == [stem |-> "", num |-> 0, tags |-> << >>, len |-> 0]

----------------------------------------------------------------------------
\* Reading the layers.

endpoints(outer) == Src(outer) = "concrete" /\ Dst(outer) = "concrete"

\* readEndpoint: with a slash an address/length, without one an address.
readEndpoint(n, key) ==
  IF Lookup(n, key) /\ n.props[key].kind = "prefix" THEN Get(n, key, "prefix")
                                                    ELSE Get(n, key, "addr")

\* AddressOf: the address a layer puts on a device, if it carries one.
CarriesAddress(n) == n.name \in {"ipv4", "ipv6"} /\ SrcPrefix(n) = "concrete"
AddressOfFails(n) == n.name \in {"ipv4", "ipv6"} /\ SrcPrefix(n) = "error"

----------------------------------------------------------------------------
\* Commands.

Link(type, name, parent, opts) ==
  [op |-> "link", dev |-> name, type |-> type, parent |-> parent, opts |-> opts]
AddAddr(name, v) == [op |-> "addr", dev |-> name, addr |-> v.addr, bits |-> v.bits]
WgSet(name, opts) == [op |-> "wg", dev |-> name, opts |-> opts]
SetUp(name) == [op |-> "up", dev |-> name]

\* netip.Prefix.Masked: an address is its network and its host part, and a
\* length short of all its bits is taken to end between the two.
Masked(v) ==
  IF v.bits = BitLen(v.addr) THEN v ELSE Prefix([v.addr EXCEPT !.host = 0], v.bits)

\* An option that is there only under a condition.
Opt(cond, name, v) == IF cond THEN Only(name, v) ELSE NoProps

addrOn(n, name) ==
  IF CarriesAddress(n) THEN <<AddAddr(name, n.props.src)>> ELSE << >>

----------------------------------------------------------------------------
\* What a tile's Lower checks before it asks env for a name.
ReadyVXLAN(outer, transport, tunnel) ==
  /\ VNI(tunnel) \in {"concrete", "dynamic"}
  /\ DstPort(transport) = "concrete"
  /\ readEndpoint(outer, "src") \in {"concrete", "dynamic"}
  /\ readEndpoint(outer, "dst") \in {"concrete", "dynamic"}

ReadyVLAN(tag) == VLANID(tag) = "concrete"

ReadyWireGuard(outer, transport, tunnel, inner) ==
  /\ Peer(tunnel) = "concrete"
  /\ SrcPort(transport) = "concrete"
  /\ readEndpoint(outer, "dst") # "error"
  /\ DstPort(transport) # "error"
  /\ SrcPrefix(inner) = "concrete"

Ready(t, sub) ==
  CASE t \in {IPIP, GRE, GRETAP} -> endpoints(sub[1])
    [] t = VXLAN     -> ReadyVXLAN(sub[1], sub[2], sub[3])
    [] t = VLAN      -> ReadyVLAN(sub[2])
    [] t = WireGuard -> ReadyWireGuard(sub[1], sub[2], sub[3], sub[4])

\* The name it asks for: an exact one, or the next one of a prefix.
Naming(t, sub, under) ==
  CASE t = IPIP      -> [op |-> "alloc", prefix |-> "ipip"]
    [] t = GRE       -> [op |-> "alloc", prefix |-> "gre"]
    [] t = GRETAP    -> [op |-> "alloc", prefix |-> "gretap"]
    [] t = WireGuard -> [op |-> "alloc", prefix |-> "wg"]
    [] t = VLAN      -> [op |-> "claim", name |-> Tagged(under, sub[2].props.id.num)]
    [] t = VXLAN ->
         IF VNI(sub[3]) = "concrete"
         THEN [op |-> "claim", name |-> Name("vxlan", sub[3].props.vni.num)]
         ELSE [op |-> "alloc", prefix |-> "vxlan"]

\* What it checks once it has a name, before Enter: the GRE key.
ReadyToEnter(t, sub) == t \in {GRE, GRETAP} => Key(sub[2]) # "error"

\* What it checks after Enter: the address of the inner layer it consumed.
ReadyToReturn(t, sub) ==
  t \in {IPIP, GRE, WireGuard} => ~AddressOfFails(Last(sub))

----------------------------------------------------------------------------
\* The commands of a point-to-point device between the outer endpoints.
PointToPoint(type, sub, name) ==
  Link(type, name, NoDev,
       Only("local", sub[1].props.src.addr) ++ Only("remote", sub[1].props.dst.addr)
         ++ (IF type # "ipip"
             THEN Opt(Key(sub[2]) = "concrete", "key", sub[2].props.key)
             ELSE NoProps))

VXLANLink(sub, name, under) ==
  LET src == sub[1].props.src
      dst == sub[1].props.dst
      vni == sub[3].props.vni
  IN Link("vxlan", name, under,
          (IF vni = Star THEN Only("external", TRUE) ELSE Only("id", vni.num))
            ++ Opt(src # Star, "local", src.addr)
            ++ Opt(dst # Star, IF Multicast(dst.addr) THEN "group" ELSE "remote", dst.addr)
            ++ Only("dstport", sub[2].props.dst_port.num))

\* The prefix of a tunnel's own address goes on the device below it.
underlayAddress(sub, under) ==
  IF sub[1].props.src.kind = "prefix" THEN <<AddAddr(under, sub[1].props.src)>>
                                      ELSE << >>

WireGuardPeer(sub, name) ==
  WgSet(name,
    Only("peer", sub[3].props.peer) ++ Only("allowed_ips", Masked(sub[4].props.src))
      ++ Opt(readEndpoint(sub[1], "dst") = "concrete", "endpoint",
             <<sub[1].props.dst.addr,
               IF DstPort(sub[2]) = "concrete" THEN sub[2].props.dst_port.num
                                               ELSE sub[2].props.src_port.num>>))

\* What each tile's Lower returns, given the name and the device below.
lowerIPIP(sub, name) == <<PointToPoint("ipip", sub, name)>> \o addrOn(sub[2], name)

\* Faulty: the device is addressed before it is made.
lowerGREAddressFirst(sub, name) ==
  addrOn(sub[3], name) \o <<PointToPoint("gre", sub, name)>>

lowerGRE(sub, name) == <<PointToPoint("gre", sub, name)>> \o addrOn(sub[3], name)

lowerGRETAP(sub, name) == <<PointToPoint("gretap", sub, name)>>

lowerVXLAN(sub, name, under) ==
  Append(underlayAddress(sub, under), VXLANLink(sub, name, under))

lowerVLAN(sub, name, under) ==
  <<Link("vlan", name, under, Only("id", sub[2].props.id.num))>>

lowerWireGuard(sub, name) ==
  <<Link("wireguard", name, NoDev, NoProps),
    WgSet(name, Only("listen_port", sub[2].props.src_port.num)),
    WireGuardPeer(sub, name)>> \o addrOn(sub[4], name)

Commands(t, sub, name, under) ==
  CASE t = IPIP      -> lowerIPIP(sub, name)
    [] t = GRE       -> lowerGRE(sub, name)
    [] t = GRETAP    -> lowerGRETAP(sub, name)
    [] t = VXLAN     -> lowerVXLAN(sub, name, under)
    [] t = VLAN      -> lowerVLAN(sub, name, under)
    [] t = WireGuard -> lowerWireGuard(sub, name)

============================================================================
