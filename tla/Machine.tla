------------------------------ MODULE Machine ------------------------------
(* A machine on which a printed script is run, line by line, as             *)
(* nettest's RunScript does: it stops at the first command that fails.      *)
(* The kernel's side is external: what `ip' and `wg' refuse, as far as the  *)
(* commands of the tiles go, on a machine that has the key files the script *)
(* names and a route to every address in it.                                *)
EXTENDS Linux

\* Devices with their kind, parent and options, addresses by device, the UDP
\* sockets the devices open when they come up, devices that are up; and what
\* made a command fail, "" for none.
Fresh(root) ==
  [links |-> {Link("physical", root, NoDev, NoProps)}, addrs |-> {}, sockets |-> {},
   up |-> {root}, error |-> ""]

Fails(mc, why) == [mc EXCEPT !.error = why]

Device(mc, name) == {l \in mc.links : l.dev = name}

\* A VXLAN device with `dstport 0' gets the kernel's default port.
KernelPort == 8472
PortOf(l) == IF l.opts["dstport"] = 0 THEN KernelPort ELSE l.opts["dstport"]

\* What makes a tunnel the same tunnel to the kernel: its endpoints and key, or
\* its VNI and port.
Identity(l) ==
  CASE l.type = "vxlan" ->
         Only("port", PortOf(l)) ++ [k \in DOMAIN l.opts \cap {"id", "external"} |-> l.opts[k]]
    [] l.type \in {"gre", "gretap", "ipip"} -> l.opts
    [] l.type \in {"vlan", "wireguard", "physical"} -> Only("name", l.dev)

SameTunnel(c, d) == c.type = d.type /\ Identity(c) = Identity(d)

\* An IPv4 address may be on a device twice, with two lengths.
SameAddress(c, d) ==
  c.dev = d.dev /\ c.addr = d.addr /\ (c.bits = d.bits \/ BitLen(c.addr) = 128)

\* The sockets a command asks for.  Without a listen-port, or with 0, a WireGuard
\* device takes a port that is free.
Asks(c) ==
  CASE c.op = "link" /\ c.type = "vxlan" ->
         {[dev |-> c.dev, port |-> PortOf(c),
           kind |-> IF "external" \in DOMAIN c.opts THEN "external" ELSE "vni"]}
    [] c.op = "wg" /\ "listen_port" \in DOMAIN c.opts ->
         {[dev |-> c.dev, port |-> p, kind |-> "wireguard"] : p \in {c.opts["listen_port"]} \ {0}}
    [] OTHER -> {}

\* Two devices cannot be up on one port, unless they are VXLAN devices of one
\* kind, which share their socket.
Clash(x, y) ==
  x.dev # y.dev /\ x.port = y.port /\ (x.kind # y.kind \/ x.kind = "wireguard")

\* What `ip' refuses on any machine: a GRE or IP-in-IP device between addresses
\* that are not IPv4, a VXLAN device at a group or between two families, and a
\* group for an IPv6 address.
Refused(c) ==
  LET ends(keys) == {c.opts[k] : k \in DOMAIN c.opts \cap keys}
  IN \/ /\ c.op = "link" /\ c.type \in {"gre", "gretap", "ipip"}
        /\ \E a \in ends({"local", "remote"}) : BitLen(a) # 32
     \/ /\ c.op = "link" /\ c.type = "vxlan"
        /\ \E a \in ends({"local"}) :
             Multicast(a) \/ \E b \in ends({"remote", "group"}) : BitLen(a) # BitLen(b)
     \/ c.op = "addr" /\ BitLen(c.addr) = 128 /\ Multicast(c.addr)

\* ip link add: the name is free, the device below exists, and the tunnel is
\* not there yet.
AddLink(mc, c) ==
  IF Refused(c) THEN Fails(mc, "invalid")
  ELSE IF Device(mc, c.dev) # {} THEN Fails(mc, "name taken")
  ELSE IF c.parent # NoDev /\ Device(mc, c.parent) = {} THEN Fails(mc, "no device")
  ELSE IF \E l \in mc.links : SameTunnel(l, c) THEN Fails(mc, "tunnel exists")
  ELSE [mc EXCEPT !.links = mc.links \cup {c}, !.sockets = mc.sockets \cup Asks(c)]

\* ip addr add: not twice on one device.
AddAddress(mc, c) ==
  IF Refused(c) THEN Fails(mc, "invalid")
  ELSE IF Device(mc, c.dev) = {} THEN Fails(mc, "no device")
  ELSE IF \E a \in mc.addrs : SameAddress(a, c) THEN Fails(mc, "address exists")
  ELSE [mc EXCEPT !.addrs = mc.addrs \cup {c}]

\* wg set: only of a WireGuard device, which the tile has not brought up yet.
SetWireGuard(mc, c) ==
  IF \E l \in Device(mc, c.dev) : l.type = "wireguard"
  THEN [mc EXCEPT !.sockets = mc.sockets \cup Asks(c)]
  ELSE Fails(mc, "no device")

\* ip link set up: a VLAN stays down while the device below it is, and a device
\* whose port another one has does not come up.
BringDeviceUp(mc, c) ==
  IF Device(mc, c.dev) = {} THEN Fails(mc, "no device")
  ELSE IF \E l \in Device(mc, c.dev) : l.type = "vlan" /\ l.parent \notin mc.up
       THEN Fails(mc, "network is down")
  ELSE IF \E x, y \in mc.sockets : x.dev = c.dev /\ y.dev \in mc.up /\ Clash(x, y)
       THEN Fails(mc, "address in use")
  ELSE [mc EXCEPT !.up = mc.up \cup {c.dev}]

Exec(mc, c) ==
  CASE c.op = "link" -> AddLink(mc, c)
    [] c.op = "addr" -> AddAddress(mc, c)
    [] c.op = "wg"   -> SetWireGuard(mc, c)
    [] c.op = "up"   -> BringDeviceUp(mc, c)

\* RunScript: the first failing line ends it.
RunScript(mc, s) ==
  LET after[j \in 0..Len(s)] ==
        IF j = 0 THEN mc
        ELSE IF after[j - 1].error = "" THEN Exec(after[j - 1], s[j])
        ELSE after[j - 1]
  IN after[Len(s)]

============================================================================
