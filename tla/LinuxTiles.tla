----------------------------- MODULE LinuxTiles -----------------------------
(* The iproute2 tile set: the shape each tile recognises.  None has a guard *)
(* and all have priority 0.                                                 *)
EXTENDS Tile

LinuxTile(name, pattern) ==
  [name |-> name, pattern |-> pattern, priority |-> 0, guard |-> "nil",
   lower |-> TRUE]

\* Faulty: a GRE tile that leaves the inner layer to the next tile.
GREOfTwo == LinuxTile("GRE", <<"ipv4", "gre">>)

IPIP == LinuxTile("IPIP", <<"ipv4", "ipv4">>)
GRE == LinuxTile("GRE", <<"ipv4", "gre", "ipv4">>)
GRETAP == LinuxTile("GRETAP", <<"ipv4", "gre", "ethernet">>)
VXLAN == LinuxTile("VXLAN", <<"ipv4", "udp", "vxlan", "ethernet">>)
VLAN == LinuxTile("VLAN", <<"ethernet", "vlan">>)
WireGuard == LinuxTile("WireGuard", <<"ipv4", "udp", "wireguard", "ipv4">>)

Registry == <<IPIP, GRE, GRETAP, VXLAN, VLAN, WireGuard>>

============================================================================
