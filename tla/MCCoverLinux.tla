---------------------------- MODULE MCCoverLinux ----------------------------
(* Cover with the iproute2 tiles, over every stack of at most five layers   *)
(* of the protocols they know.                                              *)
EXTENDS Cover, LinuxTiles

MCRegistries == {Registry}

NilGuard(t, sub) == t.guard = "nil"

Protocols == {"ipv4", "udp", "gre", "ethernet", "vlan", "vxlan", "wireguard"}
MCLayers  == {[name |-> p] : p \in Protocols}
MCSpines  == UNION {[1..m -> MCLayers] : m \in 1..5}

============================================================================
