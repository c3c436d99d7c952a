------------------------------ MODULE Readings ------------------------------
(* One description read three ways: Lower prints the commands, Wire         *)
(* predicts the underlay, and Machine runs what was printed.  The           *)
(* properties here compare them, rule by rule, for every file that `pktc    *)
(* lower' takes.  (The fourth reading, the turned-around one, is Mirror.)   *)
EXTENDS Lower, Wire, Machine

----------------------------------------------------------------------------
\* What goes out on the underlay once a rule's script runs (external: the
\* kernel).  The outer header is written by the rule's first device.
OuterLink(s) == s[CHOOSE j \in Links(s) : \A l \in Links(s) : j <= l]

\* What is set on that device by a wg command: the endpoint of its peer, the
\* port it listens on and sends from.
WgSettings(s, key) ==
  {s[j].opts[key] : j \in {l \in 1..Len(s) : s[l].op = "wg" /\ s[l].dev = OuterLink(s).dev
                                               /\ key \in DOMAIN s[l].opts}}
Endpoints(s) == WgSettings(s, "endpoint")

\* One of the values in V, if there is one.
AnyOf(name, V) == Opt(V # {}, name, CHOOSE v \in V : TRUE)

\* The fields of the outer headers that are the same in every packet.
Carried(s) ==
  LET l    == OuterLink(s)
      set(opts) == {l.opts[opt] : opt \in DOMAIN l.opts \cap opts}
      to   == set({"remote", "group"}) \cup {e[1] : e \in Endpoints(s)}
      port == (IF l.type = "vxlan" THEN {PortOf(l)} ELSE {}) \cup {e[2] : e \in Endpoints(s)}
      from == WgSettings(s, "listen_port") \ {0}
  IN Only("encapsulation", CASE l.type = "vxlan"             -> "VXLAN"
                             [] l.type = "wireguard"         -> "UDP"
                             [] l.type \in {"gre", "gretap"} -> "GREv0"
                             [] l.type = "ipip"              -> "IP")
       ++ AnyOf("outer source", set({"local"}))
       ++ AnyOf("outer destination", to)
       ++ AnyOf("UDP destination port", port)
       ++ AnyOf("UDP source port", from)
       ++ AnyOf("VXLAN VNI", set({"id"}))
       ++ AnyOf("GRE key", set({"key"}))

\* The port tcpdump knows VXLAN by (external).
KnownPort == 4789

\* The line tcpdump prints for such a packet (external): addresses are followed
\* by a port only where there is one, and VXLAN is told by its port alone.
\* "IP a.sport > b.dport: VXLAN, flags [I] (0x08), vni 100" is quoted in
\* wire_test.go; GRE and IP-in-IP print "IP a > b:" and then the inner packet,
\* whose addresses are the tunnel's own.
Shown(s) ==
  LET c    == Carried(s)
      of(label) == {c[k] : k \in DOMAIN c \cap {label}}
      dots == IF of("UDP destination port") # {} THEN of("outer source") ELSE {}
      own  == {a.addr : a \in ToSet(PlacedBy(s))}
      told == c["encapsulation"] # "VXLAN" \/ of("UDP destination port") = {KnownPort}
  IN {<<"IP">>, <<IF told THEN c["encapsulation"] ELSE "UDP">>}
       \cup {<<"%s.", a>> : a \in dots \cup own}
       \cup {<<"> %s", b>> : b \in of("outer destination")}
       \cup {<<"%d", p>> : p \in of("UDP destination port")}
       \cup {<<"vni %d", v>> : v \in IF told THEN of("VXLAN VNI") ELSE {}}
       \cup UNION {{<<"> %s.%d", b, p>> : b \in of("outer destination")} :
                     p \in of("UDP destination port")}

----------------------------------------------------------------------------
\* What a tree writes of the outer headers that Expect says nothing of: the key
\* of GRE, and the port a WireGuard device listens on and sends from.
Unsaid(layers) ==
  LET n == layers[2]
  IN CASE n.name = "gre" /\ Lookup(n, "key") /\ n.props.key # Star ->
            {<<"GRE key", n.props.key>>}
       [] n.name = "udp" /\ layers[3].name = "wireguard" /\ n.props.src_port.num # 0 ->
            {<<"UDP source port", n.props.src_port.num>>}
       [] OTHER -> {}

\* What a tree says of the outer headers, one way or the other.
Says(facts)  == {<<f.label, f.value>> : f \in facts}
Said(layers) == Says(Expect(layers).facts) \cup Unsaid(layers)

\* What is said of WireGuard and not carried: it reads no outer :src, and with no
\* :dst it has no endpoint to send to.
Excused(layers) ==
  {"outer source"} \cup (IF Dst(layers[1]) = "concrete" THEN {} ELSE {"UDP destination port"})

Predicted(layers, s) ==
  LET exp  == Expect(layers)
      c    == Carried(s)
      word == c["encapsulation"]
  IN exp.ok /\ (word = "VXLAN" => layers[2].props.dst_port.num # 0) =>
       /\ \A key \in DOMAIN c : <<key, c[key]>> \in Said(layers)
       /\ \A p \in Said(layers) :
            p[1] \in DOMAIN c \/ (word = "UDP" /\ p[1] \in Excused(layers))
       /\ word = "VXLAN" /\ c["UDP destination port"] = KnownPort =>
            Check(exp.facts, Shown(s)) = {}

\* wire.go:3-8 "This is the third reading of one description": where a printed
\* rule has a prediction, every field its outermost device writes is predicted,
\* or is one of the two that Expect does not speak of, and has the value of the
\* tree; every field predicted or written is one the device writes; and on a
\* capture of a VXLAN device at the port tcpdump knows Check finds every fact.
\* (The port of a VXLAN device made with :dst-port 0 is the kernel's own.)
PredictionHolds ==
  \A r \in 1..Len(out) : Predicted(file[r].layers, out[r].script)

\* What a script cannot run on: a command that `ip' always refuses, or two that
\* make one tunnel, place one address, or want one port.
AtOdds(c, d) ==
  \/ c.op = "addr" /\ d.op = "addr" /\ SameAddress(c, d)
  \/ c.op = "link" /\ d.op = "link" /\ SameTunnel(c, d)
  \/ \E x \in Asks(c), y \in Asks(d) : Clash(x, y)
AsksTooMuch(s) ==
  \E j \in 1..Len(s) : Refused(s[j]) \/ \E l \in 1..(j - 1) : AtOdds(s[l], s[j])

\* command.go:31 "Order matters: these are not commutative, and a tunnel cannot
\* be created before its underlay": everything printed for a file runs on a
\* fresh machine to its end, unless the file asks for what no machine has, one
\* tunnel, address or port twice or addresses of the wrong kind; then every
\* device made is up and has the addresses written on it.
ScriptRuns ==
  phase \in {"rule", "done"} =>
    LET s  == Printed
        mc == RunScript(Fresh(Root), s)
    IN ~AsksTooMuch(s) =>
         /\ mc.error = ""
         /\ mc.up = {l.dev : l \in mc.links}
         /\ Cardinality(mc.addrs) = Len(PlacedBy(s))

----------------------------------------------------------------------------
\* A statement of the tests that the code does not keep.

\* wire/wire_test.go:93 "The prediction is checked against real capture text,
\* so the matching has to survive tcpdump's actual formatting": on a capture of
\* the rule's own device Check finds every fact.
CheckPassesOnCapture ==
  \A r \in 1..Len(out) :
    LET exp == Expect(file[r].layers)
    IN exp.ok => Check(exp.facts, Shown(out[r].script)) = {}

============================================================================
