-------------------------------- MODULE Wire --------------------------------
(* Package wire: what a tree predicts of the underlay (Expect), and the     *)
(* comparison with captured text (Check).                                   *)
(*                                                                          *)
(* A fact is its label, its value and the substring it is looked for by.  A *)
(* substring is the format it is made by with its arguments, <<"> %s", a>>  *)
(* for "> " and an address.  Captured text is the set of the substrings of  *)
(* these formats that it contains.                                          *)
EXTENDS Linux

Fact(label, value, match) == [label |-> label, value |-> value, match |-> match]

NoPrediction      == [ok |-> FALSE]
Predicts(f, facts) == [ok |-> TRUE, filter |-> f, facts |-> facts]

\* A fact that is there only if the property reads as concrete.
When(reading, fact) == IF reading = "concrete" THEN {fact} ELSE {}

Encapsulation(word) == Fact("encapsulation", word, <<word>>)

\* What a tunnel header under UDP shows.  The content of WireGuard is opaque.
tunnelFacts(n) ==
  CASE n.name = "vxlan" ->
         {Encapsulation("VXLAN")} \cup
         When(VNI(n), Fact("VXLAN VNI", n.props.vni.num, <<"vni %d", n.props.vni.num>>))
    [] n.name = "geneve"    -> {Encapsulation("Geneve")}
    [] n.name = "wireguard" -> {Encapsulation("UDP")}
    [] OTHER                -> {}

SourceFact(outer) ==
  When(Src(outer), Fact("outer source", outer.props.src.addr, <<"%s.", outer.props.src.addr>>))

DestinationFact(outer, match) ==
  When(Dst(outer), Fact("outer destination", outer.props.dst.addr, match))

\* Faulty: the port is read from the wrong end.
ExpectUDPSource(outer, transport, under) ==
  IF SrcPort(transport) # "concrete" THEN NoPrediction
  ELSE LET port == transport.props.src_port.num
       IN Predicts(<<"udp port", port>>,
            {Fact("UDP destination port", port, <<"%d", port>>)} \cup SourceFact(outer)
              \cup DestinationFact(outer, <<"> %s.%d", outer.props.dst.addr, port>>)
              \cup UNION {tunnelFacts(n) : n \in under})

\* Under UDP the destination port must be known; `under' holds the layer
\* below, if there is one.
ExpectUDP(outer, transport, under) ==
  IF \/ DstPort(transport) # "concrete"
     \/ \E n \in under : n.name = "vxlan" /\ VNI(n) = "error"
  THEN NoPrediction
  ELSE LET port == transport.props.dst_port.num
       IN Predicts(<<"udp port", port>>,
            {Fact("UDP destination port", port, <<"%d", port>>)} \cup SourceFact(outer)
              \cup DestinationFact(outer, <<"> %s.%d", outer.props.dst.addr, port>>)
              \cup UNION {tunnelFacts(n) : n \in under})

\* GRE and IP-in-IP: a protocol and no port.
ExpectProtocol(outer, filter, word) ==
  Predicts(filter, {Encapsulation(word)} \cup SourceFact(outer)
                     \cup DestinationFact(outer, <<"> %s", outer.props.dst.addr>>))

\* The outer header must be IP, and the layer under it decides the shape.
Expect(layers) ==
  LET outer == layers[1]
      next  == IF Len(layers) < 2 THEN "" ELSE layers[2].name
      under == {layers[j] : j \in {l \in 1..Len(layers) : l = 3}}
  IN IF \/ layers = << >>
        \/ outer.name \notin {"ipv4", "ipv6"}
        \/ "error" \in {Src(outer), Dst(outer)}
     THEN NoPrediction
     ELSE CASE next = ""     -> Predicts(<<"ip">>, SourceFact(outer))
            [] next = "udp"  -> ExpectUDP(outer, layers[2], under)
            [] next = "gre"  -> ExpectProtocol(outer, <<"proto gre">>, "GREv0")
            [] next = "ipv4" -> ExpectProtocol(outer, <<"proto 4">>, "IP")
            [] OTHER         -> NoPrediction

\* The facts whose substring the captured text does not contain.
Check(facts, captured) == {f \in facts : f.match \notin captured}

============================================================================
