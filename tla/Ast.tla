-------------------------------- MODULE Ast --------------------------------
(* Package ast's reading of properties: a layer is a record with a protocol *)
(* name and `props', a function from the keys written on it to raw values   *)
(* (the hyphen of a key becomes an underscore: dst_port is :dst-port).      *)
(*                                                                          *)
(* A raw value is told apart by what the parsers make of it: '*', a number, *)
(* a number past 32 bits, a bare address, an address/length, or other text. *)
EXTENDS Naturals

Star         == [kind |-> "star"]
Num(n)       == [kind |-> "num", num |-> n]
BigNum       == [kind |-> "bignum"]
Addr(a)      == [kind |-> "addr", addr |-> a]
Prefix(a, b) == [kind |-> "prefix", addr |-> a, bits |-> b]
Text(t)      == [kind |-> "text", text |-> t]

Layer(name, props) == [name |-> name, props |-> props]

\* Properties, and options, by their keys: none, one, and those of f with what g
\* has besides.
NoProps      == [k \in {} |-> Star]
Only(key, v) == [k \in {key} |-> v]
f ++ g       == [k \in DOMAIN f \cup DOMAIN g |-> IF k \in DOMAIN f THEN f[k] ELSE g[k]]

\* A raw value is of one of these kinds; an address/length has its two parts, and
\* nothing else, and a length is a number.
IsRaw(v) ==
  /\ v.kind \in {"star", "num", "bignum", "addr", "prefix", "text"}
  /\ v.kind = "prefix" => v = Prefix(v.addr, v.bits) /\ v.bits \in Nat

\* A layer has a name and properties, and nothing else.
IsLayer(n) ==
  /\ n = Layer(n.name, n.props)
  /\ n.props = [k \in DOMAIN n.props |-> n.props[k]]

----------------------------------------------------------------------------
Lookup(n, key) == key \in DOMAIN n.props

\* Does the raw value v parse as the type a PropDef asks for?
ParseAddr(v)   == v.kind = "addr"
ParsePrefix(v) == v.kind = "prefix"
ParseText(v)   == v.kind \in {"addr", "prefix", "text"}
parseU16(v)    == v.kind = "num" /\ v.num < 65536
parseU32(v)    == v.kind = "num"
parseVLANID(v) == parseU16(v) /\ v.num # 0 /\ v.num <= 4094
parseVNI(v)    == parseU32(v) /\ v.num <= 16777215

Parses(type, v) ==
  CASE type = "addr"   -> ParseAddr(v)
    [] type = "prefix" -> ParsePrefix(v)
    [] type = "text"   -> ParseText(v)
    [] type = "u16"    -> parseU16(v)
    [] type = "u32"    -> parseU32(v)
    [] type = "vlanid" -> parseVLANID(v)
    [] type = "vni"    -> parseVNI(v)

\* Get reads a property in one of three states, or fails: a value that is
\* there and does not parse is an error, never an absent property.
Get(n, key, type) ==
  CASE ~Lookup(n, key)                              -> "absent"
    [] Lookup(n, key) /\ n.props[key] = Star        -> "dynamic"
    [] Lookup(n, key) /\ n.props[key] # Star        ->
         IF Parses(type, n.props[key]) THEN "concrete" ELSE "error"

\* The property vocabulary: one reading a PropDef.
Src(n)       == Get(n, "src", "addr")
Dst(n)       == Get(n, "dst", "addr")
SrcPrefix(n) == Get(n, "src", "prefix")
SrcPort(n)   == Get(n, "src_port", "u16")
DstPort(n)   == Get(n, "dst_port", "u16")
VNI(n)       == Get(n, "vni", "vni")
Key(n)       == Get(n, "key", "u32")
VLANID(n)    == Get(n, "id", "vlanid")
Peer(n)      == Get(n, "peer", "text")

============================================================================
