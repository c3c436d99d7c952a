------------------------------- MODULE Names -------------------------------
(* Interface names, as package env builds and validates them.              *)
(*                                                                          *)
(* A name is kept in parts rather than as characters: eth0 is the stem      *)
(* "eth" with the number 0, vxlan100 the stem "vxlan" with the number 100,  *)
(* and eth0.10.20 is eth0 with the VLAN tags <<10, 20>>.  A stem ends in no *)
(* digit and holds no dot, so two names are the same string exactly when    *)
(* they have the same parts.  `len' is the string's length, len(name).      *)
EXTENDS Naturals, Sequences, FiniteSets

CONSTANTS
  Stems,          \* the stems in use: the tiles' prefixes and the root's
  StemLen,        \* the number of characters of each stem
  IllegalStems,   \* the stems with a blank, a slash, a tab or a newline
  MaxIfName,      \* env.MaxIfName: 15 in the code, smaller in small models
  Tens            \* the powers of ten an int reaches: <<10, 100, ... >>

ASSUME NamesAssumption ==
  /\ StemLen \in [Stems -> Nat]
  /\ IllegalStems \subseteq Stems
  /\ MaxIfName \in Nat
  /\ Tens \in Seq(Nat)

----------------------------------------------------------------------------
\* The number of characters %d prints for n.
Digits(n) == 1 + Cardinality({k \in 1..Len(Tens) : n >= Tens[k]})

IfNames == [stem : Stems, num : Nat, tags : Seq(Nat), len : Nat]

\* fmt.Sprintf("%s%d", prefix, n)
Name(prefix, n) ==
  [stem |-> prefix, num |-> n, tags |-> << >>,
   len |-> StemLen[prefix] + Digits(n)]

\* fmt.Sprintf("%s.%d", parent, id)
Tagged(parent, id) ==
  [parent EXCEPT !.tags = Append(parent.tags, id),
                 !.len  = parent.len + 1 + Digits(id)]

validName(name) ==
  /\ name.len # 0
  /\ name.len <= MaxIfName
  /\ name.stem \notin IllegalStems

============================================================================
