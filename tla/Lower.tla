------------------------------- MODULE Lower -------------------------------
(* `pktc lower': a file of rules, lowered one after the other against one   *)
(* Env.  This module composes Env (the names and the device chain), Tile    *)
(* (instruction selection) and Linux (the tiles).                           *)
(*                                                                          *)
(* A rule is its spine together with what may be wrong with its form:       *)
(* `build' when ast.Build refuses it, `form' when spine.FromForm does (a    *)
(* head other than configure, properties on it, not exactly one packet, or  *)
(* a layer with two children), `none' otherwise.                            *)
EXTENDS Env, Linux

CONSTANT Files   \* the files to lower: sequences of rules

\* The elements of s are at 1..Len(s) and nowhere else.
IsSeq(s) == s \in Seq({s[j] : j \in 1..Len(s)})

ASSUME LowerAssumption ==
  /\ MaxCount # 0
  /\ {"ipip", "gre", "gretap", "vxlan", "wg"} \subseteq NamePrefixes
  /\ \A f \in Files : IsSeq(f) /\ \A r \in 1..Len(f) : IsSeq(f[r].layers)

ASSUME RawAssumption ==
  \A f \in Files : \A r \in 1..Len(f) : \A j \in 1..Len(f[r].layers) :
    \A key \in DOMAIN f[r].layers[j].props : IsRaw(f[r].layers[j].props[key])

VARIABLES
  file,     \* the rules
  rule,     \* the rule being lowered
  phase,    \* where the program is
  at,       \* Cover's i: layers of the rule covered so far
  base,     \* Cover's `created': devices made by the rules before
  script,   \* Result.Script so far
  applied,  \* Result.Applied so far
  out       \* what has been printed: a record for each rule

vars == <<dev, created, used, count, file, rule, phase, at, base, script,
          applied, out>>

----------------------------------------------------------------------------
Init ==
  /\ EnvInit
  /\ file \in Files
  /\ rule = 1
  /\ phase = "read"
  /\ at = 0
  /\ base = 0
  /\ script = << >>
  /\ applied = << >>
  /\ out = << >>

\* return err: main reports it and exits.  What was printed stays printed.
Abort ==
  /\ phase' = "failed"
  /\ UNCHANGED <<file, rule, at, base, script, applied, out>>

\* readTrees: every form of the file is built before any is lowered.
ReadTrees ==
  /\ phase = "read"
  /\ IF file = << >> \/ \E r \in 1..Len(file) : file[r].defect = "build"
     THEN Abort
     ELSE /\ phase' = "rule"
          /\ UNCHANGED <<file, rule, at, base, script, applied, out>>
  /\ UNCHANGED envVars

\* Faulty: Cover takes every device of the file for its own.
StartRuleFromZero ==
  /\ phase = "rule"
  /\ rule <= Len(file)
  /\ Reset
  /\ IF file[rule].defect # "none" \/ ~Accepted(Registry) THEN Abort
     ELSE /\ phase' = "cover"
          /\ at' = 0
          /\ base' = 0
          /\ script' = << >>
          /\ applied' = << >>
          /\ UNCHANGED <<file, rule, out>>

\* render: Reset, FromForm, linux.Registry, and the start of Cover.
StartRule ==
  /\ phase = "rule"
  /\ rule <= Len(file)
  /\ Reset
  /\ IF file[rule].defect # "none" \/ ~Accepted(Registry) THEN Abort
     ELSE /\ phase' = "cover"
          /\ at' = 0
          /\ base' = Len(created)
          /\ script' = << >>
          /\ applied' = << >>
          /\ UNCHANGED <<file, rule, out>>

sp == file[rule].layers

\* What matchAt returns, and what best makes of it: the tile that replaces
\* every other one.  That Cover's loops pick this tile, and that there is one,
\* is the subject of Cover and Tiling.
Candidates == {t \in TilesOf(Registry) : at < Len(sp) /\ Matches(t, sp, at)}

Picks ==
  IF phase # "cover" THEN {}
  ELSE {t \in Candidates : \A u \in Candidates \ {t} : Replaces(t, u)}

\* env's answer to the tile: the name claimed, or the next one of the prefix.
Answer(ask) ==
  IF ask.op = "claim" THEN ask.name ELSE Name(ask.prefix, FirstStop(ask.prefix))

Named(ask) ==
  \/ ask.op = "claim" /\ Claim(ask.name)
  \/ ask.op = "alloc" /\ Alloc(ask.prefix, FirstStop(ask.prefix))

NotNamed(ask) ==
  \/ ask.op = "claim" /\ ~Free(ask.name) /\ UNCHANGED <<used, count>>
  \/ ask.op = "alloc" /\ AllocFails(ask.prefix, FirstStop(ask.prefix))

\* One turn of Cover's loop: the best tile's Lower, to its return or to the
\* first of its error returns.
LowerTile(t) ==
  /\ phase = "cover"
  /\ LET sub == Slice(sp, at, at + Len(t.pattern))
         ask == Naming(t, sub, dev)
     IN \/ ~Ready(t, sub) /\ Abort /\ UNCHANGED envVars
        \/ Ready(t, sub) /\ NotNamed(ask) /\ Abort /\ UNCHANGED <<dev, created>>
        \/ /\ Ready(t, sub)
           /\ Named(ask)
           /\ IF ~ReadyToEnter(t, sub)
              THEN Abort /\ UNCHANGED <<dev, created>>
              ELSE /\ Enter(Answer(ask))
                   /\ IF ~ReadyToReturn(t, sub) THEN Abort
                      ELSE /\ script' = script \o Commands(t, sub, Answer(ask), dev)
                           /\ applied' = Append(applied, t)
                           /\ at' = at + Len(t.pattern)
                           /\ UNCHANGED <<file, rule, phase, base, out>>

\* Nothing matches, and nothing did: no lowering exists.
NoLowering ==
  /\ phase = "cover"
  /\ Candidates = {}
  /\ at = 0
  /\ Abort
  /\ UNCHANGED envVars

\* The address command for the first layer left over, and what brings up the
\* devices the rule made, outermost first.
LeftoverAddress(rest) == IF rest = << >> THEN << >> ELSE addrOn(rest[1], dev)

\* Faulty: innermost first.
BringUpReversed ==
  [j \in 1..(Len(created) - base) |-> SetUp(created[Len(created) + 1 - j])]

BringUp == [j \in 1..(Len(created) - base) |-> SetUp(created[base + j])]

\* Faulty: a layer that became an address is still reported as traffic.
FinishRuleKeepsRest ==
  /\ phase = "cover"
  /\ Candidates = {}
  /\ at > 0
  /\ LET rest == Slice(sp, at, Len(sp))
     IN IF rest # << >> /\ AddressOfFails(rest[1])
        THEN Abort
        ELSE /\ out' = Append(out,
                   [script  |-> script \o LeftoverAddress(rest) \o BringUp,
                    applied |-> applied,
                    payload |-> rest])
             /\ rule' = rule + 1
             /\ phase' = "rule"
             /\ UNCHANGED <<file, at, base, script, applied>>
  /\ UNCHANGED envVars

\* Faulty: where nothing matches the loop goes on instead of breaking off.
FinishRuleOnlyAtEnd ==
  /\ phase = "cover"
  /\ at >= Len(sp)
  /\ at > 0
  /\ out' = Append(out, [script  |-> script \o BringUp,
                         applied |-> applied,
                         payload |-> << >>])
  /\ rule' = rule + 1
  /\ phase' = "rule"
  /\ UNCHANGED <<file, at, base, script, applied>>
  /\ UNCHANGED envVars

\* The end of Cover: the first layer left over may be an address for the
\* innermost device, every device of the rule is brought up, outermost first;
\* then render prints the rule.
FinishRule ==
  /\ phase = "cover"
  /\ Candidates = {}
  /\ at > 0
  /\ LET rest == Slice(sp, at, Len(sp))
         addr == LeftoverAddress(rest)
     IN IF rest # << >> /\ AddressOfFails(rest[1])
        THEN Abort
        ELSE /\ out' = Append(out,
                   [script  |-> script \o addr \o BringUp,
                    applied |-> applied,
                    payload |-> IF addr = << >> THEN rest ELSE Tail(rest)])
             /\ rule' = rule + 1
             /\ phase' = "rule"
             /\ UNCHANGED <<file, at, base, script, applied>>
  /\ UNCHANGED envVars

EndOfFile ==
  /\ phase = "rule"
  /\ rule > Len(file)
  /\ phase' = "done"
  /\ UNCHANGED <<file, rule, at, base, script, applied, out>>
  /\ UNCHANGED envVars

Ended == phase \in {"done", "failed"}

Terminated == Ended /\ UNCHANGED vars

Next ==
  \/ ReadTrees \/ StartRule \/ (\E t \in Picks : LowerTile(t)) \/ NoLowering
  \/ FinishRule \/ EndOfFile \/ Terminated

\* The program has one thread and runs until it exits.
Spec == Init /\ [][Next]_vars /\ WF_vars(Next)

----------------------------------------------------------------------------
TypeOK ==
  /\ dev \in used
  /\ \A j \in 1..Len(created) : created[j] \in used
  /\ count \in [NamePrefixes -> 0..MaxCount]
  /\ rule \in 1..(Len(file) + 1)
  /\ phase \in {"read", "rule", "cover", "done", "failed"}
  /\ phase = "cover" => at \in 0..Len(sp)
  /\ base \in 0..Len(created)
  /\ Len(out) = rule - 1

\* Everything printed so far.
Printed == FlattenSeq([r \in 1..Len(out) |-> out[r].script])

\* The rules that have commands: the printed ones, and the one in hand.
Rules     == 1..(IF phase = "cover" THEN Len(out) + 1 ELSE Len(out))
Script(r) == IF r <= Len(out) THEN out[r].script ELSE script

Links(s) == {j \in 1..Len(s) : s[j].op = "link"}
Ups(s)   == {j \in 1..Len(s) : s[j].op = "up"}

\* The links before command j of a script, and the devices there are by then.
Before(s, j) == {l \in Links(s) : l < j}
Made(s, j)   == {Root} \cup {s[l].dev : l \in Before(s, j)}

\* cmd/pktc/main.go:247 "a device name claimed by one is unavailable to the
\* next": over all the rules of a file no two links make one device, and none
\* takes the physical device's name.
NamesUnique ==
  \A r \in Rules : \A j \in Links(Script(r)) :
    /\ Script(r)[j].dev # Root
    /\ \A q \in Rules : \A l \in Links(Script(q)) :
         Script(q)[l].dev = Script(r)[j].dev => q = r /\ l = j

\* A command only ever touches the physical device or one that an earlier
\* command of its own rule made: read from top to bottom, the printed script
\* can run.
BuiltBeforeUsed ==
  \A r \in Rules :
    LET s == Script(r)
    IN \A j \in 1..Len(s) :
         IF s[j].op = "link" THEN s[j].parent \in Made(s, j) \cup {NoDev}
                             ELSE s[j].dev \in Made(s, j)

\* A script ends by bringing up the devices it made, each once, in the order it
\* made them, and no other device.
BroughtUp(s) ==
  /\ \A j \in Ups(s) : \A l \in j..Len(s) : l \in Ups(s)
  /\ \A l \in Links(s) : \E j \in Ups(s) : s[j].dev = s[l].dev
  /\ \A j \in Ups(s) : \E l \in Links(s) : s[l].dev = s[j].dev
  /\ \A j, k \in Ups(s) : \A l, m \in Links(s) :
       s[j].dev = s[l].dev /\ s[k].dev = s[m].dev => (j < k <=> l < m)

\* tile/cover.go:65 "Every device in the chain has to come up, outermost
\* first": that is how every printed rule ends.
BroughtUpOnce == \A r \in 1..Len(out) : BroughtUp(out[r].script)

\* The device that stands when command j of a script runs: the one the script
\* made last, or the physical one.
StandsAt(s, j, d) ==
  \/ Before(s, j) = {} /\ d = Root
  \/ \E l \in Before(s, j) : s[l].dev = d /\ \A m \in Before(s, j) : m <= l

\* env/env.go:83 "Rules in one file ... share a namespace of interface names
\* but each starts from the underlay": in every rule, a link that names a
\* device below it names the one the rule made just before, the rule's first
\* link the physical device; and an address goes on the device just made.
ChainOnUnderlay ==
  \A r \in Rules :
    LET s == Script(r)
    IN \A j \in 1..Len(s) :
         /\ s[j].op = "link" => s[j].parent = NoDev \/ StandsAt(s, j, s[j].parent)
         /\ s[j].op = "addr" => StandsAt(s, j, s[j].dev)

\* The protocols the tiles of a rule stand for, one tile after the other.
Patterns(tiles) == FlattenSeq([j \in 1..Len(tiles) |-> tiles[j].pattern])

\* The layers of a printed rule that are configuration: what no tile claimed
\* and carries no address is payload.
Configured(r) ==
  SubSeq(file[r].layers, 1, Len(file[r].layers) - Len(out[r].payload))

\* The addresses written on a sequence of layers.
WrittenOn(n) == IF CarriesAddress(n) THEN <<n.props.src>> ELSE << >>
AddressesOf(layers) == FlattenSeq([j \in 1..Len(layers) |-> WrittenOn(layers[j])])

\* The addresses a script places, in order.
PlacedByOne(c) == IF c.op = "addr" THEN <<Prefix(c.addr, c.bits)>> ELSE << >>
PlacedBy(s) == FlattenSeq([j \in 1..Len(s) |-> PlacedByOne(s[j])])

\* Every layer of a printed rule is accounted for once: the tiles' patterns, one
\* after the other, and at most one address make up its configuration, the rest
\* is its payload; the addresses written on the configuration are placed, each
\* once and in their order.  (WireGuard reads no :src of its outer layer: its
\* rules may place fewer.)
LayersAccounted ==
  \A r \in 1..Len(out) :
    LET conf  == Configured(r)
        shape == Patterns(out[r].applied)
    IN /\ Len(conf) - Len(shape) \in {0, 1}
       /\ \A j \in 1..Len(shape) : conf[j].name = shape[j]
       /\ conf \o out[r].payload = file[r].layers
       /\ ~Contains(out[r].applied, WireGuard) =>
            PlacedBy(out[r].script) = AddressesOf(conf)

\* pktc ends on every file.
Terminates == <>Ended

----------------------------------------------------------------------------
\* A statement of the documentation that the code does not keep.

\* README.md:99 "Nested tunnels need no special case.  A tunnel inside a tunnel
\* is two tiles covering one spine": what is reported as traffic holds no
\* tunnel header that a tile exists for.
NestedTunnelsCovered ==
  \A r \in 1..Len(out) : \A j \in 1..Len(out[r].payload) :
    out[r].payload[j].name \notin {"gre", "vxlan", "wireguard"}

============================================================================
