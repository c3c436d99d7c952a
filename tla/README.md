# A verification project for pktc

pktc compiles a description of a packet, a stack of protocol headers written as
S-expressions, into the commands that configure the Linux device that produces
such packets. This directory models the compiler in TLA+, checks the model with
TLC on small instances, and proves with TLAPS, for every value of the
constants, what naming, instruction selection and its explanation, lowering, the
prediction of the wire, mirroring and the kernel tests' clean-up promise.

## 1. The system

| part | state | operations | met by |
|---|---|---|---|
| `sexp` reader | text, position | `Read` | `cmd/pktc` |
| `ast` | immutable nodes | `Build`, `Lookup`, `Get` with a `PropDef` | tiles, mirror, wire |
| `spine` | a list of layers | `FromForm`, `Extract`, `Slice` | `tile`, `wire` |
| `env` | `Dev`, `Created`, `used`, `count` | `New`, `Claim`, `Alloc`, `Enter`, `Reset` | tiles, `Cover`, `render` |
| `tile` | a registry of tiles | `NewRegistry`, `matchAt`, `best`, `Cover`, `Explain` | `render`, `cmdExplain` |
| `tiles/linux` | none; writes `env` | six `Lower` functions | `Cover` |
| `mirror` | a copied tree | `Peer` | `cmdMirror` |
| `wire` | none | `Expect`, `Check` | `cmdExpect`, the wire tests |
| `command` | none | quoting, layout | `render` |
| `cmd/pktc` | one `Env` for a file; stdout | `lower`, `mirror`, `parse`, `explain`, `expect` | user |
| `internal/nettest` | namespaces, a veth pair, a capture process, cleanups | `New`, `NewPair`, `RequireType`, `RunScript`, `StartCapture`, `SendUDP`, `Wait` | kernel tests |

**How they interact.** `render` resets the `Env`, takes a rule's spine and calls
`Cover`. `Cover` asks the registry for the tiles that match at its place, takes
the longest, and calls its `Lower`, which reads the layers, takes a name from
`env`, builds its link on `env.Dev` and enters the new device, on which the next
tile then builds. So the tiles of one rule communicate through `Dev` and
`Created`, and the rules of a file through `used` and `count`. `mirror` does this
twice, with a turned-around tree and a new `Env` the second time. `explain` and
`expect` read the same spine again, without `env`: the first repeats `Cover`'s
choice, the second says what the outermost device should put on the wire. The
kernel tests run both printed ends in two namespaces and hold a capture of the
underlay against that prediction.

**What is hard.** The compiler has one thread and stores nothing; only the test
support is concurrent. What is hard to test is

* state that outlives a call: counters and names that two mechanisms (`Claim`
  and `Alloc`) take from one namespace, `Created` spanning rules, `Dev` read
  between naming and entering;
* loops without a bound of their own (`Alloc`, `Cover`) that end for reasons
  found elsewhere (names get too long; `NewRegistry` refuses empty patterns);
* a choice (`best`) that must not depend on the order of registration;
* a script that must be runnable from top to bottom, assembled from several
  tiles, an address decided in three places, and a bring-up at the end;
* errors after part of the work is done: a name taken, a device entered, a rule
  already printed;
* a mirror that must turn some fields around, keep others and give up some;
* several readings of one spine (`Cover`, `Explain`, `Expect`, `Peer`) that are
  written separately and must agree;
* a reader whose positions every message stands on, and the end of the text in
  the middle of anything;
* a test that may stop anywhere with devices, namespaces and a tcpdump around,
  and a capture raced by a timeout.

`PROJECT.json` lists these as hazards, at their lines.

**What makes each part correct.** env: no name twice, the smallest free number,
every call returns. tile: a cut of the spine without gap or overlap, by the one
best tile at each place. lower: a script that runs, builds each rule on the
underlay, brings up each device once and accounts for every layer. mirror: two
ends that point at each other, and nothing invented. explain: the account of
what `Cover` does. wire: what the script makes the kernel send. Front end: all
that is written is compiled, or refused at the right place. nettest: a capture is
read whole, a test ends and leaves nothing.

## 2. The modules

| module | models | kind |
|---|---|---|
| `Names` | interface names, `Sprintf`, `validName` | operators |
| `Env` | package env, one step per call | component |
| `EnvCalls` | package env as called: `Alloc`'s loop one turn a step | component |
| `Namespace` | what env promises: no counter, no loop | abstract |
| `EnvProofs` | theorems about `EnvCalls` | proofs |
| `Tile` | tiles, matching, `best`, what `NewRegistry` accepts | operators |
| `Cover` | `NewRegistry`, and `Cover`'s three loops one turn a step | component |
| `Tiling` | what `Cover` promises, of a *set* of tiles | abstract |
| `CoverProofs` | theorems about `Cover` | proofs |
| `Explain` | `Registry.Explain`: `bid`, `why` and the walk | operators |
| `Explained` | `Cover` and `Explain` on one registry and spine | composition |
| `ExplainProofs` | theorems about `Explained` | proofs |
| `LinuxTiles` | the six patterns | data |
| `Ast` | properties in their three states, and the parsers' ranges | operators |
| `Linux` | the six `Lower` functions: checks, naming, commands | operators |
| `Lower` | `pktc lower`: `Env` + `Tile` + `Linux` over a file of rules | composition |
| `LowerProofs` | theorems about `Lower`: scripts and devices | proofs |
| `AccountProofs` | theorem about `Lower`: what becomes of each layer | proofs |
| `Wire` | `wire.Expect` and `Check` | operators |
| `Machine` | `RunScript`, and what `ip`, `wg` and the kernel's sockets do (external) | operators |
| `Readings` | `Lower`, `Wire` and `Machine` on one file | composition |
| `ReadingsProofs` | theorems about `Readings`: scripts run, predictions hold | proofs |
| `Mirror` | `pktc mirror`: `Lower` for each end, `mirror.Peer` between | composition |
| `MirrorProofs` | theorems about `Mirror` | proofs |
| `Reader` | package sexp, one character a step | component |
| `Forms` | `ast.Build`, `spine.Extract`, `spine.FromForm` | operators |
| `Command` | quoting, a peer's argv, and the shell's reading (external) | operators |
| `FrontEnd` | `readTrees`, `readTree`, `readSpine`: `Reader` + `Forms` + `Command` | composition |
| `Netns` | package nettest with tcpdump, os/exec and the kernel | component |
| `NetnsProofs` | theorems about `Netns` | proofs |
| `MC*` | instances for TLC | |

**Data.** A name is kept in parts (stem, number, VLAN tags, length): two names
are one string exactly if the parts agree, and `validName` needs only the length
and whether a stem holds an illegal character. A property value is told apart by
what the parsers make of it: `*`, a number (with its size), an address, an
address/length, other text. A command is a record of its operation, its device
and its arguments; a link also has the device it is built on, `NoDev` where the
command line has no `dev` and no `link`. Explanations, quoting and layout are
left out.

**State and actions.** Variables keep the meaning of the code's: `dev`,
`created`, `used` and `count` are `Env`'s fields, `at`/`i` is `Cover`'s `i`,
`base` its `created`, `script`, `applied` and `payload` are `Result`'s fields,
and `out` is stdout, one record for each printed rule. In `Lower`, one action is
one turn of `Cover`'s loop with the whole of the tile's `Lower` up to its return
or its first error return (before naming, while naming, between naming and
`Enter`, after `Enter`), each with the `env` changes made by then. `FinishRule`
is all of `Cover` after its loop, and the printing. That `Alloc` and the choice
of a tile may be taken in one step is not assumed: `EnvCalls` and `Cover` have
their loops, and the runs and theorems below show that they compute it. Where
they are taken in one step, `matchAt` is the *set* of tiles that match and `best`
the one of them that none replaces: `NewRegistry` refuses the registries in which
the order could matter, and `LoopsAreRight` proves that the loops agree.

In `Lower` a rule of a file is its spine, with what may be wrong with its form as
an input: `build` if `ast.Build` refuses it (then no rule of the file is lowered),
`form` if `spine.FromForm` does (then the rules before it have been printed).
`FrontEnd` computes both from a text. The two are not joined into one run: the
interesting files of `Lower` are hundreds of characters long, and what `Lower`
takes from the front end is exactly a list of layers or one of these two errors.

In `Reader` the mutual recursion of `readValue` and `readList` is the stack of
open lists; one action is what one character (or the end of the text) does, and
`i`, `line` and `col` are the reader's. A character is a string of its own, with
one for the blanks, one for all digits and one for the hexadecimal letters.
`Explain` and `Expect` only read, so they are operators, compared with the
actions' results where those are final. `Explain`'s loop is the recursive function
`Walk`: from each place on, the steps it records and where it stops.

In `Netns` the test's body is a list of steps, each with what it needs of the
machine and what its failure is to the test (`Skip` or `Fatalf`); at each of them
it may also fail for another reason. Which features a machine has is chosen in
`Init`. tcpdump, the goroutine of `Wait`, the copying of output and the kernel's
destruction of namespaces are actions of their own.

Definitions marked *Faulty* are what a plausible mistake would make of the
definition that follows them; each shows that a property can fail.

## 3. The runs

All specifications are checked for deadlock except `MCEnvCalls`, where callers
may stop asking. The others end in a state with a step that changes nothing.

| run | instance | states | shows |
|---|---|---|---|
| `env_calls` | names of 6 characters, prefixes `vxlan` (9 names) and `gretap` (none), VNIs 2, 9, 10, tags 1, 10 | 163 000 | `NamesDistinct`, `NoGaps`, `CallsReturn`, and that env implements `Namespace` and (its loop) `Env` |
| `cover` | all registries of up to 3 tiles out of 9, all spines of up to 3 layers | 154 000 | `Segmentation`, `TiesAreIdentical`, `LoopsComputeBest`, `ExplainAgreesWithCover`, `ReasonsHold`, `Terminates`, implements `Tiling` |
| `cover_linux` | the six tiles, all stacks of up to 5 of 7 protocols | 206 000 | `GreedyOptimal` |
| `lower` | 20 408 files | 105 000 | `NamesUnique`, `BuiltBeforeUsed`, `BroughtUpOnce`, `ChainOnUnderlay`, `LayersAccounted`, `PredictionHolds`, `ScriptRuns`, `Terminates` |
| `mirror` | 6 408 files with three values of `-peer-inner` | 113 000 | `EndsMeet`, `FarEndLowers`, `AddressesTurnAround`, `PredictionsTurnAround` |
| `netns` | one test, with one namespace or two, on all 128 kinds of machine; captures of 2 packets, 2 datagrams | 3 700 | `WholeCaptureRead`, `Guarded`, `Owned`, `CleanedUp`, `WaitEnds` |
| `front` | 11 468 texts, for commands that take one rule and for those that take all | 307 000 | `DiagnosisExact`, `TreeIsText`, `BuildExact`, `SpineIsText`, `KeyLookupIsOneArgument`, `Terminates` |

**The bounds and why they are enough.** `MaxIfName` is 6 in `env_calls`: the
counter can reach the last name that fits, claims fall before, at and after it
(VNIs 2, 9 and 10), one prefix has no legal name at all, and `MaxCreated`
exceeds the number of VXLAN names. `MaxTags` bounds stacked VLANs. In `cover`,
the catalogue has three patterns at two priorities, a guarded tile, an empty
pattern and a tile without `Lower`; three tiles are enough for a pick to be
replaced twice, and three layers for two tiles and a rest. In `lower`, `OneTile`
has every tile with each property absent, `*`, good, and bad in the ways its
parser tells apart; `Chains` has up to three tiles with six kinds of ending;
files of up to three rules out of 16 meet in one `Env`, which is enough for a
name to be taken by one, collide in the next and be missed by a third, and for two
devices to want one UDP port (two WireGuard rules, or VXLAN with a VNI and without,
on port 4789 or 8472). Addresses are of both families and unicast or multicast.
Names have
11 characters, so that `eth0.10.100` is the longest VLAN name that fits, and
deeper stacks and longer VNIs do not. `MaxCount` is a number with no legal name; in
`EnvCalls` no call for a prefix follows one that failed, since an error of `Alloc`
ends pktc. In `mirror` the endpoints of each tile take all kinds of values, of both
families, with an inner layer that has no, one or two ends. In `netns` two
datagrams against a capture of two packets are enough for none, some or all to be
seen, each copied before or after the timeout. In `front` the texts are all of up
to 4 characters out of the 8 that the structure of a text depends on; all atoms of
up to 3 characters out of the 7 that decide an atom's kind; all lists of up to 5
tokens (two lists' heads, a key, a number, a parenthesis), and of up to 4 inside a
rule, which is enough for a duplicate key, a list behind a key, a second child or
a second rule; and a rule with all strings of up to 4 characters out of both
quotes, backslash, `(`, a letter and `-`, or all atoms of up to 3 safe characters,
as the value of a property, in these texts the name of a peer.

**Fairness.** The program has one thread and never waits, so a call in progress
runs (`EnvCalls`: weak fairness of the steps of a call, none for the callers),
and `Cover`, `pktc` and its front end go on until they end (weak fairness of
`Next`). In `Netns` the test's goroutine, whose timer and whose sleeping shell
come back, the goroutine of `Wait`, the copying of output and the kernel each run
when they can; tcpdump ends when it has its packets or loses its device. That
tcpdump ever attaches is not assumed, nor that a datagram arrives.

### Statements the code does not keep

Five runs check what a comment, a test or a document says, on the smallest
instance where the code does otherwise. TLC's counterexample is the argument.

| run | statement | what happens |
|---|---|---|
| `nested_tunnels` | nested tunnels need no special case (`README.md:99`) | a tunnel inside GRE, IPIP or WireGuard is printed as traffic |
| `capture_of_gre` | the matching survives tcpdump's formatting (`wire_test.go:93`) | the outer source of GRE and IP-in-IP, printed without a port, is reported missing |
| `derived_address` | a peer address is derived where both host parts are written (`mirror.go:141`) | it is then dropped or overwritten as the innermost address |
| `lost_address` | Peer reports everything left over (`mirror.go:17`) | with `:src A/24 :dst *` the far end has no address and nothing is reported |
| `wireguard_ports` | the listen port is the port the peer sends to (`wireguard.go:53`) | the mirror does not exchange ports |

Others were met while modelling and have no run, since one step shows them:

* never a partial script (`docs/DESIGN.md:317`): the rules before a failing one are
  printed (`main.go:259`);
* the port of a VXLAN device is not worth guessing, and the kernel's 8472 the wrong
  one (`vxlan.go:49`): `:dst-port 0` is taken, and means 8472 to the kernel;
* a command substitution reaches the shell intact (`command.go:82`): with a double
  quote in a peer's name, the lookup of its key is quoted as a literal string;
* greedy longest match is optimal (`tile/tile.go:5`): not for the tiles a, a·a
  and a·b on a·a·b; `cover_linux` shows it for the tiles of today;
* VNI names are collision-free across rules (`vxlan.go:79`): a `*` rule takes
  `vxlan1`, the name of VNI 1;
* omitted is an error, no silent defaults (`docs/DESIGN.md:316`): WireGuard uses
  `:src-port` for an absent `:dst-port`;
* `StartCapture` returns once tcpdump is listening (`nettest.go:216`): it returns
  after 700 ms;
* Explain's note calls what no tile claimed traffic (`explain.go:90`), also where
  `Cover` makes it the address of the innermost device.

The properties of the passing runs say what does hold around them. Some have a
hypothesis, because without it the code does not keep them either:

* `ChainOnUnderlay` is about links that name a device: those of GRE, GRETAP, IPIP
  and WireGuard do not, so an inner tunnel of these kinds is tied to the outer
  one by routes alone.
* `LayersAccounted` leaves out the addresses of WireGuard rules: the tile never
  reads `:src` of its outer layer, so an address/length there is placed nowhere.
* `EndsMeet` asks that the innermost address stands on a layer with one end
  (`derived_address` is the other case). It says nothing of a multicast group,
  which the exchange makes the far end's local address.
* `AddressesTurnAround` has two parts with a hypothesis each. That no address of the
  far end is invented asks that an address on a layer with one end is the innermost
  one: any other is kept, and then configured at both ends. That fewer addresses are
  reported asks that opposite each address placed on a layer with two ends stands an
  address that its length fits: a `*` opposite (`:src A/24 :dst *`) becomes a `:src`
  that places nothing, and Peer says nothing of it (`lost_address`).
* `FarEndLowers` asks for addresses on the layers with two ends, each of which the
  other's length fits: a `*` or a text that the near end never reads becomes a `:src`
  that the far end does, and so does an IPv4 address with the length of an IPv6 one.
* `ScriptRuns` is about scripts in which no command is one that `ip` always refuses
  (`Refused`: GRE or IP-in-IP between IPv6 addresses, VXLAN from a group or between
  two families, an IPv6 group as a device's address) and no two are at odds
  (`AtOdds`). pktc does not compare the rules of a file: two with the same tunnel get
  two names, and the kernel refuses the second device; so it does an address given
  twice to one device, and a device whose UDP port another one listens on, which is
  two WireGuard devices with one `:src-port`, one WireGuard and one VXLAN device, or
  VXLAN with a VNI and without. The property says that nothing else stops a script.
  The machine has the key files and a route to every address.
* `PredictionHolds` compares what the outermost device writes into each packet with
  what the tree says of it: what `Expect` predicts and, `Unsaid`, the key of GRE and
  the port WireGuard listens on and sends from, which `Expect` does not speak of. A
  WireGuard device may carry less (`Excused`): the tile ignores the outer `:src`, and
  with no `:dst` there is no endpoint. VXLAN at port 0 is left out, since the
  device uses another port. The
  last part, that `Check` finds every fact in what tcpdump prints, is about VXLAN at
  port 4789, the only one at which tcpdump tells VXLAN from other datagrams; for GRE
  and IP-in-IP see `capture_of_gre`.
* `PredictionsTurnAround` asks for an outer layer with two ends.
* `Guarded` leaves out `New`'s own veth pair, made with `MustRun`, and a device
  kind whose probe fails for another reason than an unknown type.
* `SpineIsText` asks that no list stands as a property's value, where `Build`
  takes it for the value and not for a layer.
* `KeyLookupIsOneArgument` is about names made of the characters that `safe` lets
  pass bare. The lookup `$(cat KEYDIR/NAME.pub)` is quoted as a whole and the name in
  it is not (`wireguard.go:97`): a blank in it makes the shell look for two files,
  and a double quote turns the lookup into text.

## 4. What is proved

All theorems hold for every value of the constants under the named
assumptions, which TLC evaluates in every run: `NamesAssumption`,
`EnvAssumption` and `EnvCallsAssumption` (types; prefixes are stems; some number,
`MaxCount`, is too long for every prefix, which an interface-name limit always
gives), `CoverAssumption` (registries are sequences of tiles, spines are not
empty), `LowerAssumption` (a file is a list of rules, a rule a list of layers,
and the tiles' five prefixes are among the prefixes), `RawAssumption` (an
address/length is an address and a length, which is a number), `MirrorAssumption`
(a layer has a name and properties, and these and a `-peer-inner` are in one of the
states `Ast` tells apart) and `NetnsAssumption` (counts are numbers).

**`EnvProofs`.** The invariant `EnvInv` adds four things to what is claimed:
`GrantedTaken` (what was granted is in `used`, without which a fresh name could
equal an older device's), `LoopBelow` (an `Alloc` in progress is below
`MaxCount`, since a number past it would have been illegal before),
`OneAtATime`, and `LoopSkips` (between the counter when the call was made and
the counter now, every number was taken: what one atomic `Alloc` would skip).
From it: `EnvTypeOK`, `DeviceNamesDistinct`, `CountersLeaveNoGaps`, and two
refinements. `EnvImplementsNamespace`: the contract has no counter and asks for
the smallest legal free number; that the counter finds it rests on `NoGaps`, and
that `Alloc` is right to give up on `LegalBelow` (a number too long for a name is
followed by no shorter one, from `DigitsGrow`). `AllocIsAtomic`: reading the
counter as it was when the call was made, the loop is a single step of `Env`.
This is why `Lower` may use `Env`.

**`CoverProofs`.** `CoverInv` says how far each loop has come: `MatchSoFar` (the
candidates are exactly the matching tiles seen), `PickSoFar` (the pick beats the
candidates seen), `Loaded` (the registry was accepted) and `NoneYet`. Its core is
`SameLengthSamePattern`: two tiles of one length that match at one place have
one pattern, so `best`'s comparison of priorities is a comparison between
identical patterns, and in an accepted registry there is no tie (`NoTies`). From
it: `CoverTypeOK`, `CoverSegments`, `TiesOnlyBetweenIdentical` (the comment on
`Tile.Priority`), `CoverImplementsTiling` (the order of registration has no
effect), `ChoiceIsUnique`, and `LoopsAreRight`: the loops compute `matchAt` and
`best` as the other modules use them.

`GreedyIsOptimal` is about the comment in `tile.go` that greedy longest match is
optimal. It is not, for every registry (see above); it is where no pattern is the
beginning of a longer one (`PrefixFree`), a hypothesis of the theorem that
`GreedyIsOptimalForLinux` shows of the six tiles. `GreedyInv` adds `NotPassed` to
`CoverInv`: wherever a cut of the spine can end, that is behind Cover's `i` or can
still be reached from it. A step keeps it since all tiles that match at one place
of a prefix-free registry have one length (`OneLength`).

**`ExplainProofs`.** `bid` says that a tile matches exactly where `Matches` does,
and otherwise names the first layer that differs (`BidIsMatch`, `BidNamesFirst`);
`why` counts truly (`WhyHolds`): `ExplanationsAreTrue`. For `ExplainTellsCover`,
`ExplainInv` has `Told`: the steps of Explain's walk are those of the tiles Cover
has placed, then those of the walk from where Cover stands. It says of two loops
that they go on in the same way before either is known to end.

**`LowerProofs`.** `LowerInv` holds of every printed rule and of the rule in
hand at once. `DevicesTaken` (the devices that links make are in `used`) gives
`NamesUnique`, since a name is only granted if it is not in `used`; that needs
`AllocStops` (the loop of `Alloc` finds a number, by counting: it cannot have
passed more names than are taken) and, for the counters, `AllocBounded`.
`ScriptsSound` says of each command where the chain stands when it is reached;
`BuiltBeforeUsed` and `ChainOnUnderlay` are parts of it. `InHand` ties the script
to the `Env`: the chain stands at `dev`, and the devices that the script has made
are those `Enter` recorded since the rule began, in the same order. Without the
order, `BroughtUpOnce` (the bring-up goes through `Created[base:]`) would not
follow. The six `Lower` functions are taken apart once (what each returns is one
link on the device in hand, then commands on the new device); all the rest of the
proof is about scripts, whatever the tile. What a tile's commands are
(`CommandsOfTile`) and what `Expect` reads of a spine's first layers (`OuterIsIP`,
`BelowIsThird`, `ShapeOfPrediction`) are lemmas here, since the proofs about the
wire and about the mirror both need them.

**`AccountProofs`.** `LayersAccounted` compares a rule with its script, which no
step handles as a whole. `AccountInv` adds to `LowerInv`, for the rule in hand,
`CoveredBy`: the patterns of the tiles applied so far, one after the other, are
the names of the first `at` layers, and the script has placed the addresses
written on these layers, in their order, and no others. A tile keeps it because it
places what is written on the layers of its own pattern (`TilePlaces`, tile by
tile; WireGuard is excepted, as in the property), and both sides grow by
concatenation (`PatternsAppend`, and lemmas of the same kind for addresses and
commands, all from `FlattenConcat`). At the end of the rule `Cover` turns at most
one more layer into an address (`EndsWithoutAddress`, `EndsWithAddress`), and the
bring-up places none. The result is `EveryLayerAccounted`.

**`ReadingsProofs`.** `PrintedScriptRuns` is `ScriptRuns` for every file: the
printed script, run line by line on a fresh machine with the underlay, ends without
an error and with all it made up, unless two of its commands are at odds. The machine
is where its names come from, so the argument is about scripts again. `Runnable` says
of each command what `ip` and `wg` ask of the commands before it: the device a link is
built on was made before, its name was not, and a `wg` or an address is for a device
that is there. The rest of what can be refused (tunnels, addresses and sockets that
are there already) is a pair of commands at odds, or a `Refused` one. `After(s, j)` is
the machine after `j` commands, read off the script; `CommandRuns` shows that the next
command takes it to `After(s, j + 1)`, one kind of command at a time, and for the
sockets that a device comes up because nobody asked for its port (`Wanted`). `RunInv`
adds to `LowerInv` that all that is printed is `Runnable` (`RunnableConcat`: rules do
not disturb each other, since names are taken once), that each kind of link has the
commands it needs (`Kinds`), and that each printed rule brings its devices up.
`RunScript` is a recursive function; `RunIsTrace` shows that it ends in the last
machine of any trace that its commands allow.

`PredictionIsCarried` is `PredictionHolds` for every file: what the outermost device
writes on the underlay is what `Expect` read off the spine. The two are computed
from different things, a script that is complete only when the rule is and the rule
as it was written, so `PredictInv` holds the connection from the first tile on:
`Starts` says that the script begins with the link and the settings of the first
tile, as `Lower` makes them of the rule's first layers, and that nothing after them
sets anything on that device. A later tile keeps it because its device has a name
that was not taken (`DevicesTaken`), the bring-up because it sets no endpoint. When
the rule is printed, the fields its first device carries are compared with what the
tree says, in both directions and tile by tile (`PointToPointPredicted`,
`VXLANPredicted`, `WireGuardPredicted`). What carries a field (`CarriedFields`) and
what says it (`FieldsArePairs`) are both brought to sets of at most one value for each
field, so that the comparison is one of sets (`CarriedIsPredicted`).

**`MirrorProofs`.** `MirrorInv` adds to `LowerInv`, now of the end in hand, where
the near end stands (`NearEnd`) and that the tree in hand is the one read or what
Peer makes of it (`Trees`). So the theorems about scripts hold of both ends
(`BothEndsAreSound`). `PredictionsAreOfOneTunnel` needs what `HasTunnel` records:
an end is only printed if a tile matched, so there is a second layer, and Peer
touches of the outermost layers the addresses alone; the facts are then compared
tunnel by tunnel.

The other three properties compare two scripts, and when the far end is lowered the
near end is gone but for its tree and what it printed. `FollowInv` keeps a record of
it. `Walked(layers, h, e, n)` says that `h` and `e` are the places (Cover's `i`, the
device in hand, the names taken, the counters) and the scripts after each of `n`
tiles, each tile passed by its own checks and by the naming; `InSteps` that the rule
in hand is the end of such a record, and `Completed` that what was printed is one,
with the last address and the bring-up after it. The record depends on the tree
alone, because each end has an `Env` of its own. The far tree has the layers of the
near one, with the same names, VNIs and tags (`Opposite`, shown of what Peer makes),
so as long as both go on the same tile matches at the same place, it asks for the
same name and gets it (`SameTurn`), and the two records have the same places
(`SamePath`, by induction on the tiles). Three results follow.

* `FarEndIsPrinted` (`FarEndLowers`): where the near end passed, so does the far
  end, check by check: what a tile asks of a source, the near end may never have
  asked of the destination it comes from, hence the hypothesis about addresses. What
  Peer takes away and nobody supplies it has reported in `missing`.
* `PrintedEndsMeet` (`EndsMeet`): the links of a script are one for each tile of the
  record (`MadeBy`), so those at one place of the two scripts are compared tile by
  tile (`TurnsOver`). With the innermost address on a layer with one end, Peer has
  exchanged the ends of all the others (`Crossed`).
* `AddressesAreTurned` (`AddressesTurnAround`): each address a script places comes
  from a property of one of the layers (`FromLayers`), and `PeerAddresses` says what
  these can be in the far tree. For the report, `FarCarries` shows that with an
  address opposite each one and nothing missing of the innermost, the far tree carries
  an address on exactly the layers on which the near one does (`TurnedCarries`,
  `CarriesTurned`); then the two scripts have the same operations in the same order
  (`SameOps`), and as many addresses (`SamePlaced`).

**`NetnsProofs`.** `NetnsInv` has four parts: where namespaces and veth ends are
(`PlaceInv`; what the steps before `pc` made is there as long as the setup runs),
what is known of the capture in each phase (`CaptureInv`; the waiting goroutine is
done only when tcpdump has exited and all it saw is copied), what the probe found
(`ProbeInv`), and who removes what (`OwnedInv`). `CaptureIsWhole` holds for every
packet count and number of datagrams. `EverythingIsOwned` and `NoLeftovers` are
the state part of `CleanedUp`: when the last cleanup has run, no namespace has a
name, and when the kernel has let go of them no device is left.

**Recursive functions.** What `EndsFrom` and `Walk` compute is proved by least
counterexample: a set of numbers that is not empty has a smallest one
(`LeastNumber`, from the well-foundedness of `<`), applied to the distance to the
end of the spine. That they are defined by their equations is proved the same way
(`EndsDefined`, `WalkDefined`). What the library's `FlattenSeq` and what `RunScript`
compute is proved by induction on a set of numbers (`UpFromOne`).

**Only model-checked.** Liveness (`CallsReturn`, `Terminates`, `WaitEnds`, and
that `CleanedUp` comes about), which needs fairness. The front end
(`DiagnosisExact`, `TreeIsText`, `BuildExact`, `SpineIsText`,
`KeyLookupIsOneArgument`):
its trees, and the texts they are compared with, are defined by recursive operators
over data of any depth, about which the provers cannot reason by induction. Every
other invariant of the passing runs is proved.

## 5. What is not modelled, and the plan

Left out for good: layout (columns, comments, headings, `Explanation.String`,
`Expectation.String`, `Shell` and `Plain`), flags and usage, the wording of
messages, `joinHostPort`'s brackets (but for the quoting), and the property definitions that no tile
reads (`DstPrefix`, `Sequence`, `SPI`, `Protocol`, `Mode`, `Name`). The kernel, `ip`,
`wg`, tcpdump and the shell are modelled as far as the code depends on them: of a
command substitution, which words it is made of, and not what quotes or `)` inside
it do. The examples and the documents hold no
logic.

The plan of this project is carried out: every component is modelled, and every
safety invariant of the runs but those of the front end is a theorem. What could be
added is a reading of the front end that a proof can follow, with trees as functions
on sets of positions instead of nested sequences.
