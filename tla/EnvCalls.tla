------------------------------ MODULE EnvCalls ------------------------------
(* Package env as its callers meet it: a call is made, its statements run,  *)
(* and it returns.  Alloc's loop takes one step per iteration; a device     *)
(* name that was returned is entered before anything else is asked.         *)
EXTENDS Env

CONSTANTS
  VNIs,        \* the network identifiers claimed as vxlan<vni>
  VlanIDs,     \* the tags claimed as <dev>.<id>
  MaxTags,     \* bound: VLANs stacked on one device
  MaxCreated   \* bound: devices made

ASSUME EnvCallsAssumption ==
  /\ "vxlan" \in Stems
  /\ VNIs \subseteq Nat
  /\ VlanIDs \subseteq Nat
  /\ MaxTags \in Nat
  /\ MaxCreated \in Nat

VARIABLES
  call,      \* the call in progress, or NoCall
  answer,    \* what the last call returned, until it is acted on
  start      \* the counters when the call was made

vars == <<dev, created, used, count, call, answer, start>>

NoCall   == [op |-> "none"]
NoAnswer == [op |-> "none"]
Ok(name) == [op |-> "ok", name |-> name]
Refused  == [op |-> "refused"]

----------------------------------------------------------------------------
Init ==
  /\ EnvInit
  /\ call = NoCall
  /\ answer = NoAnswer
  /\ start = count

\* The names the tiles claim: vxlan<vni>, and a VLAN of the current device.
ClaimNames(d) ==
  {Name("vxlan", vni) : vni \in VNIs} \cup
  {Tagged(d, id) : id \in IF Len(d.tags) < MaxTags THEN VlanIDs ELSE {}}

\* A tile asks.  A name it was given before has been entered by then.
MayAsk ==
  /\ call = NoCall
  /\ answer.op # "ok"
  /\ Len(created) < MaxCreated

CallClaim(name) ==
  /\ MayAsk
  /\ call' = [op |-> "claim", name |-> name]
  /\ answer' = NoAnswer
  /\ start' = count
  /\ UNCHANGED envVars

\* The guard on count keeps it within MaxCount: no call for a prefix follows one
\* that failed.  The program has no such guard, and needs none to stop there: an
\* error of Alloc ends pktc.
CallAlloc(p) ==
  /\ MayAsk
  /\ count[p] < MaxCount
  /\ call' = [op |-> "alloc", prefix |-> p]
  /\ answer' = NoAnswer
  /\ start' = count
  /\ UNCHANGED envVars

ReturnClaim ==
  /\ call.op = "claim"
  /\ \/ Claim(call.name) /\ answer' = Ok(call.name)
     \/ /\ ~Free(call.name)
        /\ answer' = Refused
        /\ UNCHANGED <<used, count>>
  /\ call' = NoCall
  /\ UNCHANGED <<dev, created, start>>

Return(result) ==
  /\ answer' = result
  /\ call' = NoCall
  /\ start' = count'

GoRound == UNCHANGED <<used, answer, call, start>>

\* Faulty: an illegal name is passed over instead of ending the search.
IterateSkipsIllegal(p) ==
  LET n    == count[p] + 1
      name == Name(p, n)
  IN /\ call = [op |-> "alloc", prefix |-> p]
     /\ count' = [count EXCEPT ![p] = n]
     /\ \/ Free(name) /\ used' = used \cup {name} /\ Return(Ok(name))
        \/ ~Free(name) /\ GoRound
     /\ UNCHANGED <<dev, created>>

\* Faulty: the counter is left at the next number instead of this one.
IterateSkipsOne(p) ==
  LET n    == count[p] + 1
      name == Name(p, n)
  IN /\ call = [op |-> "alloc", prefix |-> p]
     /\ count' = [count EXCEPT ![p] = n + 1]
     /\ \/ ~validName(name) /\ Return(Refused) /\ UNCHANGED used
        \/ Free(name) /\ used' = used \cup {name} /\ Return(Ok(name))
        \/ validName(name) /\ name \in used /\ GoRound
     /\ UNCHANGED <<dev, created>>

\* Faulty: only a name that is granted is counted.
IterateCountsLate(p) ==
  LET n    == count[p] + 1
      name == Name(p, n)
  IN /\ call = [op |-> "alloc", prefix |-> p]
     /\ \/ ~validName(name) /\ UNCHANGED <<used, count>> /\ Return(Refused)
        \/ /\ Free(name)
           /\ count' = [count EXCEPT ![p] = n]
           /\ used' = used \cup {name}
           /\ Return(Ok(name))
        \/ validName(name) /\ name \in used /\ UNCHANGED count /\ GoRound
     /\ UNCHANGED <<dev, created>>

\* One iteration of Alloc's loop: count, name, check, and return or go round.
Iterate(p) ==
  LET n    == count[p] + 1
      name == Name(p, n)
  IN /\ call = [op |-> "alloc", prefix |-> p]
     /\ count' = [count EXCEPT ![p] = n]
     /\ \/ ~validName(name) /\ Return(Refused) /\ UNCHANGED used
        \/ Free(name) /\ used' = used \cup {name} /\ Return(Ok(name))
        \/ validName(name) /\ name \in used /\ GoRound
     /\ UNCHANGED <<dev, created>>

EnterDevice ==
  /\ call = NoCall
  /\ answer.op = "ok"
  /\ Enter(answer.name)
  /\ answer' = NoAnswer
  /\ UNCHANGED <<used, count, call, start>>

\* The next rule of the file begins.
NextRule ==
  /\ call = NoCall
  /\ answer.op # "ok"
  /\ dev # Root
  /\ Reset
  /\ answer' = NoAnswer
  /\ UNCHANGED <<call, start>>

Next ==
  \/ \E name \in ClaimNames(dev) : CallClaim(name)
  \/ \E p \in NamePrefixes : CallAlloc(p)
  \/ ReturnClaim
  \/ \E p \in NamePrefixes : Iterate(p)
  \/ EnterDevice
  \/ NextRule

\* A call in progress runs: the program has one thread and env never blocks.
Fairness ==
  /\ WF_vars(ReturnClaim)
  /\ WF_vars(\E p \in NamePrefixes : Iterate(p))

Spec == Init /\ [][Next]_vars /\ Fairness

----------------------------------------------------------------------------
TypeOK ==
  /\ dev \in IfNames
  /\ created \in Seq(IfNames)
  /\ used \subseteq IfNames
  /\ count \in [NamePrefixes -> 0..MaxCount]
  /\ start \in [NamePrefixes -> 0..MaxCount]
  /\ call \in {NoCall} \cup [op : {"claim"}, name : IfNames]
                       \cup [op : {"alloc"}, prefix : NamePrefixes]
  /\ answer \in {NoAnswer, Refused} \cup [op : {"ok"}, name : IfNames]

\* No two devices get one name, none gets the root's, and a device about to
\* be made has a name no earlier one has (env.go:56 "Claim reserves an exact
\* interface name", env.go:83 "keeping every name already taken").
Granted == IF answer.op = "ok" THEN Append(created, answer.name) ELSE created

NamesDistinct ==
  \A i \in 1..Len(Granted) :
    /\ Granted[i] # Root
    /\ \A j \in 1..Len(Granted) : i # j => Granted[i] # Granted[j]

\* The counter never skips a usable name: below it, every number is taken or
\* has no legal name.  It is why the first number past the counter is the
\* smallest free one, although numbers are also taken behind the counter's
\* back by Claim("vxlan<vni>").
NoGaps ==
  \A p \in NamePrefixes : \A n \in 1..count[p] : ~Free(Name(p, n))

\* Every call returns: Alloc's `for' has no bound of its own, and ends
\* because names get longer until validName refuses them.
CallsReturn == (call # NoCall) ~> (call = NoCall)

\* env keeps the promise of Namespace.
Contract == INSTANCE Namespace
NamespaceSpec == Contract!Spec

\* The loop takes effect as one Alloc step of Env: until the call returns,
\* its counter reads as it did when the call was made.
Atomic == INSTANCE Env WITH count <- start
AtomicSpec == Atomic!EnvSpec

============================================================================
