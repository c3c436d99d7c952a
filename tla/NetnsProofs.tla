---------------------------- MODULE NetnsProofs ----------------------------
(* Proofs about package nettest, for every packet count and every number of *)
(* datagrams.                                                               *)
EXTENDS Netns, SequenceTheorems, TLAPS

----------------------------------------------------------------------------
\* The bodies, step by step.

\* What the properties ask of a step's place in the body: what it makes, what
\* was made before it, and what its failure may be.
StepOK(k) ==
  /\ Body[k].op = "netns" => Body[k].arg \in {"A", "B"}
  /\ Body[k].op \in {"vethInside", "move"} =>
       \E l \in 1..(k - 1) : Body[l].op = "netns" /\ Body[l].arg = Body[k].arg
  /\ Body[k].op = "move" => \E l \in 1..(k - 1) : Body[l].op = "veth"
  /\ Body[k].op = "probe" => Body[k].needs = {"kind"}
  /\ Body[k].onFail = "fatal" =>
       \/ Body[k].needs = {}
       \/ Body[k].needs = {"veth"} /\ mode = "single"
       \/ Body[k].needs = {"kind"} /\ \E l \in 1..(k - 1) : Body[l].op = "probe"

\* The fields of each step.
LEMMA StepFields ==
  /\ Require.op = "run" /\ Require.onFail = "skip"
  /\ RequireType.op = "probe" /\ RequireType.onFail = "skip"
  /\ RequireType.needs = {"kind"}
  /\ StartCapture.op = "capture" /\ StartCapture.onFail = "skip"
  /\ SendUDP.op = "run" /\ SendUDP.onFail = "skip"
BY DEF Require, RequireType, StartCapture, SendUDP, Do

\* newEmpty makes the namespace it is given.
LEMMA NamespaceFields ==
  /\ newEmpty("A").op = "netns" /\ newEmpty("A").arg = "A" /\ newEmpty("A").onFail = "skip"
  /\ newEmpty("B").op = "netns" /\ newEmpty("B").arg = "B" /\ newEmpty("B").onFail = "skip"
BY DEF newEmpty, Do

\* MustRun needs nothing of the machine, a script the device kind.
LEMMA CommandFields ==
  ASSUME NEW ns
  PROVE  /\ MustRun(ns).op = "run" /\ MustRun(ns).needs = {}
         /\ RunScript(ns).op = "run" /\ RunScript(ns).needs = {"kind"}
BY DEF MustRun, RunScript, Do

\* The veth pair, made inside, made on the host, or moved.
LEMMA DeviceFields ==
  /\ Do("vethInside", "A", {"veth"}, "fatal").op = "vethInside"
  /\ Do("vethInside", "A", {"veth"}, "fatal").arg = "A"
  /\ Do("vethInside", "A", {"veth"}, "fatal").needs = {"veth"}
  /\ Do("veth", "", {"veth"}, "skip").op = "veth"
  /\ Do("veth", "", {"veth"}, "skip").onFail = "skip"
  /\ Do("move", "A", {}, "fatal").op = "move"
  /\ Do("move", "A", {}, "fatal").arg = "A"
  /\ Do("move", "A", {}, "fatal").needs = {}
  /\ Do("move", "B", {}, "fatal").op = "move"
  /\ Do("move", "B", {}, "fatal").arg = "B"
  /\ Do("move", "B", {}, "fatal").needs = {}
BY DEF Do

\* A step whose failure skips the test and that makes nothing is in order
\* anywhere, and so is a command that must succeed and needs nothing.
LEMMA PlainSteps ==
  ASSUME NEW k, Body[k].op \in {"run", "capture", "veth"},
         Body[k].onFail = "skip" \/ Body[k].needs = {}
  PROVE  StepOK(k)
BY DEF StepOK

\* A namespace is A or B, and the probe asks for the device kind.
LEMMA MakingSteps ==
  ASSUME NEW k, Body[k].onFail = "skip",
         \/ Body[k].op = "netns" /\ Body[k].arg \in {"A", "B"}
         \/ Body[k].op = "probe" /\ Body[k].needs = {"kind"}
  PROVE  StepOK(k)
BY DEF StepOK

\* A device is put into a namespace only after that was made.
LEMMA DeviceSteps ==
  ASSUME NEW k, NEW l \in 1..(k - 1), Body[k].op \in {"vethInside", "move"},
         Body[l].op = "netns", Body[l].arg = Body[k].arg,
         Body[k].op = "move" => \E m \in 1..(k - 1) : Body[m].op = "veth",
         Body[k].needs = {} \/ (Body[k].needs = {"veth"} /\ mode = "single")
  PROVE  StepOK(k)
BY DEF StepOK

\* A script runs only after the probe.
LEMMA ScriptSteps ==
  ASSUME NEW k, NEW l \in 1..(k - 1), Body[k].op = "run",
         Body[k].needs = {"kind"}, Body[l].op = "probe"
  PROVE  StepOK(k)
BY DEF StepOK

\* The single body is New's five steps and the test's three.
LEMMA SingleBody ==
  ASSUME mode = "single"
  PROVE  Len(Body) = 8 /\ \A k \in 1..8 : StepOK(k)
<1>1. Len(Body) = 8
  BY DEF Body, New
<1>2. StepOK(1)
  <2>1. Body[1] = Require
    BY DEF Body, New
  <2> QED BY <2>1, StepFields, PlainSteps
<1>3. StepOK(4) /\ StepOK(5) /\ StepOK(8)
  <2>1. Body[4] = MustRun("A") /\ Body[5] = MustRun("A") /\ Body[8] = MustRun("A")
    BY DEF Body, New
  <2> QED BY <2>1, CommandFields, PlainSteps
<1>4. Body[2] = newEmpty("A") /\ Body[6] = RequireType
  BY DEF Body, New
<1>5. StepOK(2)
  BY <1>4, NamespaceFields, MakingSteps
<1>6. StepOK(6)
  BY <1>4, StepFields, MakingSteps
<1>7. StepOK(3)
  <2>1. Body[3] = Do("vethInside", "A", {"veth"}, "fatal")
    BY DEF Body, New
  <2>2. Body[3].op = "vethInside" /\ Body[3].arg = "A" /\ Body[3].needs = {"veth"}
    BY <2>1, DeviceFields
  <2>3. Body[2].op = "netns" /\ Body[2].arg = "A"
    BY <1>4, NamespaceFields
  <2>4. 2 \in 1..(3 - 1)
    OBVIOUS
  <2> QED BY <2>2, <2>3, <2>4, DeviceSteps
<1>8. StepOK(7)
  <2>1. Body[7] = RunScript("A")
    BY DEF Body, New
  <2>2. Body[7].op = "run" /\ Body[7].needs = {"kind"}
    BY <2>1, CommandFields
  <2>3. Body[6].op = "probe"
    BY <1>4, StepFields
  <2>4. 6 \in 1..(7 - 1)
    OBVIOUS
  <2> QED BY <2>2, <2>3, <2>4, ScriptSteps
<1>9. ASSUME NEW k \in 1..8
      PROVE  k = 1 \/ k = 2 \/ k = 3 \/ k = 4 \/ k = 5 \/ k = 6 \/ k = 7 \/ k = 8
  OBVIOUS
<1> QED BY <1>1, <1>2, <1>3, <1>5, <1>6, <1>7, <1>8, <1>9

\* The pair's body is NewPair's fourteen steps and the test's five.
LEMMA PairBody ==
  ASSUME mode = "pair"
  PROVE  Len(Body) = 19 /\ \A k \in 1..19 : StepOK(k)
<1>1. Len(Body) = 19
  BY DEF Body, NewPair
<1>2. StepOK(1) /\ StepOK(18) /\ StepOK(19)
  <2>1. Body[1] = Require /\ Body[18] = StartCapture /\ Body[19] = SendUDP
    BY DEF Body, NewPair
  <2> QED BY <2>1, StepFields, PlainSteps
<1>3. Body[4].op = "veth" /\ Body[4].onFail = "skip"
  <2>1. Body[4] = Do("veth", "", {"veth"}, "skip")
    BY DEF Body, NewPair
  <2> QED BY <2>1, DeviceFields
<1>4. StepOK(4)
  BY <1>3, PlainSteps
<1>5. StepOK(7) /\ StepOK(8) /\ StepOK(9) /\ StepOK(10)
  <2>1. /\ Body[7] = MustRun("A") /\ Body[8] = MustRun("A")
        /\ Body[9] = MustRun("A") /\ Body[10] = MustRun("A")
    BY DEF Body, NewPair
  <2> QED BY <2>1, CommandFields, PlainSteps
<1>6. StepOK(11) /\ StepOK(12) /\ StepOK(13) /\ StepOK(14)
  <2>1. /\ Body[11] = MustRun("B") /\ Body[12] = MustRun("B")
        /\ Body[13] = MustRun("B") /\ Body[14] = MustRun("B")
    BY DEF Body, NewPair
  <2> QED BY <2>1, CommandFields, PlainSteps
<1>7. Body[2] = newEmpty("A") /\ Body[3] = newEmpty("B") /\ Body[15] = RequireType
  BY DEF Body, NewPair
<1>8. StepOK(2) /\ StepOK(3)
  BY <1>7, NamespaceFields, MakingSteps
<1>9. StepOK(15)
  BY <1>7, StepFields, MakingSteps
<1>10. StepOK(5) /\ StepOK(6)
  <2>1. Body[5] = Do("move", "A", {}, "fatal") /\ Body[6] = Do("move", "B", {}, "fatal")
    BY DEF Body, NewPair
  <2>2. Body[5].op = "move" /\ Body[5].arg = "A" /\ Body[5].needs = {}
    BY <2>1, DeviceFields
  <2>3. Body[6].op = "move" /\ Body[6].arg = "B" /\ Body[6].needs = {}
    BY <2>1, DeviceFields
  <2>4. /\ Body[2].op = "netns" /\ Body[2].arg = "A"
        /\ Body[3].op = "netns" /\ Body[3].arg = "B"
    BY <1>7, NamespaceFields
  <2>5. 2 \in 1..(5 - 1) /\ 3 \in 1..(6 - 1) /\ 4 \in 1..(5 - 1) /\ 4 \in 1..(6 - 1)
    OBVIOUS
  <2> QED BY <1>3, <2>2, <2>3, <2>4, <2>5, DeviceSteps
<1>11. StepOK(16) /\ StepOK(17)
  <2>1. Body[16] = RunScript("A") /\ Body[17] = RunScript("B")
    BY DEF Body, NewPair
  <2>2. /\ Body[16].op = "run" /\ Body[16].needs = {"kind"}
        /\ Body[17].op = "run" /\ Body[17].needs = {"kind"}
    BY <2>1, CommandFields
  <2>3. Body[15].op = "probe"
    BY <1>7, StepFields
  <2>4. 15 \in 1..(16 - 1) /\ 15 \in 1..(17 - 1)
    OBVIOUS
  <2> QED BY <2>2, <2>3, <2>4, ScriptSteps
<1>12. ASSUME NEW k \in 1..19
       PROVE  \/ k = 1 \/ k = 2 \/ k = 3 \/ k = 4 \/ k = 5 \/ k = 6 \/ k = 7
              \/ k = 8 \/ k = 9 \/ k = 10 \/ k = 11 \/ k = 12 \/ k = 13
              \/ k = 14 \/ k = 15 \/ k = 16 \/ k = 17 \/ k = 18 \/ k = 19
  OBVIOUS
<1> QED BY <1>1, <1>2, <1>4, <1>5, <1>6, <1>8, <1>9, <1>10, <1>11, <1>12

\* Every step of either body is in order.
LEMMA BodyInOrder ==
  ASSUME mode \in {"single", "pair"}
  PROVE  Len(Body) \in Nat /\ \A k \in 1..Len(Body) : StepOK(k)
<1>1. CASE mode = "single"
  <2>1. Len(Body) = 8 /\ \A k \in 1..8 : StepOK(k)
    BY <1>1, SingleBody
  <2> QED BY <2>1
<1>2. CASE mode = "pair"
  <2>1. Len(Body) = 19 /\ \A k \in 1..19 : StepOK(k)
    BY <1>2, PairBody
  <2> QED BY <2>1
<1> QED BY <1>1, <1>2

----------------------------------------------------------------------------
\* The inductive invariant, in four parts that are proved one after another.

\* What the variables range over, and what the setup has made so far: while the
\* test is in its setup nothing it named is gone, and the veth pair stands.
Shape ==
  /\ mode \in {"single", "pair"}
  /\ phase \in {"setup", "send", "select", "killed", "cleanup"}
  /\ pc \in Nat \ {0}
  /\ cleanups \in Seq({"A", "B", "ta"})
  /\ veth \in [ta : {"none", "host", "A", "B"}, tb : {"none", "host", "A", "B"}]

MadeSoFar == \A k \in 1..Len(Body) :
  phase = "setup" /\ k < pc /\ Body[k].op = "netns" => Body[k].arg \in named

PlaceInv == Shape /\ TypeOK /\ MadeSoFar

\* What is known of the capture in each phase.
CaptureInv ==
  /\ phase \in {"setup", "send"} => waiter = "none" /\ captured = NotRead
  /\ waiter = "done" => tcpdump = "exited" /\ copied = seen
  /\ WholeCaptureRead

\* The probe found the device kind, or could not tell.
ProbeInv ==
  /\ \A k \in 1..Len(Body) :
       phase = "setup" /\ k < pc /\ Body[k].op = "probe" => "kind" \in has \/ "probe" \notin has
  /\ Guarded

\* The veth pair stands as long as the setup goes on.
OwnedInv ==
  /\ \A k \in 1..Len(Body) :
       phase = "setup" /\ k < pc /\ Body[k].op = "veth" =>
         veth.ta \in {"host"} \cup named /\ veth.tb \in {"host"} \cup named
  /\ Owned

NetnsInv == PlaceInv /\ CaptureInv /\ ProbeInv /\ OwnedInv

\* A test that has not begun has made nothing and read nothing.
LEMMA NetnsInit == Init => NetnsInv
<1> SUFFICES ASSUME Init PROVE NetnsInv
  OBVIOUS
<1>1. /\ mode \in {"single", "pair"} /\ phase = "setup" /\ pc = 1
      /\ cleanups = << >> /\ named = {} /\ alive = {} /\ veth = Nowhere
      /\ seen = 0 /\ copied = 0 /\ waiter = "none" /\ captured = NotRead
      /\ verdict = "running"
  BY DEF Init
<1>2. Len(Body) \in Nat
  BY <1>1, BodyInOrder
<1>3. veth.ta = "none" /\ veth.tb = "none"
  BY <1>1 DEF Nowhere
<1>4. Shape
  <2>1. << >> \in Seq({"A", "B", "ta"})
    BY EmptySeq
  <2>2. veth \in [ta : {"none", "host", "A", "B"}, tb : {"none", "host", "A", "B"}]
    BY <1>1 DEF Nowhere
  <2> QED BY <1>1, <2>1, <2>2 DEF Shape
<1>5. TypeOK
  <2>1. \A e \in {"ta", "tb"} : veth[e] \in {"none", "host"} \cup alive
    BY <1>3
  <2>2. named \subseteq alive /\ alive \subseteq {"A", "B"}
    BY <1>1
  <2>3. copied \in 0..seen /\ seen \in 0..Count
    BY <1>1, NetnsAssumption
  <2> QED BY <1>1, <2>1, <2>2, <2>3 DEF TypeOK
<1>6. \A k \in 1..Len(Body) : ~(k < pc)
  BY <1>1, <1>2
<1>7. MadeSoFar
  BY <1>6 DEF MadeSoFar
<1>8. CaptureInv
  BY <1>1 DEF CaptureInv, WholeCaptureRead
<1>9. ProbeInv
  BY <1>1, <1>6 DEF ProbeInv, Guarded
<1>10. OwnedInv
  BY <1>1, <1>3, <1>6 DEF OwnedInv, Owned
<1> QED BY <1>4, <1>5, <1>7, <1>8, <1>9, <1>10 DEF NetnsInv, PlaceInv

\* The body of a test does not change while it runs.
LEMMA SameBody == ASSUME UNCHANGED mode PROVE Body' = Body
BY DEF Body

\* A step of the setup: the body is where it was, one step on.
LEMMA StepAhead ==
  ASSUME Shape, NEW op, Step(op)
  PROVE  /\ phase = "setup" /\ pc \in 1..Len(Body) /\ Len(Body) \in Nat
         /\ Body' = Body /\ pc' = pc + 1 /\ phase' = phase /\ mode' = mode
         /\ Body[pc].op = op
         /\ StepOK(pc)
<1>1. Len(Body) \in Nat /\ \A k \in 1..Len(Body) : StepOK(k)
  BY BodyInOrder DEF Shape
<1>2. phase = "setup" /\ pc \in 1..Len(Body)
  BY <1>1 DEF Shape, Step
<1> QED BY <1>1, <1>2, SameBody DEF Step

\* Named namespaces stay alive, veth ends are where a namespace is, and the
\* setup keeps what it has made.
LEMMA PlaceNext == PlaceInv /\ [Next]_vars => PlaceInv'
<1> SUFFICES ASSUME PlaceInv, [Next]_vars PROVE PlaceInv'
  OBVIOUS
<1> USE DEF PlaceInv
<1>0. Len(Body) \in Nat
  BY BodyInOrder DEF Shape
\* A step that leaves the test's own state alone.
<1>1. ASSUME UNCHANGED <<mode, cleanups, named, alive, veth, pc>>,
             phase' = phase \/ phase' \in {"send", "select", "killed", "cleanup"},
             TypeOK'
      PROVE  PlaceInv'
  <2>1. Shape'
    BY <1>1 DEF Shape
  <2>2. MadeSoFar'
    BY <1>1, SameBody DEF MadeSoFar
  <2> QED BY <1>1, <2>1, <2>2
<1>2. CASE StepFails
  BY <1>1, <1>2 DEF StepFails, Ends, TypeOK
<1>3. CASE RunStep
  <2>1. PICK op \in {"run", "probe"} : Step(op)
    BY <1>3 DEF RunStep
  <2>2. Shape' /\ TypeOK'
    BY <1>3, <2>1, StepAhead DEF RunStep, Step, Shape, TypeOK
  <2>3. MadeSoFar'
    BY <1>3, <2>1, StepAhead DEF RunStep, MadeSoFar, Shape
  <2> QED BY <2>2, <2>3
<1>4. CASE MakeNamespace
  <2>1. Body[pc].arg \in {"A", "B"}
    BY <1>4, StepAhead DEF MakeNamespace, StepOK
  <2>2. Shape'
    BY <1>4, <2>1, StepAhead DEF MakeNamespace, Shape
  <2>3. TypeOK'
    BY <1>4, <2>1 DEF MakeNamespace, Step, TypeOK
  <2>4. MadeSoFar'
    BY <1>4, <2>1, StepAhead DEF MakeNamespace, MadeSoFar, Shape
  <2> QED BY <2>2, <2>3, <2>4
<1>5. CASE MakeVeth
  <2>2. Shape'
    BY <1>5, StepAhead DEF MakeVeth, Shape
  <2>3. TypeOK'
    BY <1>5 DEF MakeVeth, Step, TypeOK
  <2>4. MadeSoFar'
    BY <1>5, StepAhead DEF MakeVeth, MadeSoFar, Shape
  <2> QED BY <2>2, <2>3, <2>4
<1>6. CASE MakeVethInside \/ MoveVeth
  <2>1. PICK op \in {"vethInside", "move"} : Step(op)
    BY <1>6 DEF MakeVethInside, MoveVeth
  <2>2. Body[pc].arg \in named
    <3>1. PICK l \in 1..(pc - 1) : Body[l].op = "netns" /\ Body[l].arg = Body[pc].arg
      BY <2>1, StepAhead DEF StepOK
    <3>2. l \in 1..Len(Body) /\ l < pc /\ phase = "setup"
      BY <2>1, <3>1, StepAhead
    <3> QED BY <3>1, <3>2 DEF MadeSoFar
  <2>3. /\ Body[pc].arg \in alive /\ Body[pc].arg \in {"A", "B"}
        /\ UNCHANGED <<named, alive, cleanups>>
    BY <1>6, <2>2 DEF TypeOK, MakeVethInside, MoveVeth
  <2>4. veth' \in [ta : {"none", "host", "A", "B"}, tb : {"none", "host", "A", "B"}]
    BY <1>6, <2>3 DEF Shape, MakeVethInside, MoveVeth
  <2>5. \A e \in {"ta", "tb"} : veth'[e] = veth[e] \/ veth'[e] = Body[pc].arg
    BY <1>6 DEF Shape, MakeVethInside, MoveVeth
  <2>6. Shape'
    BY <2>1, <2>3, <2>4, StepAhead DEF Shape
  <2>7. TypeOK'
    BY <2>1, <2>3, <2>5 DEF TypeOK, Step
  <2>8. MadeSoFar'
    BY <2>1, <2>3, StepAhead DEF MadeSoFar, Shape
  <2> QED BY <2>6, <2>7, <2>8
<1>7. CASE StartTcpdump
  <2>2. Shape' /\ TypeOK'
    BY <1>7, StepAhead DEF StartTcpdump, Step, Shape, TypeOK
  <2>3. MadeSoFar'
    BY <1>7, StepAhead DEF StartTcpdump, MadeSoFar, Shape
  <2> QED BY <2>2, <2>3
<1>8. CASE SetupDone
  BY <1>1, <1>8 DEF SetupDone, Ends, TypeOK
<1>9. CASE Send
  <2>1. TypeOK'
    BY <1>9, NetnsAssumption DEF Send, TypeOK
  <2> QED BY <1>1, <1>9, <2>1 DEF Send
<1>10. CASE SendFails \/ StartWait \/ Timeout
  BY <1>1, <1>10 DEF SendFails, StartWait, Timeout, Ends, TypeOK
<1>11. CASE WaitReturns
  <2>1. captured' = copied /\ phase' = "cleanup"
        /\ UNCHANGED <<mode, cleanups, named, alive, veth, pc, seen, copied, waiter>>
    BY <1>11 DEF WaitReturns, ReadBuffer, Ends
  <2>2. TypeOK'
    BY <2>1, NetnsAssumption DEF TypeOK
  <2> QED BY <1>1, <2>1, <2>2
<1>12. CASE Cleanup
  <2> DEFINE c == Last(cleanups)
  <2>1. cleanups' \in Seq({"A", "B", "ta"})
    <3>1. \A j \in 1..(Len(cleanups) - 1) : cleanups[j] \in {"A", "B", "ta"}
      BY DEF Shape
    <3>2. Len(cleanups) \in Nat
      BY DEF Shape
    <3>3. SubSeq(cleanups, 1, Len(cleanups) - 1) \in Seq({"A", "B", "ta"})
      BY <3>1, <3>2, SubSeqProperties
    <3> QED BY <1>12, <3>3 DEF Cleanup, Front
  <2>2. veth' = veth \/ veth' = Nowhere
    BY <1>12 DEF Cleanup
  <2>3. Shape'
    BY <1>12, <2>1, <2>2 DEF Cleanup, Shape, Nowhere
  <2>4. TypeOK'
    <3>1. /\ named' \subseteq named
          /\ UNCHANGED <<alive, seen, copied, waiter, captured>>
      BY <1>12 DEF Cleanup
    <3>2. \A e \in {"ta", "tb"} : veth'[e] = veth[e] \/ veth'[e] = "none"
      BY <2>2 DEF Nowhere
    <3> QED BY <3>1, <3>2 DEF TypeOK
  <2>5. MadeSoFar'
    BY <1>12 DEF Cleanup, MadeSoFar
  <2> QED BY <2>3, <2>4, <2>5
<1>13. CASE WaiterDone \/ Attach \/ TcpdumpExits \/ CopyOutput
  <2>1. TypeOK'
    <3>1. CASE CopyOutput
      BY <3>1, NetnsAssumption DEF CopyOutput, TypeOK
    <3>2. CASE ~CopyOutput
      BY <1>13, <3>2 DEF WaiterDone, Attach, TcpdumpExits, TypeOK
    <3> QED BY <3>1, <3>2
  <2> QED BY <1>1, <1>13, <2>1 DEF WaiterDone, Attach, TcpdumpExits, CopyOutput
<1>14. ASSUME NEW ns \in {"A", "B"}, DestroyNamespace(ns) PROVE PlaceInv'
  <2>1. veth' = Nowhere \/ (veth' = veth /\ veth.ta # ns /\ veth.tb # ns)
    BY <1>14 DEF DestroyNamespace
  <2>2. Shape'
    BY <1>14, <2>1 DEF DestroyNamespace, Shape, Nowhere
  <2>3. ns \notin named
    BY <1>14 DEF DestroyNamespace, Held
  <2>4. TypeOK'
    <3>1. named' \subseteq alive' /\ alive' \subseteq {"A", "B"}
      BY <1>14, <2>3 DEF DestroyNamespace, TypeOK
    <3>2. \A e \in {"ta", "tb"} : veth'[e] \in {"none", "host"} \cup alive'
      BY <1>14, <2>1 DEF DestroyNamespace, TypeOK, Nowhere, Shape
    <3> QED BY <1>14, <3>1, <3>2 DEF DestroyNamespace, TypeOK
  <2>5. MadeSoFar'
    BY <1>14, SameBody DEF DestroyNamespace, MadeSoFar
  <2> QED BY <2>2, <2>4, <2>5
<1>15. CASE UNCHANGED vars
  BY <1>1, <1>15 DEF vars, TypeOK
<1> QED
  BY <1>2, <1>3, <1>4, <1>5, <1>6, <1>7, <1>8, <1>9, <1>10, <1>11, <1>12, <1>13,
     <1>14, <1>15 DEF Next, TestStep, KernelStep, Done

\* Wait reads a buffer that nobody writes any more.
LEMMA CaptureNext == PlaceInv /\ CaptureInv /\ [Next]_vars => CaptureInv'
<1> SUFFICES ASSUME PlaceInv, CaptureInv, [Next]_vars PROVE CaptureInv'
  OBVIOUS
<1> USE DEF CaptureInv, WholeCaptureRead
\* A step that leaves the capture alone.
<1>1. ASSUME UNCHANGED <<tcpdump, seen, copied, waiter, captured>>,
             phase' = phase \/ phase' \notin {"setup", "send"} \/ phase = "setup"
      PROVE  CaptureInv'
  BY <1>1
<1>2. CASE StepFails \/ SendFails
  BY <1>1, <1>2 DEF StepFails, SendFails, Ends
<1>3. CASE SetupDone
  BY <1>1, <1>3 DEF SetupDone, Ends
<1>4. CASE RunStep \/ MakeNamespace \/ MakeVeth \/ MakeVethInside \/ MoveVeth
  BY <1>1, <1>4 DEF RunStep, MakeNamespace, MakeVeth, MakeVethInside, MoveVeth, Step
<1>5. CASE Cleanup
  BY <1>1, <1>5 DEF Cleanup
<1>6. CASE StartTcpdump
  BY <1>6 DEF StartTcpdump, Step
<1>7. CASE Send
  BY <1>7 DEF Send
<1>8. CASE StartWait
  BY <1>8 DEF StartWait
<1>9. CASE Timeout
  BY <1>9 DEF Timeout
<1>10. CASE WaitReturns
  BY <1>10 DEF WaitReturns, ReadBuffer, Ends
<1>11. CASE WaiterDone
  BY <1>11 DEF WaiterDone
<1>12. CASE Attach \/ TcpdumpExits
  BY <1>12 DEF Attach, TcpdumpExits
<1>13. CASE CopyOutput
  <2>1. copied # seen /\ phase' = phase /\ UNCHANGED <<waiter, captured, tcpdump>>
    BY <1>13 DEF CopyOutput, PlaceInv, TypeOK
  <2> QED BY <2>1
<1>14. ASSUME NEW ns \in {"A", "B"}, DestroyNamespace(ns) PROVE CaptureInv'
  BY <1>1, <1>14 DEF DestroyNamespace
<1>15. CASE UNCHANGED vars
  BY <1>1, <1>15 DEF vars
<1> QED
  BY <1>2, <1>3, <1>4, <1>5, <1>6, <1>7, <1>8, <1>9, <1>10, <1>11, <1>12, <1>13,
     <1>14, <1>15 DEF Next, TestStep, KernelStep, Done

\* A step past the probe knows what the probe found.
LEMMA ProbeNext == PlaceInv /\ ProbeInv /\ [Next]_vars => ProbeInv'
<1> SUFFICES ASSUME PlaceInv, ProbeInv, [Next]_vars PROVE ProbeInv'
  OBVIOUS
<1> DEFINE Found == "kind" \in has \/ "probe" \notin has
<1>0. Len(Body) \in Nat /\ \A k \in 1..Len(Body) : StepOK(k)
  BY BodyInOrder DEF PlaceInv, Shape
<1>1. ASSUME UNCHANGED <<mode, has, pc, verdict, cause>>,
             phase' = phase \/ phase' # "setup"
      PROVE  ProbeInv'
  BY <1>1, SameBody DEF ProbeInv, Guarded
\* A test that ends is past its setup.
<1>2. ASSUME UNCHANGED <<mode, has>>, phase' = "cleanup",
             verdict' = "fatal" /\ cause' = "environment" => Guarded'
      PROVE  ProbeInv'
  BY <1>2 DEF ProbeInv, Guarded
<1>3. CASE StepFails
  <2>1. /\ pc \in 1..Len(Body) /\ phase = "setup" /\ phase' = "cleanup"
        /\ UNCHANGED <<mode, has>> /\ verdict' = Body[pc].onFail
        /\ cause' = "environment" => ~(Body[pc].needs \subseteq has)
    BY <1>0, <1>3 DEF StepFails, Ends, PlaceInv, Shape
  <2>2. SUFFICES ASSUME verdict' = "fatal", cause' = "environment" PROVE Guarded'
    BY <1>2, <2>1
  <2>3. StepOK(pc)
    BY <1>0, <2>1
  <2>4. CASE Body[pc].needs = {}
    BY <2>1, <2>2, <2>4
  <2>5. CASE Body[pc].needs = {"veth"} /\ mode = "single"
    <3>1. "veth" \notin has
      BY <2>1, <2>2, <2>5
    <3> QED BY <2>1, <2>5, <3>1 DEF Guarded
  <2>6. CASE Body[pc].needs = {"kind"} /\ \E l \in 1..(pc - 1) : Body[l].op = "probe"
    <3>1. "kind" \notin has
      BY <2>1, <2>2, <2>6
    <3>2. PICK l \in 1..(pc - 1) : Body[l].op = "probe"
      BY <2>6
    <3>3. l \in 1..Len(Body) /\ l < pc
      BY <1>0, <2>1, <3>2
    <3>4. "probe" \notin has
      BY <2>1, <3>1, <3>2, <3>3 DEF ProbeInv
    <3> QED BY <2>1, <3>1, <3>4 DEF Guarded
  <2> QED BY <2>1, <2>2, <2>3, <2>4, <2>5, <2>6 DEF StepOK
<1>4. ASSUME NEW op, Step(op), Body[pc].op = "probe" => Found PROVE ProbeInv'
  <2>1. UNCHANGED <<has, verdict, cause>>
    BY <1>4 DEF Step
  <2> QED BY <1>4, <2>1, StepAhead DEF ProbeInv, Guarded, PlaceInv, Shape
<1>5. CASE RunStep
  <2>1. CASE Step("probe")
    <3>1. Body[pc].needs = {"kind"}
      BY <2>1, StepAhead DEF PlaceInv, StepOK
    <3>2. Found
      BY <2>1, <3>1 DEF Step
    <3> QED BY <1>4, <2>1, <3>2
  <2>2. CASE Step("run")
    <3>1. Body[pc].op # "probe"
      BY <2>2 DEF Step
    <3> QED BY <1>4, <2>2, <3>1
  <2> QED BY <1>5, <2>1, <2>2 DEF RunStep
<1>6. CASE MakeNamespace \/ MakeVeth \/ MakeVethInside \/ MoveVeth \/ StartTcpdump
  <2>1. PICK op \in {"netns", "veth", "vethInside", "move", "capture"} : Step(op)
    BY <1>6 DEF MakeNamespace, MakeVeth, MakeVethInside, MoveVeth, StartTcpdump
  <2>2. Body[pc].op # "probe"
    BY <2>1 DEF Step
  <2> QED BY <1>4, <2>1, <2>2
<1>7. CASE SetupDone
  <2>1. CASE mode = "pair" /\ phase' = "send" /\ UNCHANGED <<mode, has, pc, verdict, cause>>
    BY <1>1, <2>1
  <2>2. CASE \E v \in {"passed", "failed"} : Ends(v, "")
    BY <1>2, <2>2 DEF Ends
  <2> QED BY <1>7, <2>1, <2>2 DEF SetupDone
<1>8. CASE SendFails
  BY <1>2, <1>8 DEF SendFails, Ends
<1>9. CASE WaitReturns
  BY <1>2, <1>9 DEF WaitReturns, ReadBuffer, Ends
<1>10. CASE Send \/ StartWait \/ Timeout \/ Cleanup
  BY <1>1, <1>10 DEF Send, StartWait, Timeout, Cleanup
<1>11. CASE WaiterDone \/ Attach \/ TcpdumpExits \/ CopyOutput
  BY <1>1, <1>11 DEF WaiterDone, Attach, TcpdumpExits, CopyOutput
<1>12. ASSUME NEW ns \in {"A", "B"}, DestroyNamespace(ns) PROVE ProbeInv'
  BY <1>1, <1>12 DEF DestroyNamespace
<1>13. CASE UNCHANGED vars
  BY <1>1, <1>13 DEF vars
<1> QED
  BY <1>3, <1>5, <1>6, <1>7, <1>8, <1>9, <1>10, <1>11, <1>12, <1>13
  DEF Next, TestStep, KernelStep, Done

\* What is in a sequence stays there when something is appended, and what is
\* not its last element when that is taken off.
LEMMA Pending ==
  ASSUME NEW S, NEW s \in Seq(S), NEW e \in S
  PROVE  /\ ToSet(Append(s, e)) = ToSet(s) \cup {e}
         /\ s # << >> => ToSet(s) \subseteq ToSet(Front(s)) \cup {Last(s)}
<1>1. ToSet(Append(s, e)) = ToSet(s) \cup {e}
  <2>1. /\ Len(s) \in Nat /\ DOMAIN s = 1..Len(s)
        /\ DOMAIN Append(s, e) = 1..(Len(s) + 1)
        /\ \A j \in 1..Len(s) : Append(s, e)[j] = s[j]
        /\ Append(s, e)[Len(s) + 1] = e
    OBVIOUS
  <2>2. ASSUME NEW x \in ToSet(Append(s, e)) PROVE x \in ToSet(s) \cup {e}
    <3>1. PICK j \in 1..(Len(s) + 1) : x = Append(s, e)[j]
      BY <2>1, <2>2 DEF ToSet
    <3> QED BY <2>1, <3>1 DEF ToSet
  <2>3. ASSUME NEW x \in ToSet(s) PROVE x \in ToSet(Append(s, e))
    <3>1. PICK j \in 1..Len(s) : x = s[j]
      BY <2>1, <2>3 DEF ToSet
    <3> QED BY <2>1, <3>1 DEF ToSet
  <2>4. e \in ToSet(Append(s, e))
    BY <2>1 DEF ToSet
  <2> QED BY <2>2, <2>3, <2>4
<1>2. ASSUME s # << >> PROVE ToSet(s) \subseteq ToSet(Front(s)) \cup {Last(s)}
  <2>1. PICK n \in Nat : Len(s) = n + 1
    <3>1. Len(s) \in Nat \ {0}
      BY <1>2, EmptySeq
    <3> QED BY <3>1, Len(s) - 1 \in Nat
  <2>2. DOMAIN s = 1..(n + 1) /\ \A j \in 1..n : s[j] \in S
    BY <2>1
  <2>3. /\ Front(s) \in Seq(S) /\ Len(Front(s)) = n
        /\ \A j \in 1..n : Front(s)[j] = s[j]
    <3>1. Front(s) = SubSeq(s, 1, n)
      BY <2>1 DEF Front
    <3> QED BY <2>2, <3>1, SubSeqProperties
  <2>4. DOMAIN Front(s) = 1..n
    BY <2>3, LenProperties
  <2>5. ASSUME NEW j \in 1..(n + 1) PROVE s[j] \in ToSet(Front(s)) \cup {Last(s)}
    <3>1. CASE j = n + 1
      BY <2>1, <3>1 DEF Last
    <3>2. CASE j \in 1..n
      BY <2>3, <2>4, <3>2 DEF ToSet
    <3> QED BY <3>1, <3>2
  <2> QED BY <2>2, <2>5 DEF ToSet
<1> QED BY <1>1, <1>2

\* Whatever exists has somebody who will remove it.
LEMMA OwnedNext == PlaceInv /\ OwnedInv /\ [Next]_vars => OwnedInv'
<1> SUFFICES ASSUME PlaceInv, OwnedInv, [Next]_vars PROVE OwnedInv'
  OBVIOUS
<1> DEFINE Stands == veth.ta \in {"host"} \cup named /\ veth.tb \in {"host"} \cup named
<1>0. Len(Body) \in Nat /\ \A k \in 1..Len(Body) : StepOK(k)
  BY BodyInOrder DEF PlaceInv, Shape
<1>1. ASSUME UNCHANGED <<mode, pc, cleanups, named, alive, veth>>,
             phase' = phase \/ phase' # "setup"
      PROVE  OwnedInv'
  BY <1>1, SameBody DEF OwnedInv, Owned
\* A step of the setup that makes no veth pair and moves none.
<1>2. ASSUME NEW op, Step(op), op # "veth", UNCHANGED veth,
             named \subseteq named', Owned'
      PROVE  OwnedInv'
  <2>1. ASSUME NEW k \in 1..Len(Body)', phase' = "setup", k < pc', Body'[k].op = "veth"
        PROVE  Stands'
    <3>1. k \in 1..Len(Body) /\ k < pc /\ phase = "setup" /\ Body[k].op = "veth"
      BY <1>2, <2>1, StepAhead DEF PlaceInv, Shape
    <3>2. Stands
      BY <3>1 DEF OwnedInv
    <3> QED BY <1>2, <3>2
  <2> QED BY <1>2, <2>1 DEF OwnedInv
<1>3. CASE RunStep \/ StartTcpdump
  <2>1. PICK op \in {"run", "probe", "capture"} : Step(op)
    BY <1>3 DEF RunStep, StartTcpdump
  <2>2. UNCHANGED <<cleanups, named, alive, veth>>
    BY <1>3 DEF RunStep, StartTcpdump
  <2>3. Owned'
    BY <2>2 DEF OwnedInv, Owned
  <2> QED BY <1>2, <2>1, <2>2, <2>3
<1>4. CASE MakeNamespace
  <2>1. Body[pc].arg \in {"A", "B"}
    BY <1>4, StepAhead DEF MakeNamespace, StepOK, PlaceInv
  <2>2. ToSet(cleanups') = ToSet(cleanups) \cup {Body[pc].arg}
    BY <1>4, <2>1, Pending DEF MakeNamespace, PlaceInv, Shape
  <2>3. Owned'
    BY <1>4, <2>2 DEF MakeNamespace, OwnedInv, Owned
  <2> QED BY <1>2, <1>4, <2>3 DEF MakeNamespace
<1>5. CASE MakeVeth
  <2>1. ToSet(cleanups') = ToSet(cleanups) \cup {"ta"}
    BY <1>5, Pending DEF MakeVeth, PlaceInv, Shape
  <2>2. veth'.ta = "host" /\ veth'.tb = "host"
    BY <1>5 DEF MakeVeth
  <2>3. Owned'
    BY <1>5, <2>1, <2>2 DEF MakeVeth, OwnedInv, Owned
  <2> QED BY <2>2, <2>3 DEF OwnedInv
<1>6. CASE MakeVethInside \/ MoveVeth
  <2>1. PICK op \in {"vethInside", "move"} : Step(op)
    BY <1>6 DEF MakeVethInside, MoveVeth
  <2>2. Body[pc].arg \in named /\ Body[pc].arg \in {"A", "B"} /\ Body[pc].arg \in alive
    <3>1. PICK l \in 1..(pc - 1) : Body[l].op = "netns" /\ Body[l].arg = Body[pc].arg
      BY <2>1, StepAhead DEF StepOK, PlaceInv
    <3>2. l \in 1..Len(Body) /\ l < pc /\ phase = "setup"
      BY <2>1, <3>1, StepAhead DEF PlaceInv
    <3> QED BY <3>1, <3>2 DEF MadeSoFar, PlaceInv, TypeOK
  <2>3. UNCHANGED <<cleanups, named, alive>>
    BY <1>6 DEF MakeVethInside, MoveVeth
  <2>4. CASE MakeVethInside
    <3>1. veth'.ta = Body[pc].arg /\ veth'.tb = Body[pc].arg
      BY <2>4 DEF MakeVethInside
    <3> QED BY <2>2, <2>3, <3>1 DEF OwnedInv, Owned
  <2>5. CASE MoveVeth
    <3>1. Stands
      <4>1. PICK l \in 1..(pc - 1) : Body[l].op = "veth"
        BY <2>5, StepAhead DEF MoveVeth, StepOK, PlaceInv
      <4>2. l \in 1..Len(Body) /\ l < pc /\ phase = "setup"
        BY <2>5, <4>1, StepAhead DEF MoveVeth, PlaceInv
      <4> QED BY <4>1, <4>2 DEF OwnedInv
    <3>2. /\ veth'.ta = veth.ta \/ veth'.ta = Body[pc].arg
          /\ veth'.tb = veth.tb \/ veth'.tb = Body[pc].arg
      BY <2>5 DEF MoveVeth, PlaceInv, Shape
    <3>3. Stands'
      BY <2>2, <2>3, <3>1, <3>2
    <3>4. named \subseteq alive
      BY DEF PlaceInv, TypeOK
    <3>5. Owned'
      <4>1. veth'.ta = "host" => veth.ta = "host"
        BY <2>2, <3>2
      <4> QED BY <2>3, <3>3, <3>4, <4>1 DEF OwnedInv, Owned
    <3> QED BY <3>3, <3>5 DEF OwnedInv
  <2> QED BY <1>6, <2>4, <2>5
<1>7. CASE Cleanup
  <2>1. phase' = "cleanup" /\ UNCHANGED alive
    BY <1>7 DEF Cleanup
  <2>2. ToSet(cleanups) \subseteq ToSet(cleanups') \cup {Last(cleanups)}
    BY <1>7, Pending DEF Cleanup, PlaceInv, Shape
  <2>3. named' = named \ {Last(cleanups)}
    BY <1>7 DEF Cleanup
  <2>4. CASE Last(cleanups) = "ta" /\ veth.ta = "host"
    <3>1. veth' = Nowhere /\ veth'.ta = "none"
      BY <1>7, <2>4 DEF Cleanup, Nowhere
    <3> QED BY <2>1, <2>2, <2>3, <3>1 DEF OwnedInv, Owned
  <2>5. CASE ~(Last(cleanups) = "ta" /\ veth.ta = "host")
    <3>1. veth' = veth
      BY <1>7, <2>5 DEF Cleanup
    <3> QED BY <2>1, <2>2, <2>3, <2>5, <3>1 DEF OwnedInv, Owned
  <2> QED BY <2>4, <2>5
<1>8. ASSUME NEW ns \in {"A", "B"}, DestroyNamespace(ns) PROVE OwnedInv'
  <2>1. /\ ns \notin named /\ UNCHANGED <<mode, pc, phase, cleanups, named>>
        /\ alive' = alive \ {ns}
    BY <1>8 DEF DestroyNamespace, Held
  <2>2. CASE ns \in {veth.ta, veth.tb}
    <3>1. ~Stands
      BY <2>1, <2>2
    <3>2. veth' = Nowhere /\ veth'.ta = "none"
      BY <1>8, <2>2 DEF DestroyNamespace, Nowhere
    <3> QED BY <2>1, <3>1, <3>2, SameBody DEF OwnedInv, Owned
  <2>3. CASE ns \notin {veth.ta, veth.tb}
    <3>1. veth' = veth
      BY <1>8, <2>3 DEF DestroyNamespace
    <3> QED BY <2>1, <2>3, <3>1, SameBody DEF OwnedInv, Owned
  <2> QED BY <2>2, <2>3
<1>9. CASE StepFails \/ SendFails
  BY <1>1, <1>9 DEF StepFails, SendFails, Ends
<1>10. CASE SetupDone
  BY <1>1, <1>10 DEF SetupDone, Ends
<1>11. CASE Send \/ StartWait \/ Timeout
  BY <1>1, <1>11 DEF Send, StartWait, Timeout
<1>12. CASE WaitReturns
  BY <1>1, <1>12 DEF WaitReturns, ReadBuffer, Ends
<1>13. CASE WaiterDone \/ Attach \/ TcpdumpExits \/ CopyOutput
  BY <1>1, <1>13 DEF WaiterDone, Attach, TcpdumpExits, CopyOutput
<1>14. CASE UNCHANGED vars
  BY <1>1, <1>14 DEF vars
<1> QED
  BY <1>3, <1>4, <1>5, <1>6, <1>7, <1>8, <1>9, <1>10, <1>11, <1>12, <1>13, <1>14
  DEF Next, TestStep, KernelStep, Done

----------------------------------------------------------------------------
\* All four parts hold together throughout a test (nettest.New, NewPair,
\* StartCapture, Wait and the cleanups they register).
THEOREM NetnsInvariant == Spec => []NetnsInv
<1>1. NetnsInv /\ [Next]_vars => NetnsInv'
  BY PlaceNext, CaptureNext, ProbeNext, OwnedNext DEF NetnsInv
<1> QED BY <1>1, NetnsInit, PTL DEF Spec

\* What exists, where it is, and what is counted: a named namespace is alive, a
\* veth end is on the host or in a namespace that is.
THEOREM NetnsTypeOK == Spec => []TypeOK
<1>1. NetnsInv => TypeOK
  BY DEF NetnsInv, PlaceInv
<1> QED BY <1>1, NetnsInvariant, PTL

\* nettest.go:236: for every packet count, however the timer, the waiting
\* goroutine, tcpdump and the copying of its output interleave, the buffer is
\* read once it is whole.
THEOREM CaptureIsWhole == Spec => []WholeCaptureRead
<1>1. NetnsInv => WholeCaptureRead
  BY DEF NetnsInv, CaptureInv
<1> QED BY <1>1, NetnsInvariant, PTL

\* nettest.go:11: what the machine lacks is fatal in two places only.
THEOREM TestsAreGuarded == Spec => []Guarded
<1>1. NetnsInv => Guarded
  BY DEF NetnsInv, ProbeInv
<1> QED BY <1>1, NetnsInvariant, PTL

\* nettest.go:39: whatever exists has somebody who will remove it.
THEOREM EverythingIsOwned == Spec => []Owned
<1>1. NetnsInv => Owned
  BY DEF NetnsInv, OwnedInv
<1> QED BY <1>1, NetnsInvariant, PTL

\* So once the cleanups have run and the kernel has let go of the namespaces,
\* no device is left: the state part of CleanedUp.
THEOREM NoLeftovers ==
  Spec => [](phase = "cleanup" /\ cleanups = << >> =>
               /\ named = {}
               /\ alive = {} => veth = Nowhere)
<1>1. NetnsInv /\ phase = "cleanup" /\ cleanups = << >> =>
        named = {} /\ (alive = {} => veth = Nowhere)
  <2> SUFFICES ASSUME NetnsInv, cleanups = << >>
               PROVE  named = {} /\ (alive = {} => veth = Nowhere)
    OBVIOUS
  <2>1. ToSet(cleanups) = {}
    BY DEF ToSet
  <2> QED BY <2>1 DEF NetnsInv, OwnedInv, Owned
<1> QED BY <1>1, NetnsInvariant, PTL

============================================================================
