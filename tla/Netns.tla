------------------------------- MODULE Netns -------------------------------
(* Package nettest: a kernel test makes one namespace (New) or a pair of    *)
(* them joined by a veth pair (NewPair), runs the generated scripts there,  *)
(* and with a pair captures the underlay while traffic is sent.             *)
(*                                                                          *)
(* Four parties move: the test, the goroutine that waits for tcpdump,       *)
(* tcpdump (whose output os/exec copies into the buffer), and the kernel,   *)
(* which destroys a namespace only when neither a name nor a process holds  *)
(* it, and with it its veth ends and their peers.  What the scripts contain *)
(* is the business of Lower; here they succeed or fail.                     *)
EXTENDS Integers, Sequences, SequencesExt, FiniteSets

CONSTANTS
  Count,   \* packets after which tcpdump ends by itself
  Times    \* datagrams SendUDP sends

ASSUME NetnsAssumption == Count \in Nat \ {0} /\ Times \in Nat

VARIABLES
  mode,      \* "single" (New) or "pair" (NewPair and a capture)
  has,       \* what this machine supports
  phase,     \* "setup", "send", "select", "killed" or "cleanup"
  pc,        \* the next step of the setup
  verdict,   \* "running", "skip", "fatal", "failed" or "passed"
  cause,     \* of a skip or a fatal: "environment" or "other"
  cleanups,  \* the functions given to t.Cleanup
  named,     \* the namespaces that `ip netns' lists
  alive,     \* the namespaces the kernel keeps
  veth,      \* where the two ends of the veth pair are
  tcpdump,   \* "off", "starting", "listening" or "exited"
  seen,      \* lines tcpdump has printed
  copied,    \* lines os/exec has copied to the buffer
  waiter,    \* the goroutine of Wait: "none", "waiting" or "done"
  sent,      \* datagrams sent
  captured   \* what Wait returned, or NotRead

vars == <<mode, has, phase, pc, verdict, cause, cleanups, named, alive, veth,
          tcpdump, seen, copied, waiter, sent, captured>>

\* `probe': the device kind can be made without further options.
Features == {"root", "netns", "veth", "kind", "probe", "tcpdump", "bash"}
NotRead  == -1
Nowhere  == [ta |-> "none", tb |-> "none"]

----------------------------------------------------------------------------
\* The setup of a test: what each step does, what it needs of the machine, and
\* what its failure is to the test.
Do(op, arg, needs, onFail) == [op |-> op, arg |-> arg, needs |-> needs, onFail |-> onFail]

MustRun(ns)   == Do("run", ns, {}, "fatal")

\* Faulty: a machine without namespaces fails the test.
newEmptyMust(ns) == Do("netns", ns, {"netns"}, "fatal")

newEmpty(ns)  == Do("netns", ns, {"netns"}, "skip")
Require       == Do("run", "", {"root"}, "skip")
RequireType   == Do("probe", "A", {"kind"}, "skip")
RunScript(ns) == Do("run", ns, {"kind"}, "fatal")

New == <<Require, newEmpty("A"), Do("vethInside", "A", {"veth"}, "fatal"),
         MustRun("A"), MustRun("A")>>

\* Faulty: both ends are moved before the second namespace is there.
NewPairMovesEarly ==
  <<Require, newEmpty("A"), Do("veth", "", {"veth"}, "skip"),
    Do("move", "A", {}, "fatal"), Do("move", "B", {}, "fatal"), newEmpty("B")>>

NewPair ==
  <<Require, newEmpty("A"), newEmpty("B"), Do("veth", "", {"veth"}, "skip"),
    Do("move", "A", {}, "fatal"), Do("move", "B", {}, "fatal"),
    MustRun("A"), MustRun("A"), MustRun("A"), MustRun("A"),
    MustRun("B"), MustRun("B"), MustRun("B"), MustRun("B")>>

StartCapture == Do("capture", "B", {"tcpdump"}, "skip")
SendUDP      == Do("run", "A", {"bash"}, "skip")

\* The tests' bodies: netns_test.go and wire_netns_test.go.
Body ==
  IF mode = "single" THEN New \o <<RequireType, RunScript("A"), MustRun("A")>>
  ELSE NewPair \o <<RequireType, RunScript("A"), RunScript("B"), StartCapture, SendUDP>>

----------------------------------------------------------------------------
Init ==
  /\ mode \in {"single", "pair"}
  /\ has \in SUBSET Features
  /\ phase = "setup"
  /\ pc = 1
  /\ verdict = "running"
  /\ cause = ""
  /\ cleanups = << >>
  /\ named = {} /\ alive = {}
  /\ veth = Nowhere
  /\ tcpdump = "off" /\ seen = 0 /\ copied = 0
  /\ waiter = "none"
  /\ sent = 0
  /\ captured = NotRead

\* t.Skip and t.Fatalf end the test's goroutine; the cleanups still run.
Ends(v, why) ==
  /\ verdict' = v
  /\ cause' = why
  /\ phase' = "cleanup"
  /\ UNCHANGED <<mode, has, pc, cleanups, named, alive, veth, tcpdump, seen,
                 copied, waiter, sent>>

StepFails ==
  /\ phase = "setup" /\ pc <= Len(Body)
  /\ Body[pc].op = "probe" => "kind" \notin has /\ "probe" \in has
  /\ Ends(Body[pc].onFail, IF Body[pc].needs \subseteq has THEN "other" ELSE "environment")
  /\ UNCHANGED captured

Step(op) ==
  /\ phase = "setup" /\ pc <= Len(Body)
  /\ Body[pc].op = op
  /\ Body[pc].needs \subseteq has \/ (op = "probe" /\ "probe" \notin has)
  /\ pc' = pc + 1
  /\ UNCHANGED <<mode, has, phase, verdict, cause, seen, copied, waiter, sent, captured>>

\* Commands that only succeed or fail, and SupportsType, which makes and deletes
\* a probe device: an error other than an unknown type counts as support, so a
\* kind that `ip' refuses to make without further options is never skipped.
RunStep ==
  /\ Step("run") \/ Step("probe")
  /\ UNCHANGED <<cleanups, named, alive, veth, tcpdump>>

MakeNamespace ==
  /\ Step("netns")
  /\ named' = named \cup {Body[pc].arg}
  /\ alive' = alive \cup {Body[pc].arg}
  /\ cleanups' = Append(cleanups, Body[pc].arg)
  /\ UNCHANGED <<veth, tcpdump>>

\* Faulty: the pair is made and its deletion is not arranged for.
MakeVethUntracked ==
  /\ Step("veth")
  /\ veth' = [ta |-> "host", tb |-> "host"]
  /\ UNCHANGED <<cleanups, named, alive, tcpdump>>

\* NewPair's veth pair, on the host until its ends are moved.
MakeVeth ==
  /\ Step("veth")
  /\ veth' = [ta |-> "host", tb |-> "host"]
  /\ cleanups' = Append(cleanups, "ta")
  /\ UNCHANGED <<named, alive, tcpdump>>

\* New's veth pair, with both ends inside.
MakeVethInside ==
  /\ Step("vethInside")
  /\ veth' = [ta |-> Body[pc].arg, tb |-> Body[pc].arg]
  /\ UNCHANGED <<cleanups, named, alive, tcpdump>>

MoveVeth ==
  /\ Step("move")
  /\ veth' = [veth EXCEPT ![IF Body[pc].arg = "A" THEN "ta" ELSE "tb"] = Body[pc].arg]
  /\ UNCHANGED <<cleanups, named, alive, tcpdump>>

\* StartCapture starts tcpdump and sleeps; nothing waits for the socket.
StartTcpdump ==
  /\ Step("capture")
  /\ tcpdump' = "starting"
  /\ UNCHANGED <<cleanups, named, alive, veth>>

\* The body is done.  With one namespace the device is read back, with a pair
\* the datagrams are sent next.
SetupDone ==
  /\ phase = "setup" /\ pc > Len(Body)
  /\ \/ mode = "single" /\ (\E v \in {"passed", "failed"} : Ends(v, "")) /\ UNCHANGED captured
     \/ /\ mode = "pair"
        /\ phase' = "send"
        /\ UNCHANGED <<mode, has, pc, verdict, cause, cleanups, named, alive, veth,
                       tcpdump, seen, copied, waiter, sent, captured>>

\* A datagram crosses the underlay, where a tcpdump that listens prints it, or
\* is lost.
Send ==
  /\ phase = "send" /\ sent < Times
  /\ sent' = sent + 1
  /\ \/ seen' = seen
     \/ tcpdump = "listening" /\ seen < Count /\ seen' = seen + 1
  /\ UNCHANGED <<mode, has, pc, phase, verdict, cause, cleanups, named, alive, veth,
                 tcpdump, copied, waiter, captured>>

SendFails ==
  /\ phase = "send"
  /\ Ends("fatal", "other")
  /\ UNCHANGED captured

----------------------------------------------------------------------------
\* Wait starts the goroutine and selects.
StartWait ==
  /\ phase = "send" /\ sent = Times
  /\ phase' = "select"
  /\ waiter' = "waiting"
  /\ UNCHANGED <<mode, has, pc, verdict, cause, cleanups, named, alive, veth,
                 tcpdump, seen, copied, sent, captured>>

\* cmd.Wait returns when the process is gone and its output is copied; then the
\* channel is closed.
WaiterDone ==
  /\ waiter = "waiting"
  /\ tcpdump = "exited" /\ copied = seen
  /\ waiter' = "done"
  /\ UNCHANGED <<mode, has, pc, phase, verdict, cause, cleanups, named, alive, veth,
                 tcpdump, seen, copied, sent, captured>>

\* Faulty: the process is left to end by itself.
TimeoutWithoutKill ==
  /\ phase = "select"
  /\ phase' = "killed"
  /\ UNCHANGED <<mode, has, pc, verdict, cause, cleanups, named, alive, veth,
                 tcpdump, seen, copied, waiter, sent, captured>>

\* The timer of the select fires first.
Timeout ==
  /\ phase = "select"
  /\ phase' = "killed"
  /\ tcpdump' = "exited"
  /\ UNCHANGED <<mode, has, pc, verdict, cause, cleanups, named, alive, veth,
                 seen, copied, waiter, sent, captured>>

\* c.buf.String(), and what the test makes of it: nothing captured is fatal, a
\* fact that is missing an error.
ReadBuffer ==
  /\ captured' = copied
  /\ IF copied = 0 THEN Ends("fatal", "other")
                   ELSE \E v \in {"passed", "failed"} : Ends(v, "")

\* Faulty: after the kill the buffer is read at once.
WaitReturnsAtOnce ==
  /\ phase = "killed" \/ (phase = "select" /\ waiter = "done")
  /\ ReadBuffer

\* <-done, in the select or after the kill.
WaitReturns ==
  /\ phase \in {"select", "killed"} /\ waiter = "done"
  /\ ReadBuffer

\* testing runs the cleanups, the last one first.  Deleting a link that is not
\* on the host fails, and the error is ignored.
Cleanup ==
  /\ phase = "cleanup" /\ cleanups # << >>
  /\ cleanups' = Front(cleanups)
  /\ LET c == Last(cleanups)
     IN /\ named' = named \ {c}
        /\ veth' = IF c = "ta" /\ veth.ta = "host" THEN Nowhere ELSE veth
  /\ UNCHANGED <<mode, has, pc, phase, verdict, cause, alive, tcpdump, seen,
                 copied, waiter, sent, captured>>

----------------------------------------------------------------------------
\* The other parties.

\* The socket is attached; or the device is not there, or goes away.
Attach ==
  /\ tcpdump = "starting" /\ veth.tb = "B"
  /\ tcpdump' = "listening"
  /\ UNCHANGED <<mode, has, pc, phase, verdict, cause, cleanups, named, alive, veth,
                 seen, copied, waiter, sent, captured>>

TcpdumpExits ==
  /\ tcpdump \in {"starting", "listening"}
  /\ veth.tb # "B" \/ seen = Count
  /\ tcpdump' = "exited"
  /\ UNCHANGED <<mode, has, pc, phase, verdict, cause, cleanups, named, alive, veth,
                 seen, copied, waiter, sent, captured>>

\* os/exec copies what was printed.
CopyOutput ==
  /\ copied < seen
  /\ copied' = copied + 1
  /\ UNCHANGED <<mode, has, pc, phase, verdict, cause, cleanups, named, alive, veth,
                 tcpdump, seen, waiter, sent, captured>>

\* A namespace goes when no name and no process holds it; a veth end that is in
\* it takes its peer along.
Held(ns) == ns \in named \/ (ns = "B" /\ tcpdump \in {"starting", "listening"})

DestroyNamespace(ns) ==
  /\ ns \in alive /\ ~Held(ns)
  /\ alive' = alive \ {ns}
  /\ veth' = IF ns \in {veth.ta, veth.tb} THEN Nowhere ELSE veth
  /\ UNCHANGED <<mode, has, pc, phase, verdict, cause, cleanups, named, tcpdump,
                 seen, copied, waiter, sent, captured>>

TestStep ==
  \/ StepFails \/ RunStep \/ MakeNamespace \/ MakeVeth \/ MakeVethInside \/ MoveVeth
  \/ StartTcpdump \/ SetupDone \/ Send \/ SendFails \/ StartWait \/ Timeout
  \/ WaitReturns \/ Cleanup

NothingLeft ==
  /\ phase = "cleanup" /\ cleanups = << >>
  /\ alive = {} /\ veth = Nowhere
  /\ tcpdump \in {"off", "exited"} /\ copied = seen

Done == NothingLeft /\ UNCHANGED vars

KernelStep == \E ns \in {"A", "B"} : DestroyNamespace(ns)

Next ==
  \/ TestStep \/ WaiterDone \/ Attach \/ TcpdumpExits \/ CopyOutput \/ KernelStep
  \/ Done

\* The test's goroutine runs whenever it can, its timer and that of the sleeping
\* shell included; so do the waiting goroutine, the copying of output and the
\* kernel.  tcpdump need not attach, but it ends when it must.
Spec ==
  /\ Init /\ [][Next]_vars
  /\ WF_vars(TestStep) /\ WF_vars(WaiterDone) /\ WF_vars(TcpdumpExits)
  /\ WF_vars(CopyOutput) /\ WF_vars(KernelStep)

----------------------------------------------------------------------------
TypeOK ==
  /\ named \subseteq alive /\ alive \subseteq {"A", "B"}
  /\ \A e \in {"ta", "tb"} : veth[e] \in {"none", "host"} \cup alive
  /\ copied \in 0..seen /\ seen \in 0..Count
  /\ waiter \in {"none", "waiting", "done"}
  /\ captured \in {NotRead} \cup 0..Count

\* nettest.go:236 "Wait stops the capture and returns what it saw": when the
\* buffer is read, tcpdump is gone and nothing it printed is still on the way,
\* so a line cannot be missing, nor the buffer written while it is read.
WholeCaptureRead ==
  captured # NotRead => tcpdump = "exited" /\ copied = seen /\ captured = seen

\* nettest.go:39 "NS is a network namespace that is deleted when the test ends":
\* wherever the test stops, with the veth ends on the host or moved, and with
\* tcpdump left running in a namespace, in the end nothing of it is left.
CleanedUp == <>[]NothingLeft

\* nettest.go:39 again, at every moment: whatever the test has made and still
\* exists has somebody who will remove it.  A namespace that has a name has its
\* deletion pending; so has a veth pair whose first end is on the host; and a
\* pair that was moved goes with the namespace of its first end.
Owned ==
  /\ named \subseteq ToSet(cleanups)
  /\ veth.ta = "host" => "ta" \in ToSet(cleanups)
  /\ veth # Nowhere => veth.ta \in {"host"} \cup alive

\* Wait returns: a capture that sees too few packets is killed.
WaitEnds == phase = "select" ~> captured # NotRead

\* nettest.go:11 "the tests skip rather than fail when the environment cannot
\* support them": a missing feature is fatal only to New, which makes its veth
\* pair with MustRun, and where the probe said nothing about the device kind.
Guarded ==
  verdict = "fatal" /\ cause = "environment" =>
    \/ "veth" \notin has /\ mode = "single"
    \/ "kind" \notin has /\ "probe" \notin has

============================================================================
