--------------------------- MODULE ReadingsProofs ---------------------------
(* Proofs about `Readings': what `pktc lower' prints for a file runs, line  *)
(* by line, on a fresh machine, and what its devices write on the underlay  *)
(* is what package wire predicts.                                           *)
EXTENDS Readings, AccountProofs

----------------------------------------------------------------------------
\* A script that runs without an error.

\* Machines, each of which the next command makes of the one before.
Trace(a, mc, s, n) ==
  /\ a = [j \in 0..n |-> a[j]]
  /\ a[0] = mc
  /\ \A j \in 1..n : a[j - 1].error = "" /\ Exec(a[j - 1], s[j]) = a[j]

\* RunScript ends in the last of them.
LEMMA RunIsTrace ==
  ASSUME NEW mc, NEW s, NEW a, NEW n \in Nat, n = Len(s), Trace(a, mc, s, n)
  PROVE  RunScript(mc, s) = a[n]
<1> DEFINE Turn(g, j) == IF j = 0 THEN mc
                         ELSE IF g[j - 1].error = "" THEN Exec(g[j - 1], s[j])
                         ELSE g[j - 1]
           Is(g) == g = [j \in 0..n |-> Turn(g, j)]
           f == CHOOSE g : Is(g)
<1>1. RunScript(mc, s) = f[n]
  BY DEF RunScript
<1>2. ASSUME NEW j \in 0..n PROVE a[j] = Turn(a, j)
  <2>1. CASE j = 0
    BY <2>1 DEF Trace
  <2>2. CASE j # 0
    <3>1. j \in 1..n
      BY <2>2
    <3>2. a[j - 1].error = "" /\ Exec(a[j - 1], s[j]) = a[j]
      BY <3>1 DEF Trace
    <3> QED BY <2>2, <3>2, Zenon
  <2> QED BY <2>1, <2>2
<1>3. Is(a)
  <2> HIDE DEF Turn
  <2>1. [j \in 0..n |-> a[j]] = [j \in 0..n |-> Turn(a, j)]
    BY <1>2, Zenon
  <2> QED BY <2>1 DEF Trace
<1>4. Is(f)
  <2> HIDE DEF Is
  <2> QED BY <1>3
<1> HIDE DEF f
<1>5. ASSUME NEW j \in 0..n PROVE f[j] = Turn(f, j)
  <2>1. f = [i \in 0..n |-> Turn(f, i)]
    BY <1>4
  <2> HIDE DEF Turn
  <2>2. [i \in 0..n |-> Turn(f, i)][j] = Turn(f, j)
    OBVIOUS
  <2> QED BY <2>1, <2>2, Zenon
<1>6. f[0] = a[0]
  <2>1. 0 \in 0..n
    OBVIOUS
  <2> QED BY <1>2, <1>5, <2>1, Zenon
<1>7. f[n] = a[n]
  <2> DEFINE T == {j \in 1..n : f[j] = a[j]}
  <2>1. ASSUME NEW j \in 1..n, f[j - 1] = a[j - 1] PROVE f[j] = a[j]
    <3>1. j \in 0..n /\ j # 0
      OBVIOUS
    <3>2. f[j] = Turn(f, j) /\ a[j] = Turn(a, j)
      BY <1>2, <1>5, <3>1, Zenon
    <3>3. Turn(f, j) = Turn(a, j)
      BY <2>1, <3>1, Zenon
    <3> HIDE DEF Turn
    <3> QED BY <3>2, <3>3, Zenon
  <2>2. CASE n = 0
    BY <1>6, <2>2
  <2>3. CASE n # 0
    <3>1. 1 \in T
      <4>1. 1 \in 1..n /\ 1 - 1 = 0
        BY <2>3
      <4>2. f[1] = a[1]
        BY <1>6, <2>1, <4>1
      <4> QED BY <4>1, <4>2
    <3>2. ASSUME NEW j \in 2..n, j - 1 \in T PROVE j \in T
      <4>1. j \in 1..n /\ f[j - 1] = a[j - 1]
        BY <3>2
      <4>2. f[j] = a[j]
        BY <2>1, <4>1, Zenon
      <4> QED BY <4>1, <4>2
    <3> HIDE DEF T
    <3>3. n \in T
      <4>1. n \in 1..n
        BY <2>3
      <4> QED BY <3>1, <3>2, <4>1, UpFromOne
    <3> QED BY <3>3 DEF T
  <2> QED BY <2>2, <2>3
<1> QED BY <1>1, <1>7

----------------------------------------------------------------------------
\* What the machine is after the first j commands, if none of them fails.
Done(s, j, op) == {s[l] : l \in {m \in 1..j : s[m].op = op}}

\* The sockets asked for by the first j commands.
Wanted(s, j) == UNION {Asks(s[l]) : l \in 1..j}

Healthy(links, addrs, sockets, up) ==
  [links |-> links, addrs |-> addrs, sockets |-> sockets, up |-> up, error |-> ""]

After(s, j) ==
  Healthy({Link("physical", Root, NoDev, NoProps)} \cup Done(s, j, "link"),
          Done(s, j, "addr"),
          Wanted(s, j),
          {Root} \cup {c.dev : c \in Done(s, j, "up")})

\* What has to be there for a command to run, as far as the printed text says.
CanLink(s, j) ==
  /\ s[j].type # "physical"
  /\ s[j].dev \notin Made(s, j)
  /\ s[j].parent = NoDev \/ s[j].parent \in Made(s, j)

CanUp(s, j) ==
  /\ s[j].dev \in Made(s, j)
  /\ \A l \in Before(s, j) :
       s[l].dev = s[j].dev /\ s[l].type = "vlan" =>
         \/ s[l].parent = Root
         \/ \E k \in Ups(s) : k < j /\ s[k].dev = s[l].parent

CanWg(s, j) == \E l \in Before(s, j) : s[l].dev = s[j].dev /\ s[l].type = "wireguard"

Runnable(s) ==
  \A j \in 1..Len(s) :
    /\ s[j].op \in {"link", "addr", "wg", "up"}
    /\ s[j].op = "link" => CanLink(s, j)
    /\ s[j].op = "addr" => s[j].dev \in Made(s, j)
    /\ s[j].op = "wg"   => CanWg(s, j)
    /\ s[j].op = "up"   => CanUp(s, j)

\* One more command is done.
LEMMA OneMoreDone ==
  ASSUME NEW s, NEW j \in Nat \ {0}, NEW op
  PROVE  Done(s, j, op) = IF s[j].op = op THEN Done(s, j - 1, op) \cup {s[j]}
                                          ELSE Done(s, j - 1, op)
<1>1. \A m : m \in 1..j <=> m \in 1..(j - 1) \/ m = j
  OBVIOUS
<1> QED BY <1>1 DEF Done

\* One more command has asked.
LEMMA OneMoreWanted ==
  ASSUME NEW s, NEW j \in Nat \ {0}
  PROVE  Wanted(s, j) = Wanted(s, j - 1) \cup Asks(s[j])
<1>1. \A m : m \in 1..j <=> m \in 1..(j - 1) \/ m = j
  OBVIOUS
<1>2. ASSUME NEW e PROVE e \in Wanted(s, j) <=> e \in Wanted(s, j - 1) \/ e \in Asks(s[j])
  <2>1. e \in Wanted(s, j) <=> \E l \in 1..j : e \in Asks(s[l])
    BY Zenon DEF Wanted
  <2>2. e \in Wanted(s, j - 1) <=> \E l \in 1..(j - 1) : e \in Asks(s[l])
    BY Zenon DEF Wanted
  <2> QED BY <1>1, <2>1, <2>2, Zenon
<1> QED BY <1>2, Zenon

\* The links done so far.
LEMMA LinksDone ==
  ASSUME NEW s, Len(s) \in Nat, NEW j \in 1..Len(s)
  PROVE  Done(s, j - 1, "link") = {s[l] : l \in Before(s, j)}
<1>1. {m \in 1..(j - 1) : s[m].op = "link"} = Before(s, j)
  BY DEF Before, Links
<1> QED BY <1>1 DEF Done

\* A machine has five fields, ...
FieldsAre(m, l, a, k, u) ==
  /\ m.links = l /\ m.addrs = a /\ m.sockets = k /\ m.up = u /\ m.error = ""
  /\ DOMAIN m = {"links", "addrs", "sockets", "up", "error"}
  /\ m = [f \in DOMAIN m |-> m[f]]

\* ... each with its value, ...
LEMMA HealthyFields ==
  ASSUME NEW l, NEW a, NEW k, NEW u
  PROVE  FieldsAre(Healthy(l, a, k, u), l, a, k, u)
BY DEF Healthy, FieldsAre

\* ... that say all of it.
LEMMA HealthyIs ==
  ASSUME NEW m, NEW l, NEW a, NEW k, NEW u, FieldsAre(m, l, a, k, u)
  PROVE  m = Healthy(l, a, k, u)
<1> DEFINE h == Healthy(l, a, k, u)
<1>1. FieldsAre(h, l, a, k, u)
  BY HealthyFields
<1> HIDE DEF h
<1>2. \A f \in DOMAIN m : m[f] = h[f]
  BY <1>1 DEF FieldsAre
<1>3. m = h
  BY <1>1, <1>2, Zenon DEF FieldsAre
<1> QED BY <1>3 DEF h

\* A command that has what it needs runs, unless it asks for too much.
LEMMA CommandRuns ==
  ASSUME NEW s, Len(s) \in Nat, Runnable(s), ~AsksTooMuch(s), NEW j \in 1..Len(s)
  PROVE  Exec(After(s, j - 1), s[j]) = After(s, j)
<1> DEFINE c  == s[j]
           mc == After(s, j - 1)
           ph == Link("physical", Root, NoDev, NoProps)
<1>1. ~Refused(c) /\ \A l \in 1..(j - 1) : ~AtOdds(s[l], c)
  BY DEF AsksTooMuch
<1> DEFINE A == {ph} \cup Done(s, j - 1, "link")
           B == Done(s, j - 1, "addr")
           W == Wanted(s, j - 1)
           U == {Root} \cup {e.dev : e \in Done(s, j - 1, "up")}
<1>2. mc = Healthy(A, B, W, U)
  BY DEF After
<1>3. FieldsAre(mc, A, B, W, U)
  <2> HIDE DEF mc, A, B, W, U
  <2> QED BY <1>2, HealthyFields
<1>4. mc.links = A /\ mc.addrs = B /\ mc.sockets = W /\ mc.up = U
  BY <1>3 DEF FieldsAre
<1>5. ASSUME NEW x
      PROVE  [mc EXCEPT !.addrs = x] = Healthy(A, x, W, U)
  <2> HIDE DEF mc, A, B, W, U
  <2> DEFINE r == [mc EXCEPT !.addrs = x]
  <2>1. FieldsAre(r, A, x, W, U)
    BY <1>3 DEF FieldsAre
  <2> HIDE DEF r
  <2>2. r = Healthy(A, x, W, U)
    BY <2>1, HealthyIs
  <2> QED BY <2>2 DEF r
<1>6. ASSUME NEW x
      PROVE  [mc EXCEPT !.sockets = x] = Healthy(A, B, x, U)
  <2> HIDE DEF mc, A, B, W, U
  <2> DEFINE r == [mc EXCEPT !.sockets = x]
  <2>1. FieldsAre(r, A, B, x, U)
    BY <1>3 DEF FieldsAre
  <2> HIDE DEF r
  <2>2. r = Healthy(A, B, x, U)
    BY <2>1, HealthyIs
  <2> QED BY <2>2 DEF r
<1>7. ASSUME NEW x
      PROVE  [mc EXCEPT !.up = x] = Healthy(A, B, W, x)
  <2> HIDE DEF mc, A, B, W, U
  <2> DEFINE r == [mc EXCEPT !.up = x]
  <2>1. FieldsAre(r, A, B, W, x)
    BY <1>3 DEF FieldsAre
  <2> HIDE DEF r
  <2>2. r = Healthy(A, B, W, x)
    BY <2>1, HealthyIs
  <2> QED BY <2>2 DEF r
<1>8. ASSUME NEW x, NEW y
      PROVE  [mc EXCEPT !.links = x, !.sockets = y] = Healthy(x, B, y, U)
  <2> HIDE DEF mc, A, B, W, U
  <2> DEFINE r == [mc EXCEPT !.links = x, !.sockets = y]
  <2>1. FieldsAre(r, x, B, y, U)
    BY <1>3 DEF FieldsAre
  <2> HIDE DEF r
  <2>2. r = Healthy(x, B, y, U)
    BY <2>1, HealthyIs
  <2> QED BY <2>2 DEF r
<1>9. mc.links = {ph} \cup {s[l] : l \in Before(s, j)}
  BY <1>4, LinksDone
<1>10. Before(s, j) \subseteq 1..(j - 1) /\ \A l \in Before(s, j) : s[l].op = "link"
  BY DEF Before, Links
<1>11. ph.dev = Root /\ ph.type = "physical"
  BY DEF Link
<1>12. ASSUME NEW d PROVE Device(mc, d) # {} <=> d \in Made(s, j)
  BY <1>9, <1>11 DEF Device, Made
<1>13. /\ Done(s, j, "link") = IF c.op = "link" THEN Done(s, j - 1, "link") \cup {c}
                                                ELSE Done(s, j - 1, "link")
       /\ Done(s, j, "addr") = IF c.op = "addr" THEN Done(s, j - 1, "addr") \cup {c}
                                                ELSE Done(s, j - 1, "addr")
       /\ Done(s, j, "up") = IF c.op = "up" THEN Done(s, j - 1, "up") \cup {c}
                                            ELSE Done(s, j - 1, "up")
  <2>1. j \in Nat \ {0}
    OBVIOUS
  <2> QED BY <2>1, OneMoreDone DEF c
<1>14. Wanted(s, j) = W \cup Asks(c)
  BY OneMoreWanted
<1>15. c.op \in {"addr", "up"} => Asks(c) = {}
  BY DEF Asks
<1>16. /\ c.op \in {"link", "addr", "wg", "up"}
       /\ c.op = "link" => CanLink(s, j)
       /\ c.op = "addr" => c.dev \in Made(s, j)
       /\ c.op = "wg"   => CanWg(s, j)
       /\ c.op = "up"   => CanUp(s, j)
  BY DEF Runnable
<1> HIDE DEF c
<1>17. CASE c.op = "link"
  <2>1. Device(mc, c.dev) = {}
    BY <1>12, <1>16, <1>17 DEF CanLink, c
  <2>2. c.parent = NoDev \/ Device(mc, c.parent) # {}
    BY <1>12, <1>16, <1>17 DEF CanLink, c
  <2>3. ASSUME NEW l \in mc.links, SameTunnel(l, c)
        PROVE  FALSE
    <3>1. CASE l = ph
      BY <1>11, <1>16, <1>17, <2>3, <3>1 DEF CanLink, SameTunnel, c
    <3>2. CASE l # ph
      <4>1. PICK i \in Before(s, j) : l = s[i]
        BY <1>9, <3>2
      <4>2. ~AtOdds(s[i], c) /\ s[i].op = "link"
        BY <1>1, <1>10
      <4> QED BY <1>17, <2>3, <4>1, <4>2 DEF AtOdds
    <3> QED BY <3>1, <3>2
  <2> HIDE DEF mc
  <2>4. Exec(mc, c) = [mc EXCEPT !.links = mc.links \cup {c},
                                 !.sockets = mc.sockets \cup Asks(c)]
    BY <1>1, <1>17, <2>1, <2>2, <2>3 DEF Exec, AddLink
  <2>5. /\ Done(s, j, "link") = Done(s, j - 1, "link") \cup {c}
        /\ Done(s, j, "addr") = Done(s, j - 1, "addr")
        /\ Done(s, j, "up") = Done(s, j - 1, "up")
    BY <1>13, <1>17
  <2>6. Exec(mc, c) = Healthy(mc.links \cup {c}, B, mc.sockets \cup Asks(c), U)
    BY <1>8, <2>4
  <2>7. Healthy(mc.links \cup {c}, B, mc.sockets \cup Asks(c), U) = After(s, j)
    <3>1. mc.links \cup {c} = {ph} \cup Done(s, j, "link")
      BY <1>4, <2>5
    <3>2. mc.sockets \cup Asks(c) = Wanted(s, j)
      BY <1>4, <1>14
    <3> QED BY <2>5, <3>1, <3>2 DEF After
  <2> QED BY <2>6, <2>7 DEF c, mc
<1>18. CASE c.op = "addr"
  <2>1. Device(mc, c.dev) # {}
    BY <1>12, <1>16, <1>18
  <2>2. ~ \E a \in mc.addrs : SameAddress(a, c)
    <3> SUFFICES ASSUME NEW a \in Done(s, j - 1, "addr"), SameAddress(a, c) PROVE FALSE
      BY <1>4
    <3>1. PICK l \in 1..(j - 1) : s[l] = a /\ s[l].op = "addr"
      BY DEF Done
    <3> QED BY <1>1, <1>18, <3>1 DEF AtOdds
  <2> HIDE DEF mc
  <2>4. Exec(mc, c) = [mc EXCEPT !.addrs = mc.addrs \cup {c}]
    BY <1>1, <1>18, <2>1, <2>2 DEF Exec, AddAddress
  <2>5. /\ Done(s, j, "link") = Done(s, j - 1, "link")
        /\ Done(s, j, "addr") = Done(s, j - 1, "addr") \cup {c}
        /\ Done(s, j, "up") = Done(s, j - 1, "up")
    BY <1>13, <1>18
  <2>6. [mc EXCEPT !.addrs = mc.addrs \cup {c}] = Healthy(A, mc.addrs \cup {c}, W, U)
    BY <1>5
  <2>7. Healthy(A, mc.addrs \cup {c}, W, U) = After(s, j)
    <3>1. W = Wanted(s, j)
      BY <1>18, <1>14, <1>15
    <3> QED BY <1>4, <2>5, <3>1 DEF After
  <2> QED BY <2>4, <2>6, <2>7 DEF c, mc
<1>19. CASE c.op = "wg"
  <2>1. \E l \in Device(mc, c.dev) : l.type = "wireguard"
    BY <1>9, <1>16, <1>19 DEF CanWg, Device, c
  <2> HIDE DEF mc
  <2>4. Exec(mc, c) = [mc EXCEPT !.sockets = mc.sockets \cup Asks(c)]
    BY <1>19, <2>1 DEF Exec, SetWireGuard
  <2>5. /\ Done(s, j, "link") = Done(s, j - 1, "link")
        /\ Done(s, j, "addr") = Done(s, j - 1, "addr")
        /\ Done(s, j, "up") = Done(s, j - 1, "up")
    BY <1>13, <1>19
  <2>6. Exec(mc, c) = Healthy(A, B, mc.sockets \cup Asks(c), U)
    BY <1>6, <2>4
  <2>7. Healthy(A, B, mc.sockets \cup Asks(c), U) = After(s, j)
    BY <1>4, <1>14, <2>5 DEF After
  <2> QED BY <2>6, <2>7 DEF mc, c
<1>20. CASE c.op = "up"
  <2>1. Device(mc, c.dev) # {}
    BY <1>12, <1>16, <1>20 DEF CanUp, c
  <2>2. ASSUME NEW l \in Device(mc, c.dev), l.type = "vlan"
        PROVE  l.parent \in mc.up
    <3>1. l \in mc.links /\ l.dev = c.dev /\ l # ph
      BY <1>11, <2>2 DEF Device
    <3>2. PICK i \in Before(s, j) : l = s[i]
      BY <1>9, <3>1
    <3>3. \/ l.parent = Root
          \/ \E k \in Ups(s) : k < j /\ s[k].dev = l.parent
      BY <1>16, <1>20, <2>2, <3>1, <3>2 DEF CanUp, c
    <3>4. CASE l.parent = Root
      BY <1>4, <3>4
    <3>5. ASSUME NEW k \in Ups(s), k < j, s[k].dev = l.parent
          PROVE  l.parent \in mc.up
      <4>1. k \in 1..(j - 1) /\ s[k].op = "up"
        BY <3>5 DEF Ups
      <4>2. s[k] \in Done(s, j - 1, "up")
        BY <4>1 DEF Done
      <4> QED BY <1>4, <3>5, <4>2
    <3> QED BY <3>3, <3>4, <3>5
  <2>8. ASSUME NEW x \in mc.sockets, NEW y \in mc.sockets, Clash(x, y)
        PROVE  FALSE
    <3>1. PICK i \in 1..(j - 1) : x \in Asks(s[i])
      BY <1>4 DEF Wanted
    <3>2. PICK k \in 1..(j - 1) : y \in Asks(s[k])
      BY <1>4 DEF Wanted
    <3>3. x.dev = s[i].dev /\ y.dev = s[k].dev /\ x.dev # y.dev
      BY <2>8, <3>1, <3>2 DEF Asks, Clash
    <3>4. Clash(y, x)
      BY <2>8 DEF Clash
    <3>5. i < k \/ k < i
      BY <3>3
    <3>6. \A p \in 1..Len(s) : \A q \in 1..(p - 1) : ~AtOdds(s[q], s[p])
      BY DEF AsksTooMuch
    <3>7. CASE i < k
      <4>1. k \in 1..Len(s) /\ i \in 1..(k - 1)
        BY <3>7
      <4> QED BY <2>8, <3>1, <3>2, <3>6, <4>1 DEF AtOdds
    <3>8. CASE k < i
      <4>1. i \in 1..Len(s) /\ k \in 1..(i - 1)
        BY <3>8
      <4> QED BY <3>1, <3>2, <3>4, <3>6, <4>1 DEF AtOdds
    <3> QED BY <3>5, <3>7, <3>8
  <2> DEFINE more == mc.up \cup {c.dev}
  <2>3. mc.up = {Root} \cup {e.dev : e \in Done(s, j - 1, "up")}
    BY <1>4
  <2>4. Exec(mc, c) = [mc EXCEPT !.up = more]
    <3> HIDE DEF mc
    <3> QED BY <1>20, <2>1, <2>2, <2>8 DEF Exec, BringDeviceUp
  <2>5. /\ Done(s, j, "link") = Done(s, j - 1, "link")
        /\ Done(s, j, "addr") = Done(s, j - 1, "addr")
        /\ Done(s, j, "up") = Done(s, j - 1, "up") \cup {c}
    BY <1>13, <1>20
  <2>6. more = {Root} \cup {e.dev : e \in Done(s, j, "up")}
    BY <2>3, <2>5
  <2> HIDE DEF more
  <2>7. [mc EXCEPT !.up = more] = After(s, j)
    <3>1. W = Wanted(s, j)
      BY <1>20, <1>14, <1>15
    <3> QED BY <1>7, <2>5, <2>6, <3>1 DEF After
  <2> QED BY <2>4, <2>7 DEF c
<1> QED BY <1>16, <1>17, <1>18, <1>19, <1>20

\* The whole script runs: RunScript ends with everything done.
LEMMA ScriptReaches ==
  ASSUME NEW s, Len(s) \in Nat, Runnable(s), ~AsksTooMuch(s)
  PROVE  RunScript(Fresh(Root), s) = After(s, Len(s))
<1> PICK n \in Nat : n = Len(s)
  OBVIOUS
<1> DEFINE a == [j \in 0..n |-> After(s, j)]
<1>1. a[0] = Fresh(Root)
  <2>1. ASSUME NEW op PROVE Done(s, 0, op) = {}
    BY DEF Done
  <2>2. {c.dev : c \in Done(s, 0, "up")} = {}
    BY <2>1
  <2>3. /\ {Link("physical", Root, NoDev, NoProps)} \cup {}
             = {Link("physical", Root, NoDev, NoProps)}
        /\ {Root} \cup {} = {Root}
    OBVIOUS
  <2>5. Wanted(s, 0) = {}
    BY DEF Wanted
  <2>4. After(s, 0) = Fresh(Root)
    BY <2>1, <2>2, <2>3, <2>5, Zenon DEF After, Healthy, Fresh
  <2> QED BY <2>4
<1>2. ASSUME NEW j \in 1..n
      PROVE  a[j - 1].error = "" /\ Exec(a[j - 1], s[j]) = a[j]
  <2>1. a[j - 1] = After(s, j - 1) /\ a[j] = After(s, j)
    OBVIOUS
  <2>2. After(s, j - 1).error = ""
    BY DEF After, Healthy
  <2>3. Exec(After(s, j - 1), s[j]) = After(s, j)
    BY CommandRuns
  <2> HIDE DEF a
  <2> QED BY <2>1, <2>2, <2>3
<1>3. a = [j \in 0..n |-> a[j]]
  OBVIOUS
<1>4. a[n] = After(s, n)
  OBVIOUS
<1> HIDE DEF a
<1>5. Trace(a, Fresh(Root), s, n)
  BY <1>1, <1>2, <1>3 DEF Trace
<1> QED BY <1>4, <1>5, RunIsTrace

\* What a single command places.
LEMMA PlacedByCommand ==
  ASSUME NEW c
  PROVE  Len(PlacedBy(<<c>>)) = IF c.op = "addr" THEN 1 ELSE 0
<1> DEFINE w == PlacedByOne(c)
           p == [j \in 1..Len(<<c>>) |-> PlacedByOne(<<c>>[j])]
           V == {Prefix(c.addr, c.bits)}
<1>1. p = <<w>>
  OBVIOUS
<1>2. w \in Seq(V) /\ Len(w) = IF c.op = "addr" THEN 1 ELSE 0
  <2> DEFINE v == Prefix(c.addr, c.bits)
  <2> HIDE DEF v
  <2>1. /\ <<v>> \in Seq({v}) /\ << >> \in Seq({v})
        /\ Len(<<v>>) = 1 /\ Len(<< >>) = 0
    OBVIOUS
  <2>2. w = (IF c.op = "addr" THEN <<v>> ELSE << >>) /\ V = {v}
    BY Zenon DEF PlacedByOne, v
  <2> HIDE DEF w, V
  <2>3. CASE c.op = "addr"
    <3>1. w = <<v>> /\ V = {v}
      BY <2>2, <2>3
    <3>2. w \in Seq(V) /\ Len(w) = 1
      BY <2>1, <3>1, Zenon
    <3> QED BY <2>3, <3>2
  <2>4. CASE c.op # "addr"
    <3>1. w = << >> /\ V = {v}
      BY <2>2, <2>4
    <3>2. w \in Seq(V) /\ Len(w) = 0
      BY <2>1, <3>1, Zenon
    <3> QED BY <2>4, <3>2
  <2> QED BY <2>3, <2>4
<1>3. FlattenSeq(<<w>>) = w
  <2> HIDE DEF w, V
  <2>1. <<w>> \in Seq(Seq(V)) /\ <<w>> # << >> /\ Len(<<w>>) = 1 /\ <<w>>[1] = w
    BY <1>2
  <2>2. PICK f : Steps(<<w>>, f)
    BY <2>1, FlattenSteps
  <2> QED BY <2>1, <2>2 DEF Steps
<1>4. PlacedBy(<<c>>) = w
  <2> HIDE DEF w
  <2> QED BY <1>1, <1>3 DEF PlacedBy
<1> HIDE DEF w
<1> QED BY <1>2, <1>4

\* Where none is placed twice, there are as many as commands that place one.
LEMMA AddressesCounted ==
  ASSUME NEW s, IsSeq(s), ~AsksTooMuch(s)
  PROVE  Cardinality(Done(s, Len(s), "addr")) = Len(PlacedBy(s))
<1> PICK n \in Nat : n = Len(s)
  BY DEF IsSeq
<1> DEFINE A(j) == Done(s, j, "addr")
           P(j) == PlacedBy(SubSeq(s, 1, j))
           Good(j) == IsFiniteSet(A(j)) /\ Cardinality(A(j)) = Len(P(j)) /\ Len(P(j)) \in Nat
<1>1. Good(0)
  <2>1. A(0) = {}
    BY DEF Done
  <2>2. SubSeq(s, 1, 0) = << >>
    OBVIOUS
  <2>3. PlacedBy(<< >>) = << >>
    BY NothingPlaced
  <2>4. Cardinality(A(0)) = 0 /\ IsFiniteSet(A(0))
    <3> HIDE DEF A
    <3> QED BY <2>1, FS_EmptySet
  <2>5. P(0) = << >>
    BY <2>2, <2>3, Zenon
  <2> HIDE DEF A, P
  <2> QED BY <2>4, <2>5
<1>2. ASSUME NEW j \in 1..n, Good(j - 1) PROVE Good(j)
  <2> DEFINE t == SubSeq(s, 1, j - 1)
             c == s[j]
  <2>1. IsSeq(t) /\ IsSeq(<<c>>) /\ SubSeq(s, 1, j) = t \o <<c>>
    <3>1. j - 1 \in Nat /\ j \in Nat /\ j - 1 <= j /\ j <= Len(s) /\ (j - 1) + 1 = j
      OBVIOUS
    <3>2. CutAt(s, j - 1, j)
      BY <3>1, CutLayers, Zenon
    <3>3. IsSeq(t) /\ t \o SubSeq(s, (j - 1) + 1, j) = SubSeq(s, 1, j)
      BY <3>2, Zenon DEF CutAt
    <3>4. SubSeq(s, (j - 1) + 1, j) = <<c>>
      <4> DEFINE S == {s[l] : l \in 1..Len(s)}
      <4>1. s \in Seq(S)
        BY DEF IsSeq
      <4> HIDE DEF S
      <4> DEFINE w == SubSeq(s, (j - 1) + 1, j)
      <4>2. w \in Seq(S) /\ Len(w) = 1 /\ w[1] = s[j]
        BY <3>1, <4>1
      <4> HIDE DEF w
      <4>3. w = <<w[1]>>
        BY <4>2
      <4> QED BY <4>2, <4>3 DEF w
    <3>5. IsSeq(<<c>>)
      <4>1. <<c>> \in Seq({c})
        OBVIOUS
      <4> QED BY <4>1, SeqIsSeq
    <3> QED BY <3>3, <3>4, <3>5, Zenon
  <2>2. P(j) = P(j - 1) \o PlacedBy(<<c>>)
    <3> HIDE DEF t, c
    <3>1. PlacedBy(t \o <<c>>) = PlacedBy(t) \o PlacedBy(<<c>>)
      BY <2>1, PlacedConcat
    <3> QED BY <2>1, <3>1 DEF t
  <2>3. Len(P(j)) = Len(P(j - 1)) + (IF c.op = "addr" THEN 1 ELSE 0)
    <3>1. IsSeq(PlacedBy(t)) /\ IsSeq(PlacedBy(<<c>>))
      BY <2>1, PlacedIsSeq
    <3>2. Len(PlacedBy(<<c>>)) = IF c.op = "addr" THEN 1 ELSE 0
      BY PlacedByCommand
    <3> DEFINE x == PlacedBy(t)
               y == PlacedBy(<<c>>)
    <3> HIDE DEF x, y, c
    <3>3. Len(x \o y) = Len(x) + Len(y)
      BY <3>1, ConcatIsSeq DEF x, y
    <3> QED BY <2>2, <3>2, <3>3 DEF x, y
  <2>4. A(j) = IF c.op = "addr" THEN A(j - 1) \cup {c} ELSE A(j - 1)
    <3>1. j \in Nat \ {0}
      OBVIOUS
    <3> QED BY <3>1, OneMoreDone
  <2>5. c.op = "addr" => c \notin A(j - 1)
    <3> SUFFICES ASSUME c.op = "addr", c \in A(j - 1) PROVE FALSE
      OBVIOUS
    <3>1. PICK l \in 1..(j - 1) : s[l] = c /\ s[l].op = "addr"
      BY DEF Done
    <3>2. AtOdds(s[l], s[j])
      BY <3>1 DEF AtOdds, SameAddress
    <3>3. j \in 1..Len(s)
      OBVIOUS
    <3> QED BY <3>2, <3>3, Zenon DEF AsksTooMuch
  <2> HIDE DEF A, P, c
  <2>6. CASE c.op = "addr"
    <3>1. /\ IsFiniteSet(A(j - 1) \cup {c})
          /\ Cardinality(A(j - 1) \cup {c}) = Cardinality(A(j - 1)) + 1
      BY <1>2, <2>5, <2>6, FS_AddElement
    <3> QED BY <1>2, <2>3, <2>4, <2>6, <3>1
  <2>7. CASE c.op # "addr"
    BY <1>2, <2>3, <2>4, <2>7
  <2> QED BY <2>6, <2>7
<1>3. Good(n)
  <2>1. CASE n = 0
    <3> HIDE DEF Good
    <3> QED BY <1>1, <2>1
  <2>2. CASE n # 0
    <3> DEFINE T == {j \in 1..n : Good(j)}
    <3> HIDE DEF Good
    <3>1. 1 \in T
      <4>1. 1 \in 1..n /\ 1 - 1 = 0
        BY <2>2
      <4> QED BY <1>1, <1>2, <4>1
    <3>2. ASSUME NEW j \in 2..n, j - 1 \in T PROVE j \in T
      <4>1. j \in 1..n /\ Good(j - 1)
        BY <3>2
      <4> QED BY <1>2, <4>1
    <3> HIDE DEF T
    <3>3. n \in T
      <4>1. n \in 1..n
        BY <2>2
      <4> QED BY <3>1, <3>2, <4>1, UpFromOne
    <3> QED BY <3>3 DEF T
  <2> QED BY <2>1, <2>2
<1>4. SubSeq(s, 1, n) = s
  <2>1. CutAt(s, n, n)
    <3>1. n <= n /\ n <= Len(s)
      OBVIOUS
    <3> QED BY <3>1, CutLayers, Zenon
  <2> QED BY <2>1, Zenon DEF CutAt
<1> QED BY <1>3, <1>4

----------------------------------------------------------------------------
\* One rule's script, and several.

\* What the chain of devices does not say: which commands there are, that a
\* VLAN has a device below it, and that WireGuard is set up on its own device.
KindAt(s, j) ==
  /\ s[j].op \in {"link", "addr", "wg", "up"}
  /\ s[j].op = "link" =>
       /\ s[j].type # "physical"
       /\ s[j].type = "vlan" => s[j].parent \in Made(s, j)
  /\ s[j].op = "wg" => CanWg(s, j)

Kinds(s) == \A j \in 1..Len(s) : KindAt(s, j)

\* No two links of a script make one device.
OwnNames(s) ==
  \A j \in Links(s) :
    s[j].dev # Root /\ \A l \in Links(s) : s[l].dev = s[j].dev => l = j

\* The devices made are the devices brought up.
AllUp(s) == {s[j].dev : j \in Ups(s)} = {s[l].dev : l \in Links(s)}

\* A rule's script has what it needs at every command.
LEMMA RuleRunnable ==
  ASSUME NEW s, Len(s) \in Nat, SoundScript(s), BroughtUp(s), Kinds(s), OwnNames(s)
  PROVE  Runnable(s) /\ AllUp(s)
<1>1. ASSUME NEW j \in 1..Len(s), s[j].op = "link" PROVE CanLink(s, j)
  <2>1. s[j].type # "physical"
    BY <1>1 DEF Kinds, KindAt
  <2>2. s[j].dev \notin Made(s, j)
    BY <1>1 DEF OwnNames, Made, Before, Links
  <2>3. s[j].parent = NoDev \/ s[j].parent \in Made(s, j)
    BY <1>1, StandingIsMade DEF SoundScript
  <2> QED BY <2>1, <2>2, <2>3 DEF CanLink
<1>2. ASSUME NEW j \in 1..Len(s), s[j].op = "up" PROVE CanUp(s, j)
  <2>1. s[j].dev \in Made(s, j)
    BY <1>2 DEF SoundScript
  <2>2. ASSUME NEW l \in Before(s, j), s[l].dev = s[j].dev, s[l].type = "vlan",
               s[l].parent # Root
        PROVE  \E k \in Ups(s) : k < j /\ s[k].dev = s[l].parent
    <3>1. l \in Links(s) /\ l < j /\ l \in 1..Len(s) /\ s[l].op = "link"
      BY DEF Before, Links
    <3>2. s[l].parent \in Made(s, l)
      BY <2>2, <3>1 DEF Kinds, KindAt
    <3>3. PICK m \in Links(s) : m < l /\ s[m].dev = s[l].parent
      BY <2>2, <3>2 DEF Made, Before
    <3>4. PICK k \in Ups(s) : s[k].dev = s[m].dev
      BY DEF BroughtUp
    <3>5. j \in Ups(s)
      BY <1>2 DEF Ups
    <3>6. k < j <=> m < l
      BY <2>2, <3>1, <3>4, <3>5 DEF BroughtUp
    <3> QED BY <3>3, <3>4, <3>6
  <2> QED BY <2>1, <2>2 DEF CanUp
<1>3. ASSUME NEW j \in 1..Len(s), s[j].op = "addr" PROVE s[j].dev \in Made(s, j)
  BY <1>3 DEF SoundScript
<1>4. AllUp(s)
  BY DEF AllUp, BroughtUp
<1> QED BY <1>1, <1>2, <1>3, <1>4 DEF Runnable, Kinds, KindAt

\* A device that a runnable script makes is not the physical one.
LEMMA NotTheRoot ==
  ASSUME NEW s, Runnable(s), NEW l \in Links(s)
  PROVE  s[l].dev # Root
BY DEF Runnable, CanLink, Made, Links

\* Where the commands of two scripts are when one follows the other.
Follows(s, u, v, n) ==
  /\ IsSeq(v) /\ Len(v) = n + Len(u) /\ n \in Nat /\ Len(u) \in Nat
  /\ \A j \in 1..n : v[j] = s[j]
  /\ \A j \in 1..Len(u) : v[n + j] = u[j] /\ n + j \in 1..Len(v)
  /\ \A j \in 1..Len(v) : j \in 1..n \/ (j - n \in 1..Len(u) /\ n + (j - n) = j)
  /\ \A j \in Links(v) : j \in Links(s) \/ (j - n \in Links(u) /\ v[j] = u[j - n])
  /\ \A j \in Links(u) : n + j \in Links(v)
  /\ \A j \in Links(s) : j \in Links(v)
  /\ \A j \in Ups(v) : j \in Ups(s) \/ (j - n \in Ups(u) /\ v[j] = u[j - n])
  /\ \A j \in Ups(u) : n + j \in Ups(v)
  /\ \A j \in Ups(s) : j \in Ups(v)

\* They keep their order and nothing comes between them.
LEMMA ConcatPositions ==
  ASSUME NEW s, NEW u, IsSeq(s), IsSeq(u), NEW n, n = Len(s)
  PROVE  Follows(s, u, s \o u, n)
<1> DEFINE v == s \o u
<1>1. /\ IsSeq(v) /\ Len(v) = n + Len(u) /\ n \in Nat /\ Len(u) \in Nat
      /\ \A j \in 1..n : v[j] = s[j]
      /\ \A j \in 1..Len(u) : v[n + j] = u[j]
  BY ConcatIsSeq
<1> HIDE DEF v
<1>2. \A j \in 1..Len(u) : v[n + j] = u[j] /\ n + j \in 1..Len(v)
  BY <1>1
<1>3. \A j \in 1..n : j \in 1..Len(v) /\ v[j] = s[j]
  BY <1>1
<1>4. ASSUME NEW j \in 1..Len(v), j \notin 1..n
      PROVE  j - n \in 1..Len(u) /\ n + (j - n) = j /\ v[j] = u[j - n]
  <2>1. j - n \in 1..Len(u) /\ n + (j - n) = j
    BY <1>1, <1>4
  <2> QED BY <1>2, <2>1
<1>5. /\ \A j \in Links(v) : j \in Links(s) \/ (j - n \in Links(u) /\ v[j] = u[j - n])
      /\ \A j \in Links(u) : n + j \in Links(v)
      /\ \A j \in Links(s) : j \in Links(v)
  BY <1>2, <1>3, <1>4 DEF Links
<1>6. /\ \A j \in Ups(v) : j \in Ups(s) \/ (j - n \in Ups(u) /\ v[j] = u[j - n])
      /\ \A j \in Ups(u) : n + j \in Ups(v)
      /\ \A j \in Ups(s) : j \in Ups(v)
  BY <1>2, <1>3, <1>4 DEF Ups
<1>7. \A j \in 1..Len(v) : j \in 1..n \/ (j - n \in 1..Len(u) /\ n + (j - n) = j)
  BY <1>4
<1> QED BY <1>1, <1>2, <1>5, <1>6, <1>7 DEF v, Follows

\* Two scripts that make different devices run one after the other.
LEMMA RunnableConcat ==
  ASSUME NEW s, NEW u, IsSeq(s), IsSeq(u), Runnable(s), Runnable(u), AllUp(s), AllUp(u),
         \A l \in Links(s) : \A m \in Links(u) : s[l].dev # u[m].dev
  PROVE  Runnable(s \o u) /\ AllUp(s \o u)
<1> DEFINE v == s \o u
<1> PICK n : n = Len(s)
  OBVIOUS
<1>0. Follows(s, u, v, n)
  BY ConcatPositions, Zenon
<1> HIDE DEF v
<1>1. /\ IsSeq(v) /\ Len(v) = n + Len(u) /\ n \in Nat /\ Len(u) \in Nat
      /\ \A j \in 1..n : v[j] = s[j]
      /\ \A j \in 1..Len(u) : v[n + j] = u[j] /\ n + j \in 1..Len(v)
      /\ \A j \in 1..Len(v) : j \in 1..n \/ (j - n \in 1..Len(u) /\ n + (j - n) = j)
  BY <1>0 DEF Follows
<1>2. /\ \A j \in Links(v) : j \in Links(s) \/ (j - n \in Links(u) /\ v[j] = u[j - n])
      /\ \A j \in Links(u) : n + j \in Links(v)
      /\ \A j \in Links(s) : j \in Links(v)
  BY <1>0 DEF Follows
<1>3. /\ \A j \in Ups(v) : j \in Ups(s) \/ (j - n \in Ups(u) /\ v[j] = u[j - n])
      /\ \A j \in Ups(u) : n + j \in Ups(v)
      /\ \A j \in Ups(s) : j \in Ups(v)
  BY <1>0 DEF Follows
<1>4. /\ Links(s) \subseteq 1..n /\ Links(u) \subseteq 1..Len(u)
      /\ Ups(s) \subseteq 1..n /\ Ups(u) \subseteq 1..Len(u)
  BY DEF Links, Ups
<1>5. ASSUME NEW i \in 1..n
      PROVE  /\ v[i] = s[i] /\ Made(v, i) = Made(s, i) /\ Before(v, i) = Before(s, i)
             /\ \A l \in Before(s, i) : v[l] = s[l]
  <2>1. i \in 1..(Len(s) + 1) /\ Len(s) \in Nat /\ Len(v) \in Nat /\ Len(s) <= Len(v)
    BY <1>1
  <2>2. \A j \in 1..Len(s) : v[j] = s[j]
    BY <1>1
  <2>3. Made(v, i) = Made(s, i) /\ Before(v, i) = Before(s, i)
    BY <2>1, <2>2, SameBeginning, Zenon
  <2> QED BY <1>1, <1>4, <2>3 DEF Before
<1>6. ASSUME NEW i \in 1..Len(u), NEW l \in Before(v, n + i)
      PROVE  \/ l \in Links(s) /\ v[l] = s[l]
             \/ l - n \in Before(u, i) /\ v[l] = u[l - n]
  <2>1. l \in Links(v) /\ l < n + i
    BY DEF Before
  <2>2. CASE l \in Links(s)
    BY <1>1, <1>4, <2>2
  <2>3. CASE l - n \in Links(u) /\ v[l] = u[l - n]
    <3>1. l \in 1..Len(v)
      BY <2>1 DEF Links
    <3>2. l - n < i
      BY <1>1, <2>1, <3>1
    <3> QED BY <2>3, <3>2 DEF Before
  <2> QED BY <1>2, <2>1, <2>2, <2>3
<1>7. ASSUME NEW i \in 1..Len(u), NEW m \in Before(u, i)
      PROVE  n + m \in Before(v, n + i) /\ v[n + m] = u[m]
  <2>1. m \in Links(u) /\ m < i /\ m \in 1..Len(u)
    BY DEF Before, Links
  <2>2. n + m \in Links(v) /\ n + m < n + i
    BY <1>1, <1>2, <2>1
  <2> QED BY <1>1, <2>1, <2>2 DEF Before
<1>8. ASSUME NEW i \in 1..Len(u) PROVE Made(u, i) \subseteq Made(v, n + i)
  BY <1>7 DEF Made
<1>9. ASSUME NEW i \in 1..n
      PROVE  /\ v[i].op \in {"link", "addr", "wg", "up"}
             /\ v[i].op = "link" => CanLink(v, i)
             /\ v[i].op = "addr" => v[i].dev \in Made(v, i)
             /\ v[i].op = "wg"   => CanWg(v, i)
             /\ v[i].op = "up"   => CanUp(v, i)
  <2>1. /\ s[i].op \in {"link", "addr", "wg", "up"}
        /\ s[i].op = "link" => CanLink(s, i)
        /\ s[i].op = "addr" => s[i].dev \in Made(s, i)
        /\ s[i].op = "wg"   => CanWg(s, i)
        /\ s[i].op = "up"   => CanUp(s, i)
    BY DEF Runnable
  <2>2. CanLink(s, i) => CanLink(v, i)
    BY <1>5 DEF CanLink
  <2>3. CanWg(s, i) => CanWg(v, i)
    BY <1>5 DEF CanWg
  <2>4. CanUp(s, i) => CanUp(v, i)
    <3>1. \A k \in Ups(s) : k \in Ups(v) /\ v[k] = s[k]
      BY <1>1, <1>3, <1>4
    <3> QED BY <1>5, <3>1 DEF CanUp
  <2> QED BY <1>5, <2>1, <2>2, <2>3, <2>4
<1>10. ASSUME NEW i \in 1..Len(u)
       PROVE  LET j == n + i
              IN /\ v[j].op \in {"link", "addr", "wg", "up"}
                 /\ v[j].op = "link" => CanLink(v, j)
                 /\ v[j].op = "addr" => v[j].dev \in Made(v, j)
                 /\ v[j].op = "wg"   => CanWg(v, j)
                 /\ v[j].op = "up"   => CanUp(v, j)
  <2> DEFINE j == n + i
  <2>0. v[j] = u[i]
    BY <1>1
  <2>1. /\ u[i].op \in {"link", "addr", "wg", "up"}
        /\ u[i].op = "link" => CanLink(u, i)
        /\ u[i].op = "addr" => u[i].dev \in Made(u, i)
        /\ u[i].op = "wg"   => CanWg(u, i)
        /\ u[i].op = "up"   => CanUp(u, i)
    BY DEF Runnable
  <2> HIDE DEF j
  <2>2. ASSUME u[i].op = "link" PROVE CanLink(v, j)
    <3>1. CanLink(u, i) /\ i \in Links(u)
      BY <2>1, <2>2 DEF Links
    <3>2. u[i].dev # Root
      BY <3>1, NotTheRoot
    <3>3. ASSUME NEW l \in Before(v, j) PROVE v[l].dev # u[i].dev
      <4>1. CASE l \in Links(s) /\ v[l] = s[l]
        BY <3>1, <4>1
      <4>2. CASE l - n \in Before(u, i) /\ v[l] = u[l - n]
        BY <3>1, <4>2 DEF CanLink, Made
      <4> QED BY <1>6, <3>3, <4>1, <4>2 DEF j
    <3>4. u[i].dev \notin Made(v, j)
      BY <3>2, <3>3 DEF Made
    <3> QED BY <1>8, <2>0, <3>1, <3>4 DEF CanLink, j
  <2>3. ASSUME u[i].op = "wg" PROVE CanWg(v, j)
    BY <1>7, <2>0, <2>1, <2>3 DEF CanWg, j
  <2>4. ASSUME u[i].op = "up" PROVE CanUp(v, j)
    <3>1. CanUp(u, i) /\ v[j].dev \in Made(v, j)
      BY <1>8, <2>0, <2>1, <2>4 DEF CanUp, j
    <3>2. ASSUME NEW l \in Before(v, j), v[l].dev = v[j].dev, v[l].type = "vlan",
                 v[l].parent # Root
          PROVE  \E k \in Ups(v) : k < j /\ v[k].dev = v[l].parent
      <4>1. CASE l \in Links(s) /\ v[l] = s[l]
        <5>1. s[l].dev # Root
          BY <4>1, NotTheRoot
        <5>2. s[l].dev \in Made(u, i)
          BY <2>0, <3>1, <3>2, <4>1 DEF CanUp
        <5>3. PICK m \in Before(u, i) : u[m].dev = s[l].dev
          BY <5>1, <5>2 DEF Made
        <5>4. m \in Links(u)
          BY DEF Before
        <5> QED BY <4>1, <5>3, <5>4
      <4>2. CASE l - n \in Before(u, i) /\ v[l] = u[l - n]
        <5>1. PICK k \in Ups(u) : k < i /\ u[k].dev = v[l].parent
          BY <2>0, <3>1, <3>2, <4>2 DEF CanUp
        <5>2. n + k \in Ups(v) /\ v[n + k] = u[k] /\ n + k < j
          BY <1>1, <1>3, <1>4, <5>1 DEF j
        <5> QED BY <5>1, <5>2
      <4> QED BY <1>6, <3>2, <4>1, <4>2 DEF j
    <3> QED BY <3>1, <3>2 DEF CanUp
  <2> QED BY <1>8, <2>0, <2>1, <2>2, <2>3, <2>4 DEF j
<1>11. Runnable(v)
  <2> SUFFICES ASSUME NEW j \in 1..Len(v)
               PROVE  /\ v[j].op \in {"link", "addr", "wg", "up"}
                      /\ v[j].op = "link" => CanLink(v, j)
                      /\ v[j].op = "addr" => v[j].dev \in Made(v, j)
                      /\ v[j].op = "wg"   => CanWg(v, j)
                      /\ v[j].op = "up"   => CanUp(v, j)
    BY DEF Runnable
  <2>1. CASE j \in 1..n
    BY <1>9, <2>1
  <2>2. CASE j - n \in 1..Len(u) /\ n + (j - n) = j
    BY <1>10, <2>2
  <2> QED BY <1>1, <2>1, <2>2
<1>12. AllUp(v)
  <2>1. \A j \in Ups(v) : \E l \in Links(v) : v[l].dev = v[j].dev
    <3>1. ASSUME NEW j \in Ups(s) PROVE \E l \in Links(v) : v[l].dev = v[j].dev
      <4>1. PICK l \in Links(s) : s[l].dev = s[j].dev
        BY <3>1 DEF AllUp
      <4> QED BY <1>1, <1>2, <1>4, <3>1, <4>1
    <3>2. ASSUME NEW j \in Ups(u) PROVE \E l \in Links(v) : v[l].dev = u[j].dev
      <4>1. PICK l \in Links(u) : u[l].dev = u[j].dev
        BY DEF AllUp
      <4>2. n + l \in Links(v) /\ v[n + l] = u[l]
        BY <1>1, <1>2, <1>4
      <4> QED BY <4>1, <4>2
    <3> QED BY <1>3, <3>1, <3>2
  <2>2. \A l \in Links(v) : \E j \in Ups(v) : v[j].dev = v[l].dev
    <3>1. ASSUME NEW l \in Links(s) PROVE \E j \in Ups(v) : v[j].dev = v[l].dev
      <4>1. PICK j \in Ups(s) : s[j].dev = s[l].dev
        BY <3>1 DEF AllUp
      <4> QED BY <1>1, <1>3, <1>4, <3>1, <4>1
    <3>2. ASSUME NEW l \in Links(u) PROVE \E j \in Ups(v) : v[j].dev = u[l].dev
      <4>1. PICK j \in Ups(u) : u[j].dev = u[l].dev
        BY DEF AllUp
      <4>2. n + j \in Ups(v) /\ v[n + j] = u[j]
        BY <1>1, <1>3, <1>4
      <4> QED BY <4>1, <4>2
    <3> QED BY <1>2, <3>1, <3>2
  <2> QED BY <2>1, <2>2 DEF AllUp
<1> QED BY <1>11, <1>12 DEF v

----------------------------------------------------------------------------
\* The commands a rule's script gets.

\* A longer script has what the shorter one had, and its own commands.
LEMMA KindsGrow ==
  ASSUME NEW s, NEW c, IsSeq(s), IsSeq(c), Kinds(s),
         \A j \in 1..Len(c) : KindAt(s \o c, Len(s) + j)
  PROVE  Kinds(s \o c)
<1> DEFINE u == s \o c
<1> PICK n : n = Len(s)
  OBVIOUS
<1>1. /\ Len(u) = n + Len(c) /\ n \in Nat /\ Len(c) \in Nat
      /\ \A j \in 1..n : u[j] = s[j]
  BY ConcatIsSeq
<1>2. \A j \in 1..Len(c) : KindAt(u, n + j)
  OBVIOUS
<1> HIDE DEF u
<1>3. ASSUME NEW j \in 1..n PROVE KindAt(u, j)
  <2>1. j \in 1..(Len(s) + 1) /\ Len(s) \in Nat /\ Len(u) \in Nat /\ Len(s) <= Len(u)
    BY <1>1
  <2>2. \A l \in 1..Len(s) : u[l] = s[l]
    BY <1>1
  <2>3. Made(u, j) = Made(s, j) /\ Before(u, j) = Before(s, j)
    BY <2>1, <2>2, SameBeginning, Zenon
  <2>4. \A l \in Before(s, j) : u[l] = s[l]
    BY <2>2 DEF Before, Links
  <2>5. CanWg(s, j) => CanWg(u, j)
    BY <1>1, <2>3, <2>4 DEF CanWg
  <2>6. KindAt(s, j)
    BY DEF Kinds
  <2> QED BY <1>1, <2>3, <2>5, <2>6 DEF KindAt
<1>4. ASSUME NEW j \in 1..Len(u), j \notin 1..n PROVE KindAt(u, j)
  <2>1. j - n \in 1..Len(c) /\ n + (j - n) = j
    BY <1>1, <1>4
  <2> QED BY <1>2, <2>1
<1>5. Kinds(u)
  BY <1>3, <1>4 DEF Kinds
<1> QED BY <1>5 DEF u

\* Addresses and bring-ups need nothing of their own.
LEMMA KindsOfTheEnd ==
  ASSUME NEW s, NEW c, IsSeq(s), IsSeq(c), Kinds(s),
         \A j \in 1..Len(c) : c[j].op \in {"addr", "up"}
  PROVE  Kinds(s \o c)
<1>1. \A j \in 1..Len(c) : (s \o c)[Len(s) + j] = c[j]
  BY ConcatIsSeq
<1>2. \A j \in 1..Len(c) : KindAt(s \o c, Len(s) + j)
  BY <1>1 DEF KindAt
<1> QED BY <1>2, KindsGrow

\* A tile's commands: a VLAN is made on the device that stands, and WireGuard is
\* set up on the device its tile has just made.
LEMMA KindsOfTile ==
  ASSUME NEW s, IsSeq(s), Kinds(s), NEW t \in TilesOf(Registry), NEW sub, NEW name,
         NEW under, StandsAt(s, Len(s) + 1, under)
  PROVE  Kinds(s \o Commands(t, sub, name, under))
<1> DEFINE c == Commands(t, sub, name, under)
           u == s \o c
           k0 == LinkOf(t, sub, name, under)
<1>1. IsSeq(c) /\ \E k : OneDevice(c, k, name, under)
  BY CommandsMakeOne
<1>2. \A j \in 1..Len(c) :
        \/ c[j].op = "addr"
        \/ c[j].op = "link" /\ c[j] = k0
        \/ t = WireGuard /\ c[j].op = "wg"
  BY CommandsOfTile
<1>3. /\ k0.type # "physical"
      /\ k0.type = "vlan" => k0.parent = under
      /\ t = WireGuard => k0.type = "wireguard"
  BY SixTiles DEF LinkOf, PointToPoint, VXLANLink, Link
<1> HIDE DEF c, k0
<1>4. PICK k : OneDevice(c, k, name, under)
  BY <1>1
<1> PICK n : n = Len(s)
  OBVIOUS
<1>5. /\ Len(u) = n + Len(c) /\ n \in Nat /\ Len(c) \in Nat
      /\ \A j \in 1..n : u[j] = s[j]
      /\ \A j \in 1..Len(c) : u[n + j] = c[j]
  BY <1>1, ConcatIsSeq
<1> HIDE DEF u
<1>6. under \in Made(u, n + 1)
  <2>1. n + 1 \in 1..(Len(s) + 1) /\ Len(s) \in Nat /\ Len(u) \in Nat /\ Len(s) <= Len(u)
    BY <1>5
  <2>2. \A l \in 1..Len(s) : u[l] = s[l]
    BY <1>5
  <2>3. Made(u, n + 1) = Made(s, n + 1)
    BY <2>1, <2>2, SameBeginning, Zenon
  <2> QED BY <2>3, StandingIsMade
<1>7. ASSUME NEW i \in 1..Len(c) PROVE KindAt(u, n + i)
  <2>1. u[n + i] = c[i]
    BY <1>5
  <2>2. CASE c[i].op = "addr"
    BY <2>1, <2>2 DEF KindAt
  <2>3. CASE c[i].op = "link" /\ c[i] = k0
    <3>1. Before(u, n + 1) \subseteq Before(u, n + i)
      BY <1>5 DEF Before, Links
    <3>2. Made(u, n + 1) \subseteq Made(u, n + i)
      BY <3>1 DEF Made
    <3> QED BY <1>3, <1>6, <2>1, <2>3, <3>2 DEF KindAt
  <2>4. CASE t = WireGuard /\ c[i].op = "wg"
    <3>1. /\ k \in 1..Len(c) /\ c[k].op = "link" /\ c[k].dev = name
          /\ \A j \in 1..(k - 1) : c[j].op = "addr"
          /\ \A j \in (k + 1)..Len(c) : c[j].dev = name
      BY <1>4 DEF OneDevice
    <3>2. k < i /\ c[i].dev = name
      <4>1. i # k /\ i \notin 1..(k - 1)
        BY <2>4, <3>1
      <4>2. i \in (k + 1)..Len(c)
        BY <1>5, <3>1, <4>1
      <4> QED BY <3>1, <4>2
    <3>3. c[k] = k0 /\ c[k].type = "wireguard"
      BY <1>2, <1>3, <2>4, <3>1
    <3>4. u[n + k] = c[k] /\ n + k \in Before(u, n + i)
      BY <1>5, <3>1, <3>2 DEF Before, Links
    <3>5. CanWg(u, n + i)
      BY <2>1, <3>1, <3>2, <3>3, <3>4 DEF CanWg
    <3> QED BY <2>1, <2>4, <3>5 DEF KindAt
  <2> QED BY <1>2, <2>2, <2>3, <2>4
<1>8. \A j \in 1..Len(c) : KindAt(s \o c, Len(s) + j)
  BY <1>7 DEF u
<1>9. Kinds(s \o c)
  BY <1>1, <1>8, KindsGrow
<1> QED BY <1>9 DEF c

----------------------------------------------------------------------------
\* The inductive invariant.

\* Printed, of any results.
ScriptsOf(o) == [r \in 1..Len(o) |-> o[r].script]
PrintedOf(o) == FlattenSeq(ScriptsOf(o))

\* One more rule prints its script behind the others'.
LEMMA PrintedGrows ==
  ASSUME NEW o, NEW e, IsSeq(o), \A r \in 1..Len(o) : IsSeq(o[r].script), IsSeq(e.script)
  PROVE  PrintedOf(Append(o, e)) = PrintedOf(o) \o e.script
<1> DEFINE v == Append(o, e)
           w == e.script
           Own(s) == {s[j] : j \in 1..Len(s)}
           S == (UNION {Own(o[r].script) : r \in 1..Len(o)}) \cup Own(w)
           p == ScriptsOf(o)
           q == <<w>>
<1> PICK n : n = Len(o)
  OBVIOUS
<1>1. /\ Len(v) = n + 1 /\ n \in Nat /\ v[n + 1] = e
      /\ \A r \in 1..n : v[r] = o[r]
  BY AppendIsSeq
<1>2. /\ w \in Seq(Own(w)) /\ Own(w) \subseteq S
      /\ \A r \in 1..n : o[r].script \in Seq(Own(o[r].script)) /\ Own(o[r].script) \subseteq S
  <2>1. w \in Seq(Own(w)) /\ \A r \in 1..n : o[r].script \in Seq(Own(o[r].script))
    BY Zenon DEF IsSeq
  <2> HIDE DEF Own
  <2>2. Own(w) \subseteq S /\ \A r \in 1..n : Own(o[r].script) \subseteq S
    OBVIOUS
  <2> QED BY <2>1, <2>2
<1> HIDE DEF v, w, S, Own
<1>3. w \in Seq(S)
  BY <1>2, SeqMonotonic
<1>4. \A r \in 1..n : o[r].script \in Seq(S)
  <2>1. ASSUME NEW r \in 1..n PROVE o[r].script \in Seq(S)
    <3>1. o[r].script \in Seq(Own(o[r].script)) /\ Own(o[r].script) \subseteq S
      BY <1>2
    <3> QED BY <3>1, SeqMonotonic
  <2> QED BY <2>1
<1>5. p \in Seq(Seq(S)) /\ Len(p) = n /\ \A r \in 1..n : p[r] = o[r].script
  <2>1. p \in [1..n -> Seq(S)]
    BY <1>4 DEF ScriptsOf
  <2>2. \A r \in 1..n : p[r] = o[r].script
    BY DEF ScriptsOf
  <2> HIDE DEF p
  <2> QED BY <1>1, <2>1, <2>2, FcnIsSeq
<1>6. q \in Seq(Seq(S)) /\ q # << >> /\ Len(q) = 1 /\ q[1] = w
  BY <1>3
<1> DEFINE z == ScriptsOf(v)
<1>7. z \in Seq(Seq(S)) /\ Len(z) = n + 1 /\ \A r \in 1..(n + 1) : z[r] = v[r].script
  <2>1. ASSUME NEW r \in 1..(n + 1) PROVE v[r].script \in Seq(S)
    <3>1. r \in 1..n \/ r = n + 1
      BY <1>1
    <3> QED BY <1>1, <1>3, <1>4, <3>1 DEF w
  <2>2. z \in [1..(n + 1) -> Seq(S)]
    BY <1>1, <2>1 DEF ScriptsOf
  <2>3. \A r \in 1..(n + 1) : z[r] = v[r].script
    BY <1>1 DEF ScriptsOf
  <2>4. n + 1 \in Nat
    BY <1>1
  <2> HIDE DEF z
  <2> QED BY <2>2, <2>3, <2>4, FcnIsSeq
<1> HIDE DEF p, q, z
<1>8. z = p \o q
  <2>1. \A r \in 1..n : z[r] = p[r]
    <3>1. \A r \in 1..n : r \in 1..(n + 1)
      BY <1>1
    <3> QED BY <1>1, <1>5, <1>7, <3>1
  <2>2. z[n + 1] = w
    BY <1>1, <1>7 DEF w
  <2>3. /\ Len(z) = Len(p) + Len(q)
        /\ \A j \in 1..Len(p) : z[j] = p[j]
        /\ \A j \in 1..Len(q) : z[Len(p) + j] = q[j]
    BY <1>5, <1>6, <1>7, <2>1, <2>2
  <2> QED BY <1>5, <1>6, <1>7, <2>3, IsConcat, Zenon
<1>9. FlattenSeq(q) = w
  <2>1. PICK f : Steps(q, f)
    BY <1>6, FlattenSteps
  <2> QED BY <1>6, <2>1 DEF Steps
<1>10. FlattenSeq(z) = FlattenSeq(p) \o w
  BY <1>5, <1>6, <1>8, <1>9, FlattenConcat
<1> QED BY <1>10 DEF z, p, v, w, PrintedOf

\* Each device that is made was made by some rule's script.
MadeByRules(s, o) ==
  \A l \in Links(s) : \E r \in 1..Len(o) : \E k \in Links(o[r].script) :
    o[r].script[k].dev = s[l].dev

RunInv ==
  /\ LowerInv
  /\ \A r \in 1..Len(out) : IsSeq(out[r].script)
  /\ phase = "cover" => Kinds(script)
  /\ IsSeq(Printed) /\ Runnable(Printed) /\ AllUp(Printed) /\ MadeByRules(Printed, out)

\* Before the file is read nothing is printed.
LEMMA RunInit == Init => RunInv
<1> SUFFICES ASSUME Init PROVE RunInv
  OBVIOUS
<1>1. LowerInv
  BY LowerInit
<1>2. phase = "read" /\ out = << >>
  BY DEF Init
<1>3. Printed = << >>
  <2>1. [r \in 1..Len(out) |-> out[r].script] = << >>
    BY <1>2
  <2> QED BY <2>1, FlattenNone DEF Printed
<1>4. IsSeq(<< >>) /\ Len(<< >>) = 0
  BY SeqIsSeq, EmptySeq
<1>5. Runnable(Printed) /\ Links(Printed) = {} /\ Ups(Printed) = {}
  BY <1>3, <1>4 DEF Runnable, Links, Ups
<1>6. AllUp(Printed) /\ MadeByRules(Printed, out)
  BY <1>5 DEF AllUp, MadeByRules
<1> QED BY <1>1, <1>2, <1>3, <1>4, <1>5, <1>6 DEF RunInv

\* A step that prints nothing.
LEMMA RunKept ==
  ASSUME RunInv, LowerInv', UNCHANGED out, phase' = "cover" => Kinds(script')
  PROVE  RunInv'
<1>1. Printed' = Printed
  BY DEF Printed
<1>2. /\ IsSeq(Printed') /\ Runnable(Printed') /\ AllUp(Printed') /\ MadeByRules(Printed', out')
  BY <1>1 DEF RunInv
<1>3. \A r \in 1..Len(out') : IsSeq(out'[r].script)
  BY DEF RunInv
<1> QED BY <1>2, <1>3 DEF RunInv

\* One turn of Cover's loop.
LEMMA LowerTileRuns ==
  ASSUME RunInv, NEW t \in Picks, LowerTile(t)
  PROVE  RunInv'
<1> DEFINE sub  == Slice(sp, at, at + Len(t.pattern))
           name == Answer(Naming(t, sub, dev))
<1>1. LowerInv /\ phase = "cover" /\ Kinds(script)
  BY DEF RunInv, LowerTile
<1>2. LowerInv'
  BY <1>1, LowerTileKeeps
<1>3. t \in TilesOf(Registry)
  BY DEF Picks, Candidates
<1>4. \/ Abort
      \/ script' = script \o Commands(t, sub, name, dev) /\ UNCHANGED out
  BY Zenon DEF LowerTile
<1>5. CASE Abort
  <2>1. phase' # "cover" /\ UNCHANGED out
    BY <1>5 DEF Abort
  <2> QED BY <1>2, <2>1, RunKept
<1>6. CASE script' = script \o Commands(t, sub, name, dev) /\ UNCHANGED out
  <2>1. IsSeq(script) /\ StandsAt(script, Len(script) + 1, dev)
    BY <1>1 DEF LowerInv, Shape, InHand
  <2> HIDE DEF sub, name
  <2>2. Kinds(script')
    BY <1>1, <1>3, <1>6, <2>1, KindsOfTile
  <2> QED BY <1>2, <1>6, <2>2, RunKept
<1> QED BY <1>4, <1>5, <1>6

\* The bring-ups are a sequence of their own.
LEMMA BringUpIs ==
  ASSUME LowerInv
  PROVE  IsSeq(BringUp) /\ \A j \in 1..Len(BringUp) : BringUp[j].op = "up"
<1> DEFINE v == BringUp
           z == Len(created) - base
           S == {SetUp(created[base + j]) : j \in 1..z}
<1>1. z \in Nat
  BY Lengths
<1>2. v \in [1..z -> S] /\ \A j \in 1..z : v[j].op = "up"
  BY DEF BringUp, SetUp
<1> HIDE DEF v, S, z
<1>3. v \in Seq(S) /\ Len(v) = z
  BY <1>1, <1>2, FcnIsSeq
<1>4. IsSeq(v) /\ \A j \in 1..Len(v) : v[j].op = "up"
  BY <1>2, <1>3, SeqIsSeq
<1> QED BY <1>4 DEF v

\* A finished rule's script, as a sequence of commands.
LEMMA FinishedKinds ==
  ASSUME LowerInv, phase = "cover", Kinds(script), NEW n,
         n = << >> \/ \E y : n = addrOn(y, dev)
  PROVE  IsSeq(script \o n \o BringUp) /\ Kinds(script \o n \o BringUp)
<1>1. IsSeq(script)
  BY DEF LowerInv, Shape
<1>2. IsSeq(n) /\ \A j \in 1..Len(n) : n[j].op = "addr"
  <2>1. IsSeq(<< >>) /\ Len(<< >>) = 0
    BY SeqIsSeq, EmptySeq
  <2>2. CASE n = << >>
    BY <2>1, <2>2
  <2>3. CASE \E y : n = addrOn(y, dev)
    BY <2>3, AddressCommands
  <2> QED BY <2>2, <2>3
<1> DEFINE v == BringUp
<1>3. IsSeq(v) /\ \A j \in 1..Len(v) : v[j].op = "up"
  BY BringUpIs
<1> HIDE DEF v
<1> DEFINE s == script \o n
<1>4. IsSeq(s) /\ Kinds(s)
  BY <1>1, <1>2, ConcatIsSeq, KindsOfTheEnd
<1> HIDE DEF s
<1>5. IsSeq(s \o v) /\ Kinds(s \o v)
  BY <1>3, <1>4, ConcatIsSeq, KindsOfTheEnd
<1> QED BY <1>5 DEF s, v

\* The end of Cover, and render printing the rule.
LEMMA FinishRuleRuns ==
  ASSUME RunInv, FinishRule
  PROVE  RunInv'
<1> DEFINE rest == Slice(sp, at, Len(sp))
           addr == LeftoverAddress(rest)
           u    == script \o addr \o BringUp
<1>1. LowerInv /\ phase = "cover" /\ Kinds(script)
  BY DEF RunInv, FinishRule
<1>2. LowerInv'
  BY <1>1, FinishRuleKeeps
<1>3. CASE Abort
  <2>1. phase' # "cover" /\ UNCHANGED out
    BY <1>3 DEF Abort
  <2> QED BY <1>2, <2>1, RunKept
<1>4. CASE ~Abort
  <2>1. PICK e : e.script = u /\ out' = Append(out, e) /\ phase' = "rule"
    <3> DEFINE e == [script |-> u, applied |-> applied,
                     payload |-> IF addr = << >> THEN rest ELSE Tail(rest)]
    <3>1. out' = Append(out, e) /\ phase' = "rule"
      BY <1>4, Zenon DEF FinishRule
    <3>2. e.script = u
      OBVIOUS
    <3> QED BY <3>1, <3>2
  <2>2. addr = << >> \/ \E y : addr = addrOn(y, dev)
    BY DEF LeftoverAddress
  <2> HIDE DEF rest, addr
  <2>3. IsSeq(u) /\ Kinds(u)
    BY <1>1, <2>2, FinishedKinds
  <2>4. SoundScript(u) /\ BroughtUp(u)
    BY <1>1, <2>2, RuleFinished
  <2> HIDE DEF u
  <2> PICK n : n = Len(out)
    OBVIOUS
  <2>5. /\ Len(out') = n + 1 /\ n \in Nat /\ out'[n + 1] = e
        /\ \A r \in 1..n : out'[r] = out[r]
    <3>1. IsSeq(out)
      BY <1>1 DEF LowerInv, Shape
    <3> QED BY <2>1, <3>1, AppendIsSeq
  <2>6. /\ \A r \in 1..n : r \in Rules' /\ Script(r)' = out[r].script
        /\ n + 1 \in Rules' /\ Script(n + 1)' = u
    BY <2>1, <2>5 DEF Rules, Script
  <2>7. NamesUnique'
    BY <1>2 DEF LowerInv
  <2>8. OwnNames(u)
    BY <2>6, <2>7 DEF NamesUnique, OwnNames
  <2>9. Runnable(u) /\ AllUp(u)
    <3>1. Len(u) \in Nat
      BY <2>3 DEF IsSeq
    <3> QED BY <2>3, <2>4, <2>8, <3>1, RuleRunnable
  <2>10. /\ IsSeq(Printed) /\ Runnable(Printed) /\ AllUp(Printed)
         /\ MadeByRules(Printed, out) /\ \A r \in 1..n : IsSeq(out[r].script)
    BY DEF RunInv
  <2>11. Printed' = Printed \o u
    <3>1. IsSeq(out) /\ IsSeq(e.script)
      BY <1>1, <2>1, <2>3 DEF LowerInv, Shape
    <3>2. PrintedOf(Append(out, e)) = PrintedOf(out) \o e.script
      BY <2>10, <3>1, PrintedGrows
    <3>3. Printed = PrintedOf(out) /\ Printed' = PrintedOf(out')
      BY DEF Printed, PrintedOf, ScriptsOf
    <3> QED BY <2>1, <3>2, <3>3
  <2> PICK P : P = Printed
    OBVIOUS
  <2>12. ASSUME NEW l \in Links(P), NEW m \in Links(u) PROVE P[l].dev # u[m].dev
    <3>1. PICK r \in 1..n : \E k \in Links(out[r].script) : out[r].script[k].dev = P[l].dev
      BY <2>10 DEF MadeByRules
    <3>2. PICK k \in Links(out[r].script) : out[r].script[k].dev = P[l].dev
      BY <3>1
    <3>3. r # n + 1
      BY <2>5
    <3> QED BY <2>6, <2>7, <3>2, <3>3 DEF NamesUnique
  <2>13. Runnable(P \o u) /\ AllUp(P \o u)
    BY <2>3, <2>9, <2>10, <2>12, RunnableConcat
  <2>14. IsSeq(P \o u)
    BY <2>3, <2>10, ConcatIsSeq
  <2>15. MadeByRules(P \o u, out')
    <3> PICK b : b = Len(P)
      OBVIOUS
    <3> DEFINE v == P \o u
    <3>1. Follows(P, u, v, b)
      BY <2>3, <2>10, ConcatPositions
    <3> HIDE DEF v
    <3> SUFFICES ASSUME NEW l \in Links(v)
                 PROVE  \E r \in 1..Len(out') : \E k \in Links(out'[r].script) :
                          out'[r].script[k].dev = v[l].dev
      BY DEF MadeByRules, v
    <3>2. CASE l \in Links(P)
      <4>1. v[l] = P[l]
        BY <3>1, <3>2 DEF Follows, Links
      <4>2. PICK r \in 1..n : \E k \in Links(out[r].script) : out[r].script[k].dev = P[l].dev
        BY <2>10, <3>2 DEF MadeByRules
      <4>3. r \in 1..Len(out') /\ out'[r] = out[r]
        BY <2>5
      <4> QED BY <4>1, <4>2, <4>3
    <3>3. CASE l - b \in Links(u) /\ v[l] = u[l - b]
      <4>1. n + 1 \in 1..Len(out') /\ out'[n + 1].script = u
        BY <2>1, <2>5
      <4> QED BY <3>3, <4>1
    <3> QED BY <3>1, <3>2, <3>3 DEF Follows
  <2>16. \A r \in 1..Len(out') : IsSeq(out'[r].script)
    <3>1. ASSUME NEW r \in 1..Len(out') PROVE IsSeq(out'[r].script)
      <4>1. r \in 1..n \/ r = n + 1
        BY <2>5
      <4> QED BY <2>1, <2>3, <2>5, <2>10, <4>1
    <3> QED BY <3>1
  <2>17. phase' # "cover"
    BY <2>1
  <2> QED BY <1>2, <2>11, <2>13, <2>14, <2>15, <2>16, <2>17 DEF RunInv
<1> QED BY <1>3, <1>4

\* Every step keeps it.
LEMMA RunStep == RunInv /\ [Next]_vars => RunInv'
<1> SUFFICES ASSUME RunInv, [Next]_vars PROVE RunInv'
  OBVIOUS
<1>1. LowerInv
  BY DEF RunInv
<1>2. LowerInv'
  BY <1>1, LowerStep
<1>3. ASSUME UNCHANGED out, phase' # "cover" PROVE RunInv'
  BY <1>2, <1>3, RunKept
<1>4. CASE ReadTrees \/ NoLowering \/ EndOfFile
  BY <1>3, <1>4 DEF ReadTrees, NoLowering, EndOfFile, Abort
<1>5. CASE StartRule
  <2>1. CASE Abort
    BY <1>3, <2>1 DEF Abort
  <2>2. CASE ~Abort
    <3>1. script' = << >> /\ UNCHANGED out
      BY <1>5, <2>2 DEF StartRule
    <3>2. Kinds(<< >>)
      BY DEF Kinds
    <3> QED BY <1>2, <3>1, <3>2, RunKept
  <2> QED BY <2>1, <2>2
<1>6. CASE \E t \in Picks : LowerTile(t)
  BY <1>6, LowerTileRuns
<1>7. CASE FinishRule
  BY <1>7, FinishRuleRuns
<1>8. CASE UNCHANGED vars
  <2>1. UNCHANGED out /\ (phase' = "cover" => Kinds(script'))
    BY <1>8 DEF vars, RunInv
  <2> QED BY <1>2, <2>1, RunKept
<1> QED BY <1>4, <1>5, <1>6, <1>7, <1>8 DEF Next, Terminated

\* What is printed and does not ask for too much leaves a healthy machine.
LEMMA RunsToItsEnd ==
  ASSUME NEW s, IsSeq(s), Runnable(s), AllUp(s), ~AsksTooMuch(s)
  PROVE  LET mc == RunScript(Fresh(Root), s)
         IN /\ mc.error = ""
            /\ mc.up = {l.dev : l \in mc.links}
            /\ Cardinality(mc.addrs) = Len(PlacedBy(s))
<1> DEFINE mc == RunScript(Fresh(Root), s)
<1> PICK n : n = Len(s)
  OBVIOUS
<1>1. n \in Nat
  BY DEF IsSeq
<1>2. mc = After(s, n)
  BY <1>1, ScriptReaches
<1> DEFINE links == {Link("physical", Root, NoDev, NoProps)} \cup Done(s, n, "link")
           addrs == Done(s, n, "addr")
           socks == Wanted(s, n)
           up    == {Root} \cup {c.dev : c \in Done(s, n, "up")}
<1>3. mc.error = "" /\ mc.links = links /\ mc.addrs = addrs /\ mc.up = up
  <2>1. mc = Healthy(links, addrs, socks, up)
    BY <1>2, Zenon DEF After
  <2> HIDE DEF mc, links, addrs, socks, up
  <2> QED BY <2>1 DEF Healthy
<1> HIDE DEF mc
<1>4. Cardinality(addrs) = Len(PlacedBy(s))
  BY AddressesCounted
<1>5. up = {l.dev : l \in links}
  <2>1. Link("physical", Root, NoDev, NoProps).dev = Root
    BY DEF Link
  <2>2. {c.dev : c \in Done(s, n, "link")} = {s[l].dev : l \in Links(s)}
    BY DEF Done, Links
  <2>3. {c.dev : c \in Done(s, n, "up")} = {s[j].dev : j \in Ups(s)}
    BY DEF Done, Ups
  <2>4. {s[j].dev : j \in Ups(s)} = {s[l].dev : l \in Links(s)}
    BY DEF AllUp
  <2> QED BY <2>1, <2>2, <2>3, <2>4
<1> QED BY <1>3, <1>4, <1>5 DEF mc

\* command/command.go:31: of every file, everything printed runs on a fresh
\* machine, line by line and in the order printed, to its end, unless the file
\* asks for one tunnel, address or UDP port twice or for addresses that no machine
\* takes; then every device made is up, the physical one included, and has the
\* addresses written on it.
THEOREM PrintedScriptRuns == Spec => []ScriptRuns
<1>1. RunInv => ScriptRuns
  BY RunsToItsEnd DEF RunInv, ScriptRuns
<1> QED BY <1>1, RunInit, RunStep, PTL DEF Spec

----------------------------------------------------------------------------
\* What goes out, and what was predicted.

\* The word tcpdump has for a type of device.
Word(type) ==
  CASE type = "vxlan"             -> "VXLAN"
    [] type = "wireguard"         -> "UDP"
    [] type \in {"gre", "gretap"} -> "GREv0"
    [] type = "ipip"              -> "IP"

\* Where a script's outermost device sends, to which ports and from which.
Destinations(s) ==
  LET l == OuterLink(s)
  IN {l.opts[opt] : opt \in DOMAIN l.opts \cap {"remote", "group"}}
       \cup {e[1] : e \in Endpoints(s)}
Ports(s) ==
  LET l == OuterLink(s)
  IN (IF l.type = "vxlan" THEN {PortOf(l)} ELSE {}) \cup {e[2] : e \in Endpoints(s)}
SourcePorts(s) == WgSettings(s, "listen_port") \ {0}

\* The values an option has, if there is one.
Values(opts, keys) == {opts[opt] : opt \in DOMAIN opts \cap keys}

\* What is written in a place, if it is not '*'.
AddrIn(v) == IF v = Star THEN {} ELSE {v.addr}
NumIn(v)  == IF v = Star THEN {} ELSE {v.num}

\* An option that has one of these values, and is there if there are any.
IsOpt(g, key, V) ==
  /\ \A k : k \in DOMAIN g <=> k = key /\ V # {}
  /\ V # {} => g[key] \in V

\* The fields of an outer header: the encapsulation, and six such options.
HasFields(c, w, A, B, P, S, N, K) ==
  /\ "encapsulation" \in DOMAIN c /\ c["encapsulation"] = w
  /\ "outer source" \in DOMAIN c <=> A # {}
  /\ A # {} => c["outer source"] \in A
  /\ "outer destination" \in DOMAIN c <=> B # {}
  /\ B # {} => c["outer destination"] \in B
  /\ "UDP destination port" \in DOMAIN c <=> P # {}
  /\ P # {} => c["UDP destination port"] \in P
  /\ "UDP source port" \in DOMAIN c <=> S # {}
  /\ S # {} => c["UDP source port"] \in S
  /\ "VXLAN VNI" \in DOMAIN c <=> N # {}
  /\ N # {} => c["VXLAN VNI"] \in N
  /\ "GRE key" \in DOMAIN c <=> K # {}
  /\ K # {} => c["GRE key"] \in K
  /\ \A key \in DOMAIN c :
       key \in {"encapsulation", "outer source", "outer destination", "UDP destination port",
                "UDP source port", "VXLAN VNI", "GRE key"}

\* One option more.
OneMore(c, f, key, V) ==
  key \notin DOMAIN f =>
    /\ \A k : k \in DOMAIN c <=> k \in DOMAIN f \/ (V # {} /\ k = key)
    /\ \A k \in DOMAIN f : c[k] = f[k]
    /\ V # {} => c[key] \in V

\* That is what it adds.
LEMMA OneMoreOption ==
  ASSUME NEW f, NEW g, NEW key, NEW V, IsOpt(g, key, V)
  PROVE  OneMore(f ++ g, f, key, V)
BY DEF OneMore, IsOpt, ++

\* The options are these fields.
LEMMA FieldsOfOptions ==
  ASSUME NEW w, NEW A, NEW B, NEW P, NEW S, NEW N, NEW K,
         NEW a, NEW b, NEW p, NEW q, NEW n, NEW k,
         IsOpt(a, "outer source", A), IsOpt(b, "outer destination", B),
         IsOpt(p, "UDP destination port", P), IsOpt(q, "UDP source port", S),
         IsOpt(n, "VXLAN VNI", N), IsOpt(k, "GRE key", K)
  PROVE  HasFields(Only("encapsulation", w) ++ a ++ b ++ p ++ q ++ n ++ k, w, A, B, P, S, N, K)
<1> DEFINE c0 == Only("encapsulation", w)
           c1 == c0 ++ a
           c2 == c1 ++ b
           c3 == c2 ++ p
           c4 == c3 ++ q
           c5 == c4 ++ n
           c6 == c5 ++ k
<1>0. DOMAIN c0 = {"encapsulation"} /\ c0["encapsulation"] = w
  BY DEF Only
<1> HIDE DEF c0
<1>1. OneMore(c1, c0, "outer source", A)
  BY OneMoreOption, Zenon
<1> HIDE DEF c1
<1>2. OneMore(c2, c1, "outer destination", B)
  BY OneMoreOption, Zenon
<1> HIDE DEF c2
<1>3. OneMore(c3, c2, "UDP destination port", P)
  BY OneMoreOption, Zenon
<1> HIDE DEF c3
<1>4. OneMore(c4, c3, "UDP source port", S)
  BY OneMoreOption, Zenon
<1> HIDE DEF c4
<1>5. OneMore(c5, c4, "VXLAN VNI", N)
  BY OneMoreOption, Zenon
<1> HIDE DEF c5
<1>6. OneMore(c6, c5, "GRE key", K)
  BY OneMoreOption, Zenon
<1> HIDE DEF c6
<1>7. /\ c1["encapsulation"] = w
      /\ A # {} => c1["outer source"] \in A
      /\ DOMAIN c1 = {"encapsulation"} \cup {o \in {"outer source"} : A # {}}
  BY <1>0, <1>1 DEF OneMore
<1>8. /\ c2["encapsulation"] = w
      /\ A # {} => c2["outer source"] \in A
      /\ B # {} => c2["outer destination"] \in B
      /\ DOMAIN c2 = DOMAIN c1 \cup {o \in {"outer destination"} : B # {}}
  <2>1. "outer destination" \notin DOMAIN c1
    BY <1>7
  <2> QED BY <1>2, <1>7, <2>1 DEF OneMore
<1>9. /\ c3["encapsulation"] = w
      /\ A # {} => c3["outer source"] \in A
      /\ B # {} => c3["outer destination"] \in B
      /\ P # {} => c3["UDP destination port"] \in P
      /\ DOMAIN c3 = DOMAIN c2 \cup {o \in {"UDP destination port"} : P # {}}
  <2>1. "UDP destination port" \notin DOMAIN c2
    BY <1>7, <1>8
  <2> QED BY <1>3, <1>7, <1>8, <2>1 DEF OneMore
<1>10. /\ c4["encapsulation"] = w
       /\ A # {} => c4["outer source"] \in A
       /\ B # {} => c4["outer destination"] \in B
       /\ P # {} => c4["UDP destination port"] \in P
       /\ S # {} => c4["UDP source port"] \in S
       /\ DOMAIN c4 = DOMAIN c3 \cup {o \in {"UDP source port"} : S # {}}
  <2>1. "UDP source port" \notin DOMAIN c3
    BY <1>7, <1>8, <1>9
  <2> QED BY <1>4, <1>7, <1>8, <1>9, <2>1 DEF OneMore
<1>11. /\ c5["encapsulation"] = w
       /\ A # {} => c5["outer source"] \in A
       /\ B # {} => c5["outer destination"] \in B
       /\ P # {} => c5["UDP destination port"] \in P
       /\ S # {} => c5["UDP source port"] \in S
       /\ N # {} => c5["VXLAN VNI"] \in N
       /\ DOMAIN c5 = DOMAIN c4 \cup {o \in {"VXLAN VNI"} : N # {}}
  <2>1. "VXLAN VNI" \notin DOMAIN c4
    BY <1>7, <1>8, <1>9, <1>10
  <2> QED BY <1>5, <1>7, <1>8, <1>9, <1>10, <2>1 DEF OneMore
<1>12. /\ c6["encapsulation"] = w
       /\ A # {} => c6["outer source"] \in A
       /\ B # {} => c6["outer destination"] \in B
       /\ P # {} => c6["UDP destination port"] \in P
       /\ S # {} => c6["UDP source port"] \in S
       /\ N # {} => c6["VXLAN VNI"] \in N
       /\ K # {} => c6["GRE key"] \in K
       /\ DOMAIN c6 = DOMAIN c5 \cup {o \in {"GRE key"} : K # {}}
  <2>1. "GRE key" \notin DOMAIN c5
    BY <1>7, <1>8, <1>9, <1>10, <1>11
  <2> QED BY <1>6, <1>7, <1>8, <1>9, <1>10, <1>11, <2>1 DEF OneMore
<1>13. HasFields(c6, w, A, B, P, S, N, K)
  <2>1. DOMAIN c6 = {"encapsulation"}
                      \cup {o \in {"outer source"} : A # {}}
                      \cup {o \in {"outer destination"} : B # {}}
                      \cup {o \in {"UDP destination port"} : P # {}}
                      \cup {o \in {"UDP source port"} : S # {}}
                      \cup {o \in {"VXLAN VNI"} : N # {}}
                      \cup {o \in {"GRE key"} : K # {}}
    BY <1>7, <1>8, <1>9, <1>10, <1>11, <1>12, Zenon
  <2>2. /\ "encapsulation" \in DOMAIN c6
        /\ "outer source" \in DOMAIN c6 <=> A # {}
        /\ "outer destination" \in DOMAIN c6 <=> B # {}
        /\ "UDP destination port" \in DOMAIN c6 <=> P # {}
        /\ "UDP source port" \in DOMAIN c6 <=> S # {}
        /\ "VXLAN VNI" \in DOMAIN c6 <=> N # {}
        /\ "GRE key" \in DOMAIN c6 <=> K # {}
    BY <2>1
  <2>3. \A key \in DOMAIN c6 :
       key \in {"encapsulation", "outer source", "outer destination", "UDP destination port",
                "UDP source port", "VXLAN VNI", "GRE key"}
    BY <2>1
  <2> QED BY <1>12, <2>2, <2>3, Zenon DEF HasFields
<1> QED BY <1>13 DEF c0, c1, c2, c3, c4, c5, c6

\* One of several values.
LEMMA AnyIsOpt ==
  ASSUME NEW V, NEW label
  PROVE  IsOpt(AnyOf(label, V), label, V)
<1>1. CASE V # {}
  <2>1. (CHOOSE v \in V : TRUE) \in V
    BY <1>1
  <2> QED BY <1>1, <2>1 DEF IsOpt, AnyOf, Opt, Only
<1>2. CASE V = {}
  BY <1>2 DEF IsOpt, AnyOf, Opt, NoProps
<1> QED BY <1>1, <1>2

\* What a script's outermost device writes.
CarriesThese(s, l) ==
  HasFields(Carried(s), Word(l.type), Values(l.opts, {"local"}), Destinations(s),
            Ports(s), SourcePorts(s), Values(l.opts, {"id"}), Values(l.opts, {"key"}))

\* It writes that.
LEMMA CarriedFields ==
  ASSUME NEW s, NEW l, l = OuterLink(s)
  PROVE  CarriesThese(s, l)
<1> DEFINE A == Values(l.opts, {"local"})
           B == Destinations(s)
           P == Ports(s)
           S == SourcePorts(s)
           N == Values(l.opts, {"id"})
           K == Values(l.opts, {"key"})
           a == AnyOf("outer source", A)
           b == AnyOf("outer destination", B)
           p == AnyOf("UDP destination port", P)
           q == AnyOf("UDP source port", S)
           n == AnyOf("VXLAN VNI", N)
           k == AnyOf("GRE key", K)
<1>1. Carried(s) = Only("encapsulation", Word(l.type)) ++ a ++ b ++ p ++ q ++ n ++ k
  BY Zenon DEF Carried, Word, Destinations, Ports, SourcePorts, Values
<1> HIDE DEF A, B, P, S, N, K
<1>2. /\ IsOpt(a, "outer source", A)
      /\ IsOpt(b, "outer destination", B)
      /\ IsOpt(p, "UDP destination port", P)
      /\ IsOpt(q, "UDP source port", S)
      /\ IsOpt(n, "VXLAN VNI", N)
      /\ IsOpt(k, "GRE key", K)
  BY AnyIsOpt, Zenon
<1> HIDE DEF a, b, p, q, n, k
<1>3. HasFields(Only("encapsulation", Word(l.type)) ++ a ++ b ++ p ++ q ++ n ++ k,
                Word(l.type), A, B, P, S, N, K)
  BY <1>2, FieldsOfOptions, Zenon
<1> QED BY <1>1, <1>3, Zenon DEF CarriesThese, A, B, P, S, N, K

\* These values, each under its label.
Pairs(w, A, B, P, S, N, K) ==
  {<<"encapsulation", w>>}
    \cup {<<"outer source", v>> : v \in A}
    \cup {<<"outer destination", v>> : v \in B}
    \cup {<<"UDP destination port", v>> : v \in P}
    \cup {<<"UDP source port", v>> : v \in S}
    \cup {<<"VXLAN VNI", v>> : v \in N}
    \cup {<<"GRE key", v>> : v \in K}

\* Every field has its pair, and every pair its field.
LEMMA FieldsArePairs ==
  ASSUME NEW c, NEW w, NEW A, NEW B, NEW P, NEW S, NEW N, NEW K,
         HasFields(c, w, A, B, P, S, N, K)
  PROVE  /\ \A key \in DOMAIN c : <<key, c[key]>> \in Pairs(w, A, B, P, S, N, K)
         /\ \A x \in Pairs(w, A, B, P, S, N, K) : x[1] \in DOMAIN c
<1>1. ASSUME NEW key \in DOMAIN c PROVE <<key, c[key]>> \in Pairs(w, A, B, P, S, N, K)
  <2>1. CASE key = "encapsulation"
    <3>1. <<key, c[key]>> = <<"encapsulation", w>>
      BY <2>1 DEF HasFields
    <3> QED BY <3>1, Zenon DEF Pairs
  <2>2. CASE key = "outer source"
    <3>1. c[key] \in A
      BY <2>2 DEF HasFields
    <3> QED BY <2>2, <3>1, Zenon DEF Pairs
  <2>3. CASE key = "outer destination"
    <3>1. c[key] \in B
      BY <2>3 DEF HasFields
    <3> QED BY <2>3, <3>1, Zenon DEF Pairs
  <2>4. CASE key = "UDP destination port"
    <3>1. c[key] \in P
      BY <2>4 DEF HasFields
    <3> QED BY <2>4, <3>1, Zenon DEF Pairs
  <2>5. CASE key = "UDP source port"
    <3>1. c[key] \in S
      BY <2>5 DEF HasFields
    <3> QED BY <2>5, <3>1, Zenon DEF Pairs
  <2>6. CASE key = "VXLAN VNI"
    <3>1. c[key] \in N
      BY <2>6 DEF HasFields
    <3> QED BY <2>6, <3>1, Zenon DEF Pairs
  <2>7. CASE key = "GRE key"
    <3>1. c[key] \in K
      BY <2>7 DEF HasFields
    <3> QED BY <2>7, <3>1, Zenon DEF Pairs
  <2> QED BY <2>1, <2>2, <2>3, <2>4, <2>5, <2>6, <2>7 DEF HasFields
<1>2. ASSUME NEW x \in Pairs(w, A, B, P, S, N, K) PROVE x[1] \in DOMAIN c
  <2>1. CASE x = <<"encapsulation", w>>
    BY <2>1 DEF HasFields
  <2>2. ASSUME NEW v \in A, x = <<"outer source", v>> PROVE x[1] \in DOMAIN c
    BY <2>2 DEF HasFields
  <2>3. ASSUME NEW v \in B, x = <<"outer destination", v>> PROVE x[1] \in DOMAIN c
    BY <2>3 DEF HasFields
  <2>4. ASSUME NEW v \in P, x = <<"UDP destination port", v>> PROVE x[1] \in DOMAIN c
    BY <2>4 DEF HasFields
  <2>5. ASSUME NEW v \in S, x = <<"UDP source port", v>> PROVE x[1] \in DOMAIN c
    BY <2>5 DEF HasFields
  <2>6. ASSUME NEW v \in N, x = <<"VXLAN VNI", v>> PROVE x[1] \in DOMAIN c
    BY <2>6 DEF HasFields
  <2>7. ASSUME NEW v \in K, x = <<"GRE key", v>> PROVE x[1] \in DOMAIN c
    BY <2>7 DEF HasFields
  <2> QED BY <2>1, <2>2, <2>3, <2>4, <2>5, <2>6, <2>7, Zenon DEF Pairs
<1> QED BY <1>1, <1>2

\* So a device carries what is said, where that is what it has.
LEMMA CarriedIsPredicted ==
  ASSUME NEW layers, NEW s, NEW w, NEW A, NEW B, NEW P, NEW S, NEW N, NEW K,
         HasFields(Carried(s), w, A, B, P, S, N, K), Said(layers) = Pairs(w, A, B, P, S, N, K),
         w = "VXLAN" /\ Carried(s)["UDP destination port"] = KnownPort =>
           Check(Expect(layers).facts, Shown(s)) = {}
  PROVE  Predicted(layers, s)
<1> DEFINE c == Carried(s)
           said == Said(layers)
<1>1. /\ \A key \in DOMAIN c : <<key, c[key]>> \in said
      /\ \A x \in said : x[1] \in DOMAIN c
  <2> HIDE DEF c
  <2>1. HasFields(c, w, A, B, P, S, N, K)
    BY DEF c
  <2>2. /\ \A key \in DOMAIN c : <<key, c[key]>> \in Pairs(w, A, B, P, S, N, K)
        /\ \A x \in Pairs(w, A, B, P, S, N, K) : x[1] \in DOMAIN c
    BY <2>1, FieldsArePairs, Zenon
  <2> QED BY <2>2, Zenon
<1>2. c["encapsulation"] = w
  BY DEF HasFields
<1> QED BY <1>1, <1>2, Zenon DEF Predicted

\* The key a point-to-point device is given, if there is one.
KeyIn(type, n) == IF type # "ipip" /\ Key(n) = "concrete" THEN {n.props.key} ELSE {}

\* The options of a point-to-point device.
LEMMA PointToPointCarries ==
  ASSUME NEW type, NEW sub, NEW name
  PROVE  LET o == PointToPoint(type, sub, name).opts
         IN /\ Values(o, {"local"}) = {sub[1].props.src.addr}
            /\ Values(o, {"remote", "group"}) = {sub[1].props.dst.addr}
            /\ Values(o, {"id"}) = {}
            /\ Values(o, {"key"}) = KeyIn(type, sub[2])
<1> DEFINE x == sub[1].props.src.addr
           y == sub[1].props.dst.addr
           a == Only("local", x)
           b == Only("remote", y)
           d == IF type # "ipip"
                THEN Opt(Key(sub[2]) = "concrete", "key", sub[2].props.key)
                ELSE NoProps
           ab == a ++ b
           o  == ab ++ d
<1>1. PointToPoint(type, sub, name).opts = o
  BY DEF PointToPoint, Link
<1> HIDE DEF x, y
<1>2. DOMAIN ab = {"local", "remote"} /\ ab["local"] = x /\ ab["remote"] = y
  BY DEF ++, Only
<1> DEFINE K == KeyIn(type, sub[2])
<1>3. /\ DOMAIN d \subseteq {"key"}
      /\ "key" \in DOMAIN d => K = {d["key"]}
      /\ "key" \notin DOMAIN d => K = {}
  BY DEF KeyIn, Opt, Only, NoProps
<1> HIDE DEF a, b, d, ab, K
<1>4. /\ "local" \in DOMAIN o /\ "remote" \in DOMAIN o
      /\ DOMAIN o \subseteq {"local", "remote", "key"}
      /\ "key" \in DOMAIN o <=> "key" \in DOMAIN d
      /\ o["local"] = x /\ o["remote"] = y
      /\ "key" \in DOMAIN d => o["key"] = d["key"]
  BY <1>2, <1>3 DEF ++
<1> HIDE DEF o
<1>5. /\ DOMAIN o \cap {"local"} = {"local"} /\ DOMAIN o \cap {"remote", "group"} = {"remote"}
      /\ DOMAIN o \cap {"id"} = {}
      /\ DOMAIN o \cap {"key"} = IF "key" \in DOMAIN d THEN {"key"} ELSE {}
  BY <1>4
<1>6. /\ Values(o, {"local"}) = {x} /\ Values(o, {"remote", "group"}) = {y}
      /\ Values(o, {"id"}) = {}
  BY <1>4, <1>5 DEF Values
<1>7. Values(o, {"key"}) = K
  BY <1>3, <1>4, <1>5 DEF Values
<1> QED BY <1>1, <1>6, <1>7 DEF x, y, K

\* The options of a VXLAN device.
LEMMA VXLANCarries ==
  ASSUME NEW sub, NEW name, NEW under
  PROVE  LET o   == VXLANLink(sub, name, under).opts
             src == sub[1].props.src
             dst == sub[1].props.dst
             vni == sub[3].props.vni
         IN /\ Values(o, {"local"}) = AddrIn(src)
            /\ Values(o, {"remote", "group"}) = AddrIn(dst)
            /\ o["dstport"] = sub[2].props.dst_port.num
            /\ Values(o, {"id"}) = NumIn(vni)
            /\ Values(o, {"key"}) = {}
<1> DEFINE src == sub[1].props.src
           dst == sub[1].props.dst
           vni == sub[3].props.vni
           port == sub[2].props.dst_port.num
           a == IF vni = Star THEN Only("external", TRUE) ELSE Only("id", vni.num)
           b == Opt(src # Star, "local", src.addr)
           d == Opt(dst # Star, IF Multicast(dst.addr) THEN "group" ELSE "remote", dst.addr)
           e == Only("dstport", port)
           ab  == a ++ b
           abd == ab ++ d
           o   == abd ++ e
<1>1. VXLANLink(sub, name, under).opts = o
  BY DEF VXLANLink, Link
<1> HIDE DEF src, dst, vni, port
<1>2. /\ DOMAIN a \subseteq {"external", "id"}
      /\ "id" \in DOMAIN a <=> vni # Star
      /\ vni # Star => a["id"] = vni.num
  BY DEF Only
<1>3. /\ DOMAIN b \subseteq {"local"}
      /\ "local" \in DOMAIN b <=> src # Star
      /\ src # Star => b["local"] = src.addr
  BY DEF Opt, Only, NoProps
<1>4. PICK key \in {"group", "remote"} :
        /\ DOMAIN d \subseteq {key}
        /\ key \in DOMAIN d <=> dst # Star
        /\ dst # Star => d[key] = dst.addr
  BY DEF Opt, Only, NoProps
<1>5. DOMAIN e = {"dstport"} /\ e["dstport"] = port
  BY DEF Only
<1> HIDE DEF a, b, d, e
<1>6. /\ DOMAIN ab = DOMAIN a \cup DOMAIN b
      /\ vni # Star => ab["id"] = vni.num
      /\ src # Star => ab["local"] = src.addr
  BY <1>2, <1>3 DEF ++
<1> HIDE DEF ab
<1>7. /\ DOMAIN abd = DOMAIN ab \cup DOMAIN d
      /\ vni # Star => abd["id"] = vni.num
      /\ src # Star => abd["local"] = src.addr
      /\ dst # Star => abd[key] = dst.addr
  BY <1>2, <1>3, <1>4, <1>6 DEF ++
<1> HIDE DEF abd
<1>8. /\ DOMAIN o = DOMAIN abd \cup {"dstport"}
      /\ vni # Star => o["id"] = vni.num
      /\ src # Star => o["local"] = src.addr
      /\ dst # Star => o[key] = dst.addr
      /\ o["dstport"] = port
  BY <1>2, <1>3, <1>4, <1>5, <1>6, <1>7 DEF ++
<1> HIDE DEF o
<1>9. /\ DOMAIN o \cap {"local"} = IF src = Star THEN {} ELSE {"local"}
      /\ DOMAIN o \cap {"remote", "group"} = IF dst = Star THEN {} ELSE {key}
      /\ DOMAIN o \cap {"key"} = {}
      /\ DOMAIN o \cap {"id"} = IF vni = Star THEN {} ELSE {"id"}
  BY <1>2, <1>3, <1>4, <1>6, <1>7, <1>8
<1>10. /\ Values(o, {"local"}) = IF src = Star THEN {} ELSE {src.addr}
       /\ Values(o, {"remote", "group"}) = IF dst = Star THEN {} ELSE {dst.addr}
       /\ Values(o, {"key"}) = {}
       /\ Values(o, {"id"}) = IF vni = Star THEN {} ELSE {vni.num}
  BY <1>8, <1>9 DEF Values
<1>11. /\ Values(o, {"local"}) = AddrIn(src) /\ Values(o, {"remote", "group"}) = AddrIn(dst)
       /\ Values(o, {"key"}) = {} /\ Values(o, {"id"}) = NumIn(vni)
  BY <1>10 DEF AddrIn, NumIn
<1> QED BY <1>1, <1>8, <1>11 DEF src, dst, vni, port

\* Of a device with nothing set on it.
LEMMA WithoutPeers ==
  ASSUME NEW s, NEW l, l = OuterLink(s), \A key : WgSettings(s, key) = {}
  PROVE  /\ Destinations(s) = Values(l.opts, {"remote", "group"})
         /\ Ports(s) = IF l.type = "vxlan" THEN {PortOf(l)} ELSE {}
         /\ SourcePorts(s) = {}
<1>1. Endpoints(s) = {} /\ WgSettings(s, "listen_port") = {}
  BY DEF Endpoints
<1> QED BY <1>1 DEF Destinations, Ports, SourcePorts, Values

\* What is said of a point-to-point device: two addresses, a protocol and a key.
LEMMA PointToPointSaid ==
  ASSUME NEW layers, NEW type, NEW filter, NEW w, endpoints(layers[1]),
         type = "ipip" => layers[2].name = "ipv4",
         type # "ipip" => layers[2].name = "gre" /\ Key(layers[2]) # "error",
         Expect(layers) = ExpectProtocol(layers[1], filter, w)
  PROVE  Said(layers) = Pairs(w, {layers[1].props.src.addr}, {layers[1].props.dst.addr},
                              {}, {}, {}, KeyIn(type, layers[2]))
<1> DEFINE x == layers[1].props.src.addr
           y == layers[1].props.dst.addr
           K == KeyIn(type, layers[2])
           fs == Expect(layers).facts
           fw == Encapsulation(w)
           fx == Fact("outer source", x, <<"%s.", x>>)
           fy == Fact("outer destination", y, <<"> %s", y>>)
<1>1. fs = {fw, fx, fy}
  <2>1. /\ SourceFact(layers[1]) = {fx}
        /\ DestinationFact(layers[1], <<"> %s", y>>) = {fy}
    BY Zenon DEF SourceFact, DestinationFact, When, endpoints
  <2> HIDE DEF fw, fx, fy
  <2>2. fs = {fw} \cup SourceFact(layers[1]) \cup DestinationFact(layers[1], <<"> %s", y>>)
    <3>1. fs = ExpectProtocol(layers[1], filter, w).facts
      OBVIOUS
    <3> HIDE DEF fs, x
    <3> QED BY <3>1 DEF ExpectProtocol, Predicts, fw
  <2> HIDE DEF fs, y
  <2> QED BY <2>1, <2>2
<1>2. /\ fw.label = "encapsulation" /\ fw.value = w
      /\ fx.label = "outer source" /\ fx.value = x
      /\ fy.label = "outer destination" /\ fy.value = y
  <2> HIDE DEF x, y
  <2> QED BY DEF Fact, Encapsulation
<1>3. Unsaid(layers) = {<<"GRE key", v>> : v \in K}
  <2>1. CASE type = "ipip"
    <3>1. layers[2].name = "ipv4" /\ K = {}
      BY <2>1 DEF KeyIn
    <3> HIDE DEF K
    <3> QED BY <3>1 DEF Unsaid
  <2>2. CASE type # "ipip"
    <3> DEFINE n == layers[2]
    <3>1. n.name = "gre" /\ Key(n) # "error"
      BY <2>2
    <3>2. Lookup(n, "key") /\ n.props["key"] # Star <=> Key(n) = "concrete"
      BY <3>1 DEF Key, Get
    <3>3. CASE Key(n) = "concrete"
      <4>1. K = {n.props.key}
        BY <2>2, <3>3 DEF KeyIn
      <4>2. Unsaid(layers) = {<<"GRE key", n.props.key>>}
        BY <3>1, <3>2, <3>3 DEF Unsaid
      <4> HIDE DEF K, n
      <4> QED BY <4>1, <4>2
    <3>4. CASE Key(n) # "concrete"
      <4>1. K = {}
        BY <3>4 DEF KeyIn
      <4>2. Unsaid(layers) = {}
        BY <3>1, <3>2, <3>4 DEF Unsaid
      <4> HIDE DEF K
      <4> QED BY <4>1, <4>2
    <3> QED BY <3>3, <3>4
  <2> QED BY <2>1, <2>2
<1> HIDE DEF x, y, K, fs, fw, fx, fy
<1>4. Says(fs) = {<<"encapsulation", w>>, <<"outer source", x>>, <<"outer destination", y>>}
  <2>1. Says({fw, fx, fy}) = {<<fw.label, fw.value>>, <<fx.label, fx.value>>, <<fy.label, fy.value>>}
    BY DEF Says
  <2> QED BY <1>1, <1>2, <2>1
<1>5. Pairs(w, {x}, {y}, {}, {}, {}, K) =
        {<<"encapsulation", w>>, <<"outer source", x>>, <<"outer destination", y>>}
          \cup {<<"GRE key", v>> : v \in K}
  BY DEF Pairs
<1>6. Said(layers) = Pairs(w, {x}, {y}, {}, {}, {}, K)
  BY <1>3, <1>4, <1>5 DEF Said, fs
<1> QED BY <1>6 DEF x, y, K

\* A point-to-point device.
LEMMA PointToPointPredicted ==
  ASSUME NEW layers, NEW s, NEW type \in {"ipip", "gre", "gretap"}, NEW sub, NEW name,
         NEW filter, OuterLink(s) = PointToPoint(type, sub, name),
         \A key : WgSettings(s, key) = {},
         sub[1] = layers[1], sub[2] = layers[2], endpoints(layers[1]),
         type = "ipip" => layers[2].name = "ipv4",
         type # "ipip" => layers[2].name = "gre" /\ Key(layers[2]) # "error",
         Expect(layers) = ExpectProtocol(layers[1], filter, Word(type))
  PROVE  Predicted(layers, s)
<1> DEFINE l == OuterLink(s)
           w == Word(type)
           x == layers[1].props.src.addr
           y == layers[1].props.dst.addr
           K == KeyIn(type, layers[2])
<1>1. w # "VXLAN"
  BY DEF Word
<1>2. l.type = type
  BY DEF PointToPoint, Link
<1>3. /\ Values(l.opts, {"local"}) = {x} /\ Values(l.opts, {"remote", "group"}) = {y}
      /\ Values(l.opts, {"id"}) = {} /\ Values(l.opts, {"key"}) = K
  BY PointToPointCarries
<1>4. Said(layers) = Pairs(w, {x}, {y}, {}, {}, {}, K)
  BY PointToPointSaid
<1> HIDE DEF x, y, w, l, K
<1>5. Destinations(s) = {y} /\ Ports(s) = {} /\ SourcePorts(s) = {}
  BY <1>2, <1>3, WithoutPeers DEF l
<1>6. HasFields(Carried(s), w, {x}, {y}, {}, {}, {}, K)
  <2>1. CarriesThese(s, l)
    BY CarriedFields, Zenon DEF l
  <2>2. Word(l.type) = w
    BY <1>2 DEF w
  <2> QED BY <1>3, <1>5, <2>1, <2>2, Zenon DEF CarriesThese
<1> QED BY <1>1, <1>4, <1>6, CarriedIsPredicted, Zenon

\* The facts of a tunnel under UDP that has these values.
UDPFacts(w, A, B, port, N) ==
  {Fact("UDP destination port", port, <<"%d", port>>), Encapsulation(w)}
    \cup {Fact("outer source", a, <<"%s.", a>>) : a \in A}
    \cup {Fact("outer destination", b, <<"> %s.%d", b, port>>) : b \in B}
    \cup {Fact("VXLAN VNI", v, <<"vni %d", v>>) : v \in N}

\* They say these values, ...
LEMMA UDPFactsSay ==
  ASSUME NEW w, NEW A, NEW B, NEW port, NEW N
  PROVE  Says(UDPFacts(w, A, B, port, N)) = Pairs(w, A, B, {port}, {}, N, {})
<1> DEFINE fs == UDPFacts(w, A, B, port, N)
           ps == Pairs(w, A, B, {port}, {}, N, {})
<1>1. \A label, v, m : Fact(label, v, m).label = label /\ Fact(label, v, m).value = v
  BY DEF Fact
<1>2. ASSUME NEW label, NEW v, NEW m, Fact(label, v, m) \in fs
      PROVE  <<label, v>> \in Says(fs)
  <2> DEFINE f == Fact(label, v, m)
  <2>1. f.label = label /\ f.value = v
    BY <1>1
  <2> HIDE DEF f
  <2>2. f \in fs
    BY <1>2 DEF f
  <2> HIDE DEF fs
  <2>3. <<f.label, f.value>> \in Says(fs)
    BY <2>2, Zenon DEF Says
  <2> QED BY <2>1, <2>3
<1>3. ASSUME NEW x \in Says(fs) PROVE x \in ps
  <2>1. PICK f \in fs : x = <<f.label, f.value>>
    BY <1>3, Zenon DEF Says
  <2>2. ASSUME NEW label, NEW v, NEW m, f = Fact(label, v, m) PROVE x = <<label, v>>
    BY <1>1, <2>1, <2>2, Zenon
  <2>3. CASE f = Fact("UDP destination port", port, <<"%d", port>>)
    BY <2>2, <2>3, Zenon DEF Pairs
  <2>4. CASE f = Fact("encapsulation", w, <<w>>)
    BY <2>2, <2>4, Zenon DEF Pairs
  <2>5. ASSUME NEW a \in A, f = Fact("outer source", a, <<"%s.", a>>) PROVE x \in ps
    BY <2>2, <2>5, Zenon DEF Pairs
  <2>6. ASSUME NEW b \in B, f = Fact("outer destination", b, <<"> %s.%d", b, port>>)
        PROVE  x \in ps
    BY <2>2, <2>6, Zenon DEF Pairs
  <2>7. ASSUME NEW v \in N, f = Fact("VXLAN VNI", v, <<"vni %d", v>>) PROVE x \in ps
    BY <2>2, <2>7, Zenon DEF Pairs
  <2> QED BY <2>3, <2>4, <2>5, <2>6, <2>7, Zenon DEF UDPFacts, Encapsulation
<1>4. ASSUME NEW x \in ps PROVE x \in Says(fs)
  <2>1. CASE x = <<"encapsulation", w>>
    <3>1. Fact("encapsulation", w, <<w>>) \in fs
      BY Zenon DEF UDPFacts, Encapsulation
    <3> QED BY <1>2, <2>1, <3>1, Zenon
  <2>2. CASE x = <<"UDP destination port", port>>
    <3>1. Fact("UDP destination port", port, <<"%d", port>>) \in fs
      BY Zenon DEF UDPFacts
    <3> QED BY <1>2, <2>2, <3>1, Zenon
  <2>3. ASSUME NEW a \in A, x = <<"outer source", a>> PROVE x \in Says(fs)
    <3>1. Fact("outer source", a, <<"%s.", a>>) \in fs
      BY Zenon DEF UDPFacts
    <3> QED BY <1>2, <2>3, <3>1, Zenon
  <2>4. ASSUME NEW b \in B, x = <<"outer destination", b>> PROVE x \in Says(fs)
    <3>1. Fact("outer destination", b, <<"> %s.%d", b, port>>) \in fs
      BY Zenon DEF UDPFacts
    <3> QED BY <1>2, <2>4, <3>1, Zenon
  <2>5. ASSUME NEW v \in N, x = <<"VXLAN VNI", v>> PROVE x \in Says(fs)
    <3>1. Fact("VXLAN VNI", v, <<"vni %d", v>>) \in fs
      BY Zenon DEF UDPFacts
    <3> QED BY <1>2, <2>5, <3>1, Zenon
  <2> QED BY <2>1, <2>2, <2>3, <2>4, <2>5, Zenon DEF Pairs
<1> HIDE DEF fs, ps
<1>5. Says(fs) = ps
  BY <1>3, <1>4, Zenon
<1> QED BY <1>5 DEF fs, ps

\* At most one value.
OneValue(V) == \A a, b \in V : a = b

\* ... and a capture of the device shows it.
LEMMA VXLANFactsShown ==
  ASSUME NEW s, NEW A, NEW B, NEW port, NEW N, OneValue(A), OneValue(B), OneValue(N),
         HasFields(Carried(s), "VXLAN", A, B, {port}, {}, N, {}), port = KnownPort
  PROVE  Check(UDPFacts("VXLAN", A, B, port, N), Shown(s)) = {}
<1> DEFINE c == Carried(s)
           of(label) == {c[k] : k \in DOMAIN c \cap {label}}
           dots == IF of("UDP destination port") # {} THEN of("outer source") ELSE {}
           own  == {a.addr : a \in ToSet(PlacedBy(s))}
           told == c["encapsulation"] # "VXLAN" \/ of("UDP destination port") = {KnownPort}
           S1 == {<<"IP">>, <<IF told THEN c["encapsulation"] ELSE "UDP">>}
           S2 == {<<"%s.", a>> : a \in dots \cup own}
           S3 == {<<"> %s", b>> : b \in of("outer destination")}
           S4 == {<<"%d", p>> : p \in of("UDP destination port")}
           S5 == {<<"vni %d", v>> : v \in IF told THEN of("VXLAN VNI") ELSE {}}
           S6 == UNION {{<<"> %s.%d", b, p>> : b \in of("outer destination")} :
                          p \in of("UDP destination port")}
           sh == S1 \cup S2 \cup S3 \cup S4 \cup S5 \cup S6
<1>1. Shown(s) = sh
  BY Zenon DEF Shown
<1> HIDE DEF c
<1>2. /\ c["encapsulation"] = "VXLAN"
      /\ port \in of("UDP destination port") /\ of("UDP destination port") = {port}
      /\ \A a \in A : a \in of("outer source")
      /\ \A b \in B : b \in of("outer destination")
      /\ \A v \in N : v \in of("VXLAN VNI")
  <2> HIDE DEF own
  <2>1. HasFields(c, "VXLAN", A, B, {port}, {}, N, {})
    BY DEF c
  <2>2. \A label \in DOMAIN c : of(label) = {c[label]}
    OBVIOUS
  <2> HIDE DEF of
  <2>3. c["encapsulation"] = "VXLAN" /\ of("UDP destination port") = {port}
    BY <2>1, <2>2 DEF HasFields
  <2>4. ASSUME NEW a \in A PROVE a \in of("outer source")
    <3>1. "outer source" \in DOMAIN c /\ c["outer source"] \in A
      BY <2>1, <2>4 DEF HasFields
    <3>2. c["outer source"] = a
      BY <3>1 DEF OneValue
    <3> QED BY <2>2, <3>1, <3>2
  <2>5. ASSUME NEW b \in B PROVE b \in of("outer destination")
    <3>1. "outer destination" \in DOMAIN c /\ c["outer destination"] \in B
      BY <2>1, <2>5 DEF HasFields
    <3>2. c["outer destination"] = b
      BY <3>1 DEF OneValue
    <3> QED BY <2>2, <3>1, <3>2
  <2>6. ASSUME NEW v \in N PROVE v \in of("VXLAN VNI")
    <3>1. "VXLAN VNI" \in DOMAIN c /\ c["VXLAN VNI"] \in N
      BY <2>1, <2>6 DEF HasFields
    <3>2. c["VXLAN VNI"] = v
      BY <3>1 DEF OneValue
    <3> QED BY <2>2, <3>1, <3>2
  <2> QED BY <2>3, <2>4, <2>5, <2>6
<1>3. told
  BY <1>2
<1> HIDE DEF of, own, told
<1>4. \A a \in A : a \in dots
  BY <1>2
<1> HIDE DEF dots
<1>5. /\ <<"VXLAN">> \in sh /\ <<"%d", port>> \in sh
      /\ \A a \in A : <<"%s.", a>> \in sh
      /\ \A b \in B : <<"> %s.%d", b, port>> \in sh
      /\ \A v \in N : <<"vni %d", v>> \in sh
  <2> HIDE DEF sh
  <2>1. <<"VXLAN">> \in S1
    BY <1>2, <1>3, Zenon
  <2>2. <<"%d", port>> \in S4
    BY <1>2, Zenon
  <2>3. \A a \in A : <<"%s.", a>> \in S2
    BY <1>4, Zenon
  <2>4. ASSUME NEW x \in B PROVE <<"> %s.%d", x, port>> \in S6
    <3> DEFINE D(p) == {<<"> %s.%d", b, p>> : b \in of("outer destination")}
    <3>1. <<"> %s.%d", x, port>> \in D(port)
      BY <1>2, <2>4, Zenon
    <3>2. D(port) \in {D(p) : p \in of("UDP destination port")}
      BY <1>2, Zenon
    <3> QED BY <3>1, <3>2, Zenon
  <2>5. \A v \in N : <<"vni %d", v>> \in S5
    BY <1>2, <1>3, Zenon
  <2> HIDE DEF S1, S2, S3, S4, S5, S6
  <2> QED BY <2>1, <2>2, <2>3, <2>4, <2>5 DEF sh
<1> HIDE DEF sh
<1>6. ASSUME NEW f \in UDPFacts("VXLAN", A, B, port, N) PROVE f.match \in sh
  <2>1. CASE f = Fact("UDP destination port", port, <<"%d", port>>)
    <3>1. f.match = <<"%d", port>>
      BY <2>1 DEF Fact
    <3> QED BY <1>5, <3>1
  <2>2. CASE f = Encapsulation("VXLAN")
    <3>1. f.match = <<"VXLAN">>
      BY <2>2 DEF Fact, Encapsulation
    <3> QED BY <1>5, <3>1
  <2>3. ASSUME NEW a \in A, f = Fact("outer source", a, <<"%s.", a>>) PROVE f.match \in sh
    <3>1. f.match = <<"%s.", a>>
      BY <2>3 DEF Fact
    <3> QED BY <1>5, <3>1
  <2>4. ASSUME NEW b \in B, f = Fact("outer destination", b, <<"> %s.%d", b, port>>)
        PROVE  f.match \in sh
    <3>1. f.match = <<"> %s.%d", b, port>>
      BY <2>4 DEF Fact
    <3> QED BY <1>5, <3>1
  <2>5. ASSUME NEW v \in N, f = Fact("VXLAN VNI", v, <<"vni %d", v>>) PROVE f.match \in sh
    <3>1. f.match = <<"vni %d", v>>
      BY <2>5 DEF Fact
    <3> QED BY <1>5, <3>1
  <2> QED BY <2>1, <2>2, <2>3, <2>4, <2>5, Zenon DEF UDPFacts
<1> QED BY <1>1, <1>6 DEF Check

\* An address that the tile reads and the prediction does not refuse is there:
\* one, or '*'.
LEMMA AddressRead ==
  ASSUME NEW n, NEW key, readEndpoint(n, key) \in {"concrete", "dynamic"},
         Get(n, key, "addr") # "error"
  PROVE  Get(n, key, "addr") = IF n.props[key] = Star THEN "dynamic" ELSE "concrete"
BY DEF readEndpoint, Get, Lookup

\* A VNI that the tile reads is there too.
LEMMA VNIRead ==
  ASSUME NEW n, VNI(n) \in {"concrete", "dynamic"}
  PROVE  VNI(n) = IF n.props["vni"] = Star THEN "dynamic" ELSE "concrete"
BY DEF VNI, Get, Lookup

\* What a prediction under UDP says of a VXLAN tunnel: its values.
SaysVXLAN(outer, transport, n) ==
  ExpectUDP(outer, transport, {n}).facts =
    UDPFacts("VXLAN", AddrIn(outer.props.src), AddrIn(outer.props.dst),
               transport.props.dst_port.num, NumIn(n.props.vni))

\* It says that of every tunnel the tile makes.
LEMMA ExpectVXLAN ==
  ASSUME NEW outer, NEW transport, NEW n, n.name = "vxlan",
         ReadyVXLAN(outer, transport, n), Src(outer) # "error", Dst(outer) # "error"
  PROVE  SaysVXLAN(outer, transport, n)
<1> DEFINE src == outer.props.src
           dst == outer.props.dst
           vni == n.props.vni
           port == transport.props.dst_port.num
           A == AddrIn(src)
           B == AddrIn(dst)
           N == NumIn(vni)
           fp == Fact("UDP destination port", port, <<"%d", port>>)
           fw == Encapsulation("VXLAN")
           FA == {Fact("outer source", a, <<"%s.", a>>) : a \in A}
           FB == {Fact("outer destination", b, <<"> %s.%d", b, port>>) : b \in B}
           FN == {Fact("VXLAN VNI", v, <<"vni %d", v>>) : v \in N}
<1>1. /\ DstPort(transport) = "concrete"
      /\ VNI(n) \in {"concrete", "dynamic"}
      /\ readEndpoint(outer, "src") \in {"concrete", "dynamic"}
      /\ readEndpoint(outer, "dst") \in {"concrete", "dynamic"}
  BY DEF ReadyVXLAN
<1>2. /\ Src(outer) = IF src = Star THEN "dynamic" ELSE "concrete"
      /\ Dst(outer) = IF dst = Star THEN "dynamic" ELSE "concrete"
      /\ VNI(n) = IF vni = Star THEN "dynamic" ELSE "concrete"
  BY <1>1, AddressRead, VNIRead DEF Src, Dst
<1> HIDE DEF src, dst, vni
<1>3. SourceFact(outer) = FA
  <2>1. SourceFact(outer) = When(Src(outer), Fact("outer source", src.addr, <<"%s.", src.addr>>))
    BY Zenon DEF SourceFact, src
  <2>2. CASE src = Star
    BY <1>2, <2>1, <2>2 DEF When, AddrIn, NumIn
  <2>3. CASE src # Star
    BY <1>2, <2>1, <2>3 DEF When, AddrIn, NumIn
  <2> QED BY <2>2, <2>3
<1>4. DestinationFact(outer, <<"> %s.%d", dst.addr, port>>) = FB
  <2>1. DestinationFact(outer, <<"> %s.%d", dst.addr, port>>)
          = When(Dst(outer), Fact("outer destination", dst.addr, <<"> %s.%d", dst.addr, port>>))
    BY Zenon DEF DestinationFact, dst
  <2> HIDE DEF port
  <2>2. CASE dst = Star
    BY <1>2, <2>1, <2>2 DEF When, AddrIn, NumIn
  <2>3. CASE dst # Star
    BY <1>2, <2>1, <2>3 DEF When, AddrIn, NumIn
  <2> QED BY <2>2, <2>3
<1>5. tunnelFacts(n) = {fw} \cup FN
  <2>1. tunnelFacts(n) = {fw} \cup When(VNI(n), Fact("VXLAN VNI", vni.num, <<"vni %d", vni.num>>))
    BY DEF tunnelFacts, vni
  <2>2. CASE vni = Star
    BY <1>2, <2>1, <2>2 DEF When, AddrIn, NumIn
  <2>3. CASE vni # Star
    BY <1>2, <2>1, <2>3 DEF When, AddrIn, NumIn
  <2> QED BY <2>2, <2>3
<1>6. ExpectUDP(outer, transport, {n}).facts =
        {fp} \cup SourceFact(outer)
          \cup DestinationFact(outer, <<"> %s.%d", dst.addr, port>>)
          \cup UNION {tunnelFacts(m) : m \in {n}}
  <2>1. ~(DstPort(transport) # "concrete"
            \/ \E m \in {n} : m.name = "vxlan" /\ VNI(m) = "error")
    BY <1>1
  <2> DEFINE fs == {fp} \cup SourceFact(outer)
                     \cup DestinationFact(outer, <<"> %s.%d", dst.addr, port>>)
                     \cup UNION {tunnelFacts(m) : m \in {n}}
  <2>2. ExpectUDP(outer, transport, {n}) = Predicts(<<"udp port", port>>, fs)
    BY <2>1, Zenon DEF ExpectUDP, dst
  <2> HIDE DEF fs
  <2>3. ExpectUDP(outer, transport, {n}).facts = fs
    <3>1. \A f : Predicts(f, fs).facts = fs
      BY DEF Predicts
    <3> QED BY <2>2, <3>1, Zenon
  <2> QED BY <2>3 DEF fs
<1>7. UNION {tunnelFacts(m) : m \in {n}} = tunnelFacts(n)
  OBVIOUS
<1> DEFINE T == tunnelFacts(n)
           U == UNION {tunnelFacts(m) : m \in {n}}
           Y == DestinationFact(outer, <<"> %s.%d", dst.addr, port>>)
           X == SourceFact(outer)
           E == ExpectUDP(outer, transport, {n}).facts
<1>8. UDPFacts("VXLAN", A, B, port, N) = {fp, fw} \cup FA \cup FB \cup FN
  BY Zenon DEF UDPFacts
<1>9. E = {fp} \cup X \cup Y \cup U /\ U = T /\ T = {fw} \cup FN /\ Y = FB /\ X = FA
  BY <1>3, <1>4, <1>5, <1>6, <1>7
<1> HIDE DEF A, B, N, port, fp, fw, FA, FB, FN, T, U, Y, X, E
<1>10. E = UDPFacts("VXLAN", A, B, port, N)
  BY <1>8, <1>9
<1> QED BY <1>10 DEF SaysVXLAN, E, A, B, N, port, src, dst, vni

\* A VXLAN device.
LEMMA VXLANPredicted ==
  ASSUME NEW layers, NEW s, NEW sub, NEW name, NEW under,
         OuterLink(s) = VXLANLink(sub, name, under), \A key : WgSettings(s, key) = {},
         sub[1] = layers[1], sub[2] = layers[2], sub[3] = layers[3],
         layers[2].name = "udp", layers[3].name = "vxlan",
         layers[2].props.dst_port.num # 0, ReadyVXLAN(layers[1], layers[2], layers[3]),
         Src(layers[1]) # "error", Dst(layers[1]) # "error",
         Expect(layers) = ExpectUDP(layers[1], layers[2], {layers[3]})
  PROVE  Predicted(layers, s)
<1> DEFINE l == OuterLink(s)
           c == Carried(s)
           src == layers[1].props.src
           dst == layers[1].props.dst
           vni == layers[3].props.vni
           port == layers[2].props.dst_port.num
           A == AddrIn(src)
           B == AddrIn(dst)
           N == NumIn(vni)
           fs == Expect(layers).facts
<1>1. fs = UDPFacts("VXLAN", A, B, port, N)
  <2>1. ExpectUDP(layers[1], layers[2], {layers[3]}).facts = UDPFacts("VXLAN", A, B, port, N)
    <3>1. SaysVXLAN(layers[1], layers[2], layers[3])
      BY ExpectVXLAN, Zenon
    <3> QED BY <3>1 DEF SaysVXLAN
  <2> HIDE DEF A, B, port, N
  <2> QED BY <2>1
<1>2. l.type = "vxlan"
  BY DEF VXLANLink, Link
<1>3. /\ Values(l.opts, {"local"}) = A /\ Values(l.opts, {"remote", "group"}) = B
      /\ PortOf(l) = port /\ Values(l.opts, {"id"}) = N /\ Values(l.opts, {"key"}) = {}
  <2> DEFINE o == VXLANLink(sub, name, under).opts
  <2>1. /\ Values(o, {"local"}) = AddrIn(sub[1].props.src)
        /\ Values(o, {"remote", "group"}) = AddrIn(sub[1].props.dst)
        /\ o["dstport"] = sub[2].props.dst_port.num
        /\ Values(o, {"id"}) = NumIn(sub[3].props.vni)
        /\ Values(o, {"key"}) = {}
    BY VXLANCarries
  <2> HIDE DEF o
  <2>2. l.opts = o
    BY DEF o
  <2>3. PortOf(l) = port
    BY <2>1, <2>2 DEF PortOf
  <2> QED BY <2>1, <2>2, <2>3
<1>4. OneValue(A) /\ OneValue(B) /\ OneValue(N)
  <2> HIDE DEF src, dst, vni
  <2> QED BY DEF OneValue, AddrIn, NumIn
<1>5. Unsaid(layers) = {}
  BY DEF Unsaid
<1> HIDE DEF src, dst, vni, A, B, N, port, l, c, fs
<1>6. Destinations(s) = B /\ Ports(s) = {port} /\ SourcePorts(s) = {}
  BY <1>2, <1>3, WithoutPeers DEF l
<1>7. HasFields(c, "VXLAN", A, B, {port}, {}, N, {})
  <2>1. CarriesThese(s, l)
    BY CarriedFields, Zenon DEF l
  <2>2. Word(l.type) = "VXLAN"
    BY <1>2 DEF Word
  <2> QED BY <1>3, <1>6, <2>1, <2>2, Zenon DEF CarriesThese, c
<1>8. Said(layers) = Pairs("VXLAN", A, B, {port}, {}, N, {})
  <2>1. Says(fs) = Pairs("VXLAN", A, B, {port}, {}, N, {})
    BY <1>1, UDPFactsSay, Zenon
  <2> QED BY <1>5, <2>1 DEF Said, fs
<1>9. c["UDP destination port"] = KnownPort => Check(fs, Shown(s)) = {}
  <2> SUFFICES ASSUME c["UDP destination port"] = KnownPort PROVE Check(fs, Shown(s)) = {}
    OBVIOUS
  <2>1. port = KnownPort
    BY <1>7 DEF HasFields
  <2> QED BY <1>1, <1>4, <1>7, <2>1, VXLANFactsShown, Zenon DEF c
<1> QED BY <1>7, <1>8, <1>9, CarriedIsPredicted, Zenon DEF c, fs

\* The endpoint a WireGuard tile gives its peer.
EndpointOf(outer, transport) ==
  <<outer.props.dst.addr,
    IF DstPort(transport) = "concrete" THEN transport.props.dst_port.num
                                       ELSE transport.props.src_port.num>>

\* Where a prediction under UDP says a WireGuard tunnel comes from and goes to.
SaidSource(outer)      == IF Src(outer) = "concrete" THEN {outer.props.src.addr} ELSE {}
SaidDestination(outer) == IF Dst(outer) = "concrete" THEN {outer.props.dst.addr} ELSE {}

\* What is said of a WireGuard tunnel.
LEMMA WireGuardSaid ==
  ASSUME NEW layers, layers[2].name = "udp", layers[3].name = "wireguard",
         DstPort(layers[2]) = "concrete",
         Expect(layers) = ExpectUDP(layers[1], layers[2], {layers[3]})
  PROVE  Said(layers) = Pairs("UDP", SaidSource(layers[1]), SaidDestination(layers[1]),
                              {layers[2].props.dst_port.num},
                              {layers[2].props.src_port.num} \ {0}, {}, {})
<1> DEFINE outer == layers[1]
           A  == SaidSource(outer)
           B  == SaidDestination(outer)
           y  == outer.props.dst.addr
           port == layers[2].props.dst_port.num
           from == layers[2].props.src_port.num
           fs == Expect(layers).facts
           fp == Fact("UDP destination port", port, <<"%d", port>>)
           fw == Encapsulation("UDP")
           FA == SourceFact(outer)
           FB == DestinationFact(outer, <<"> %s.%d", y, port>>)
<1>1. fs = {fp} \cup FA \cup FB \cup {fw}
  <2>1. ~\E m \in {layers[3]} : m.name = "vxlan" /\ VNI(m) = "error"
    OBVIOUS
  <2> DEFINE U == UNION {tunnelFacts(m) : m \in {layers[3]}}
             gs == {fp} \cup FA \cup FB \cup U
  <2>2. Expect(layers) = Predicts(<<"udp port", port>>, gs)
    BY <2>1, Zenon DEF ExpectUDP
  <2>3. U = {fw}
    <3>1. tunnelFacts(layers[3]) = {fw}
      BY DEF tunnelFacts
    <3> HIDE DEF fw
    <3> QED BY <3>1
  <2> HIDE DEF gs
  <2>4. \A f : Predicts(f, gs).facts = gs
    BY DEF Predicts
  <2>5. fs = gs
    BY <2>2, <2>4, Zenon
  <2> HIDE DEF fs, fp, fw, FA, FB, U
  <2> QED BY <2>3, <2>5 DEF gs
<1>2. /\ FA = {Fact("outer source", a, <<"%s.", a>>) : a \in A}
      /\ FB = {Fact("outer destination", b, <<"> %s.%d", b, port>>) : b \in B}
  <2> DEFINE x == outer.props.src.addr
  <2>1. /\ FA = When(Src(outer), Fact("outer source", x, <<"%s.", x>>))
        /\ FB = When(Dst(outer), Fact("outer destination", y, <<"> %s.%d", y, port>>))
    BY Zenon DEF SourceFact, DestinationFact
  <2>2. /\ A = IF Src(outer) = "concrete" THEN {x} ELSE {}
        /\ B = IF Dst(outer) = "concrete" THEN {y} ELSE {}
    BY Zenon DEF SaidSource, SaidDestination
  <2> HIDE DEF x, y, port, A, B, FA, FB
  <2>3. FA = {Fact("outer source", a, <<"%s.", a>>) : a \in A}
    BY <2>1, <2>2 DEF When
  <2>4. FB = {Fact("outer destination", b, <<"> %s.%d", b, port>>) : b \in B}
    BY <2>1, <2>2 DEF When
  <2> QED BY <2>3, <2>4
<1>3. Unsaid(layers) = {<<"UDP source port", v>> : v \in {from} \ {0}}
  <2>1. Unsaid(layers) = IF from # 0 THEN {<<"UDP source port", from>>} ELSE {}
    BY DEF Unsaid
  <2> HIDE DEF from
  <2> QED BY <2>1
<1> HIDE DEF outer, A, B, y, port, from, fs
<1>4. fs = UDPFacts("UDP", A, B, port, {})
  <2> DEFINE FN == {Fact("VXLAN VNI", v, <<"vni %d", v>>) : v \in {}}
             GA == {Fact("outer source", a, <<"%s.", a>>) : a \in A}
             GB == {Fact("outer destination", b, <<"> %s.%d", b, port>>) : b \in B}
  <2>1. UDPFacts("UDP", A, B, port, {}) = {fp, fw} \cup GA \cup GB \cup FN
    BY Zenon DEF UDPFacts
  <2>2. FN = {}
    OBVIOUS
  <2>3. fs = {fp} \cup GA \cup GB \cup {fw}
    BY <1>1, <1>2, Zenon
  <2> HIDE DEF fp, fw, FN, GA, GB
  <2> QED BY <2>1, <2>2, <2>3
<1>5. Says(fs) = Pairs("UDP", A, B, {port}, {}, {}, {})
  BY <1>4, UDPFactsSay, Zenon
<1>6. Pairs("UDP", A, B, {port}, {}, {}, {}) \cup {<<"UDP source port", v>> : v \in {from} \ {0}}
        = Pairs("UDP", A, B, {port}, {from} \ {0}, {}, {})
  BY DEF Pairs
<1>7. Said(layers) = Pairs("UDP", A, B, {port}, {from} \ {0}, {}, {})
  BY <1>3, <1>5, <1>6, Zenon DEF Said, fs
<1> QED BY <1>7 DEF outer, A, B, port, from

\* A WireGuard device carries that, but for what it does not read or has no peer
\* for.
LEMMA WireGuardPredicted ==
  ASSUME NEW layers, NEW s, NEW name,
         OuterLink(s) = Link("wireguard", name, NoDev, NoProps),
         Endpoints(s) = (IF readEndpoint(layers[1], "dst") = "concrete"
                         THEN {EndpointOf(layers[1], layers[2])} ELSE {}),
         WgSettings(s, "listen_port") = {layers[2].props.src_port.num},
         layers[2].name = "udp", layers[3].name = "wireguard", Dst(layers[1]) # "error",
         Expect(layers) = ExpectUDP(layers[1], layers[2], {layers[3]})
  PROVE  Predicted(layers, s)
<1> SUFFICES ASSUME Expect(layers).ok PROVE Predicted(layers, s)
  BY Zenon DEF Predicted
<1> DEFINE l == OuterLink(s)
           c == Carried(s)
           outer == layers[1]
           y == outer.props.dst.addr
           port == layers[2].props.dst_port.num
           A == SaidSource(outer)
           B == SaidDestination(outer)
           P == IF Dst(outer) = "concrete" THEN {port} ELSE {}
           S == {layers[2].props.src_port.num} \ {0}
<1>1. DstPort(layers[2]) = "concrete"
  <2>1. DstPort(layers[2]) # "concrete" => Expect(layers) = NoPrediction
    BY Zenon DEF ExpectUDP
  <2>2. ~NoPrediction.ok
    BY DEF NoPrediction
  <2> QED BY <2>1, <2>2, Zenon
<1>2. Said(layers) = Pairs("UDP", A, B, {port}, S, {}, {})
  BY <1>1, WireGuardSaid, Zenon
<1>3. l.type = "wireguard" /\ l.opts = NoProps
  BY DEF Link
<1>4. /\ Values(l.opts, {"local"}) = {} /\ Values(l.opts, {"remote", "group"}) = {}
      /\ Values(l.opts, {"key"}) = {} /\ Values(l.opts, {"id"}) = {}
  <2> HIDE DEF l
  <2>1. DOMAIN NoProps = {}
    BY DEF NoProps
  <2> QED BY <1>3, <2>1 DEF Values
<1>5. Destinations(s) = B /\ Ports(s) = P
  <2>1. readEndpoint(outer, "dst") = "concrete" <=> Dst(outer) = "concrete"
    BY DEF readEndpoint, Dst, Get, Lookup
  <2>2. EndpointOf(layers[1], layers[2]) = <<y, port>>
    BY <1>1, Zenon DEF EndpointOf
  <2>3. /\ Destinations(s) = Values(l.opts, {"remote", "group"}) \cup {e[1] : e \in Endpoints(s)}
        /\ Ports(s) = (IF l.type = "vxlan" THEN {PortOf(l)} ELSE {})
                        \cup {e[2] : e \in Endpoints(s)}
    BY Zenon DEF Destinations, Ports, Values
  <2>4. B = IF Dst(outer) = "concrete" THEN {y} ELSE {}
    BY Zenon DEF SaidDestination
  <2> HIDE DEF l, y, port, B
  <2>5. CASE Dst(outer) = "concrete"
    <3>1. Endpoints(s) = {<<y, port>>}
      BY <2>1, <2>2, <2>5, Zenon
    <3> HIDE DEF outer
    <3>2. {e[1] : e \in Endpoints(s)} = {y} /\ {e[2] : e \in Endpoints(s)} = {port}
      <4> DEFINE e0 == <<y, port>>
      <4>1. e0[1] = y /\ e0[2] = port
        OBVIOUS
      <4> PICK E : E = Endpoints(s)
        OBVIOUS
      <4>2. E = {e0}
        BY <3>1
      <4> HIDE DEF e0
      <4>3. {e[1] : e \in E} = {e0[1]} /\ {e[2] : e \in E} = {e0[2]}
        BY <4>2
      <4> QED BY <4>1, <4>3
    <3> QED BY <1>3, <1>4, <2>3, <2>4, <2>5, <3>2
  <2>6. CASE Dst(outer) # "concrete"
    <3>1. Endpoints(s) = {}
      BY <2>1, <2>6, Zenon
    <3> HIDE DEF outer
    <3>2. {e[1] : e \in Endpoints(s)} = {} /\ {e[2] : e \in Endpoints(s)} = {}
      BY <3>1
    <3> QED BY <1>3, <1>4, <2>3, <2>4, <2>6, <3>2
  <2> QED BY <2>5, <2>6
<1>6. SourcePorts(s) = S
  BY Zenon DEF SourcePorts
<1>7. Excused(layers) = {"outer source"} \cup (IF Dst(outer) = "concrete" THEN {}
                                               ELSE {"UDP destination port"})
  BY Zenon DEF Excused
<1> HIDE DEF l, c, y, port, A, B, S
<1>8. HasFields(c, "UDP", {}, B, P, S, {}, {})
  <2>1. CarriesThese(s, l)
    BY CarriedFields, Zenon DEF l
  <2>2. Word(l.type) = "UDP"
    BY <1>3 DEF Word
  <2> HIDE DEF P
  <2> QED BY <1>4, <1>5, <1>6, <2>1, <2>2, Zenon DEF CarriesThese, c
<1> HIDE DEF outer
<1>9. ASSUME NEW key \in DOMAIN c PROVE <<key, c[key]>> \in Said(layers)
  <2>1. <<key, c[key]>> \in Pairs("UDP", {}, B, P, S, {}, {})
    <3> HIDE DEF P
    <3> QED BY <1>8, FieldsArePairs
  <2>2. P \subseteq {port}
    OBVIOUS
  <2> HIDE DEF P
  <2>3. Pairs("UDP", {}, B, P, S, {}, {}) \subseteq Pairs("UDP", A, B, {port}, S, {}, {})
    BY <2>2 DEF Pairs
  <2> QED BY <1>2, <2>1, <2>3
<1>10. ASSUME NEW p \in Said(layers) PROVE p[1] \in DOMAIN c \/ p[1] \in Excused(layers)
  <2>1. \/ p[1] \in {"encapsulation", "outer source", "UDP destination port"}
        \/ p[1] = "outer destination" /\ B # {}
        \/ p[1] = "UDP source port" /\ S # {}
    <3>1. p \in Pairs("UDP", A, B, {port}, S, {}, {})
      BY <1>2, <1>10, Zenon
    <3>2. CASE p = <<"encapsulation", "UDP">>
      BY <3>2
    <3>3. CASE p = <<"UDP destination port", port>>
      BY <3>3
    <3>4. ASSUME NEW v \in A, p = <<"outer source", v>> PROVE p[1] = "outer source"
      BY <3>4
    <3>5. ASSUME NEW v \in B, p = <<"outer destination", v>>
          PROVE  p[1] = "outer destination" /\ B # {}
      BY <3>5
    <3>6. ASSUME NEW v \in S, p = <<"UDP source port", v>>
          PROVE  p[1] = "UDP source port" /\ S # {}
      BY <3>6
    <3> QED BY <3>1, <3>2, <3>3, <3>4, <3>5, <3>6, Zenon DEF Pairs
  <2> QED BY <1>7, <1>8, <2>1 DEF HasFields
<1>11. c["encapsulation"] = "UDP" /\ c["encapsulation"] # "VXLAN"
  BY <1>8 DEF HasFields
<1> QED BY <1>9, <1>10, <1>11, Zenon DEF Predicted, c

----------------------------------------------------------------------------
\* A rule's outermost device.

\* What a tile sets on the device it has made.
Settings(t, sub, name) ==
  IF t = WireGuard
  THEN {WgSet(name, Only("listen_port", sub[2].props.src_port.num)), WireGuardPeer(sub, name)}
  ELSE {}

\* A script makes this device first, and sets just these on it.
MadeFirst(s, k, link, set) ==
  /\ k \in Links(s) /\ s[k] = link
  /\ \A l \in Links(s) : k <= l
  /\ \A j \in 1..Len(s) : s[j].op = "wg" /\ s[j].dev = link.dev => s[j] \in set
  /\ \A w \in set : w.op = "wg" /\ w.dev = link.dev /\ \E j \in 1..Len(s) : s[j] = w

\* The first layers of a rule and the first device of its script are one tile's.
StartsWith(layers, s, t, sub, name, under, k) ==
  /\ t \in TilesOf(Registry)
  /\ Matches(t, layers, 0) /\ Ready(t, sub) /\ ReadyToEnter(t, sub)
  /\ Len(t.pattern) <= Len(layers)
  /\ \A j \in 1..Len(t.pattern) : sub[j] = layers[j] /\ layers[j].name = t.pattern[j]
  /\ MadeFirst(s, k, LinkOf(t, sub, name, under), Settings(t, sub, name))

Starts(layers, s) ==
  \E t, sub, name, under, k : StartsWith(layers, s, t, sub, name, under, k)

\* Then that device is the one that writes the outer header.
LEMMA OuterLinkIs ==
  ASSUME NEW s, NEW k, NEW link, NEW set, MadeFirst(s, k, link, set)
  PROVE  OuterLink(s) = link
<1>1. \A l \in Links(s) : l \in Int
  BY DEF Links
<1> DEFINE j == CHOOSE i \in Links(s) : \A l \in Links(s) : i <= l
<1>2. j \in Links(s) /\ \A l \in Links(s) : j <= l
  BY DEF MadeFirst
<1> HIDE DEF j
<1>3. j = k
  BY <1>1, <1>2 DEF MadeFirst
<1>4. OuterLink(s) = s[j]
  BY DEF OuterLink, j
<1> QED BY <1>3, <1>4 DEF MadeFirst

\* The values that a set of settings gives a key.
Given(set, key) == {w.opts[key] : w \in {v \in set : key \in DOMAIN v.opts}}

\* And what is set on it is that.
LEMMA SettingsAre ==
  ASSUME NEW s, NEW k, NEW link, NEW set, MadeFirst(s, k, link, set), NEW key
  PROVE  WgSettings(s, key) = Given(set, key)
<1>1. OuterLink(s) = link
  BY OuterLinkIs
<1> DEFINE J == {l \in 1..Len(s) : s[l].op = "wg" /\ s[l].dev = link.dev
                                     /\ key \in DOMAIN s[l].opts}
           W == {v \in set : key \in DOMAIN v.opts}
<1>2. WgSettings(s, key) = {s[j].opts[key] : j \in J}
  BY <1>1, Zenon DEF WgSettings
<1>3. \A j \in J : s[j] \in W
  BY DEF MadeFirst
<1>4. \A w \in W : \E j \in J : s[j] = w
  BY DEF MadeFirst
<1> HIDE DEF J, W
<1>5. {s[j].opts[key] : j \in J} = {w.opts[key] : w \in W}
  BY <1>3, <1>4
<1> QED BY <1>2, <1>5 DEF W, Given

\* A tile that is not WireGuard's sets nothing.
LEMMA NothingSet ==
  ASSUME NEW s, NEW k, NEW link, MadeFirst(s, k, link, {}), NEW key
  PROVE  WgSettings(s, key) = {}
<1>1. WgSettings(s, key) = Given({}, key)
  BY SettingsAre, Zenon
<1> QED BY <1>1 DEF Given

\* WireGuard's sets its port, and its peer's endpoint if there is one.
LEMMA WireGuardSets ==
  ASSUME NEW s, NEW k, NEW link, NEW sub, NEW name,
         MadeFirst(s, k, link, Settings(WireGuard, sub, name))
  PROVE  /\ WgSettings(s, "listen_port") = {sub[2].props.src_port.num}
         /\ Endpoints(s) = IF readEndpoint(sub[1], "dst") = "concrete"
                           THEN {EndpointOf(sub[1], sub[2])} ELSE {}
<1> DEFINE port == sub[2].props.src_port.num
           e == EndpointOf(sub[1], sub[2])
           yes == readEndpoint(sub[1], "dst") = "concrete"
           o == Only("listen_port", port)
           x == Only("peer", sub[3].props.peer)
           y == Only("allowed_ips", Masked(sub[4].props.src))
           z == Opt(yes, "endpoint", e)
           xy == x ++ y
           q == xy ++ z
           u == WgSet(name, o)
           v == WgSet(name, q)
           set == Settings(WireGuard, sub, name)
<1>1. set = {u, v}
  BY Zenon DEF Settings, WireGuardPeer, EndpointOf
<1> HIDE DEF port, e, yes
<1>2. /\ DOMAIN o = {"listen_port"} /\ o["listen_port"] = port
      /\ DOMAIN x = {"peer"} /\ DOMAIN y = {"allowed_ips"}
  BY DEF Only
<1>3. /\ DOMAIN z = IF yes THEN {"endpoint"} ELSE {}
      /\ yes => z["endpoint"] = e
  BY DEF Opt, Only, NoProps
<1> HIDE DEF o, x, y, z
<1>4. DOMAIN xy = {"peer", "allowed_ips"}
  BY <1>2 DEF ++
<1> HIDE DEF xy
<1>5. /\ "listen_port" \notin DOMAIN q
      /\ "endpoint" \in DOMAIN q <=> yes
      /\ yes => q["endpoint"] = e
  BY <1>3, <1>4 DEF ++
<1> HIDE DEF q
<1>6. u.opts = o /\ v.opts = q
  BY DEF WgSet
<1> HIDE DEF u, v, set
<1>7. \A key : WgSettings(s, key) = Given({u, v}, key)
  BY <1>1, SettingsAre, Zenon DEF set
<1>8. {i \in {u, v} : "listen_port" \in DOMAIN i.opts} = {u}
  BY <1>2, <1>5, <1>6
<1>9. {i \in {u, v} : "endpoint" \in DOMAIN i.opts} = IF yes THEN {v} ELSE {}
  BY <1>2, <1>5, <1>6
<1>10. WgSettings(s, "listen_port") = {port}
  <2>1. WgSettings(s, "listen_port") = {w.opts["listen_port"] : w \in {u}}
    BY <1>7, <1>8, Zenon DEF Given
  <2> QED BY <1>2, <1>6, <2>1
<1>11. Endpoints(s) = IF yes THEN {e} ELSE {}
  <2>1. WgSettings(s, "endpoint") = {w.opts["endpoint"] : w \in IF yes THEN {v} ELSE {}}
    BY <1>7, <1>9, Zenon DEF Given
  <2>2. WgSettings(s, "endpoint") = IF yes THEN {e} ELSE {}
    BY <1>5, <1>6, <2>1
  <2> QED BY <2>2 DEF Endpoints
<1> QED BY <1>10, <1>11 DEF port, e, yes

\* Every tile's device carries what was predicted of its layers.
LEMMA StartPredicted ==
  ASSUME NEW layers, Len(layers) \in Nat, NEW s, Starts(layers, s)
  PROVE  Predicted(layers, s)
<1> SUFFICES ASSUME Expect(layers).ok,
                    Carried(s)["encapsulation"] = "VXLAN" => layers[2].props.dst_port.num # 0
             PROVE  Predicted(layers, s)
  BY Zenon DEF Predicted
<1>1. PICK t, sub, name, under, k : StartsWith(layers, s, t, sub, name, under, k)
  BY Zenon DEF Starts
<1> DEFINE link == LinkOf(t, sub, name, under)
           set  == Settings(t, sub, name)
<1>2. /\ t \in TilesOf(Registry) /\ Ready(t, sub) /\ ReadyToEnter(t, sub)
      /\ MadeFirst(s, k, link, set)
      /\ Len(t.pattern) <= Len(layers)
      /\ \A j \in 1..Len(t.pattern) : sub[j] = layers[j] /\ layers[j].name = t.pattern[j]
  BY <1>1, Zenon DEF StartsWith
<1>3. OuterLink(s) = link
  BY <1>2, OuterLinkIs, Zenon
<1>4. t # WireGuard => \A key : WgSettings(s, key) = {}
  BY <1>2, NothingSet, Zenon DEF Settings
<1>5. /\ layers[1].name \in {"ipv4", "ipv6"}
      /\ Src(layers[1]) # "error" /\ Dst(layers[1]) # "error"
      /\ "error" \notin {Src(layers[1]), Dst(layers[1])}
  <2>1. /\ layers[1].name \in {"ipv4", "ipv6"}
        /\ "error" \notin {Src(layers[1]), Dst(layers[1])}
    BY OuterIsIP, Zenon
  <2> QED BY <2>1, Zenon
<1> HIDE DEF link
<1>6. ASSUME Len(layers) >= 2, layers[2].name # ""
      PROVE  /\ layers[2].name = "udp" =>
                  Expect(layers) = ExpectUDP(layers[1], layers[2], Below(layers))
             /\ layers[2].name = "gre" =>
                  Expect(layers) = ExpectProtocol(layers[1], <<"proto gre">>, "GREv0")
             /\ layers[2].name = "ipv4" =>
                  Expect(layers) = ExpectProtocol(layers[1], <<"proto 4">>, "IP")
  BY <1>5, <1>6, ShapeOfPrediction, Zenon
<1>7. /\ Word("ipip") = "IP" /\ Word("gre") = "GREv0" /\ Word("gretap") = "GREv0"
  BY DEF Word
<1>8. CASE t = IPIP
  <2>1. /\ Len(t.pattern) = 2 /\ t.pattern[2] = "ipv4"
    BY <1>8 DEF IPIP, LinuxTile
  <2>2. /\ sub[1] = layers[1] /\ sub[2] = layers[2]
        /\ layers[2].name = "ipv4" /\ Len(layers) >= 2
    BY <1>2, <2>1
  <2>3. /\ link = PointToPoint("ipip", sub, name) /\ endpoints(sub[1])
    BY <1>2, <1>8, SixTiles DEF link, LinkOf, Ready
  <2>4. Expect(layers) = ExpectProtocol(layers[1], <<"proto 4">>, Word("ipip"))
    BY <1>6, <1>7, <2>2
  <2>5. (\A key : WgSettings(s, key) = {}) /\ OuterLink(s) = PointToPoint("ipip", sub, name)
    BY <1>3, <1>4, <1>8, <2>3, SixTiles
  <2>6. /\ endpoints(layers[1])
        /\ "ipip" = "ipip" => layers[2].name = "ipv4"
        /\ "ipip" # "ipip" => layers[2].name = "gre" /\ Key(layers[2]) # "error"
    BY <2>2, <2>3
  <2> QED BY <2>2, <2>4, <2>5, <2>6, PointToPointPredicted, Zenon
<1>9. CASE t = GRE
  <2>1. /\ Len(t.pattern) = 3 /\ t.pattern[2] = "gre"
    BY <1>9 DEF GRE, LinuxTile
  <2>2. /\ sub[1] = layers[1] /\ sub[2] = layers[2]
        /\ layers[2].name = "gre" /\ Len(layers) >= 2
    BY <1>2, <2>1
  <2>3. /\ link = PointToPoint("gre", sub, name) /\ endpoints(sub[1])
        /\ Key(sub[2]) # "error"
    BY <1>2, <1>9, SixTiles DEF link, LinkOf, Ready, ReadyToEnter
  <2>4. Expect(layers) = ExpectProtocol(layers[1], <<"proto gre">>, Word("gre"))
    BY <1>6, <1>7, <2>2
  <2>5. (\A key : WgSettings(s, key) = {}) /\ OuterLink(s) = PointToPoint("gre", sub, name)
    BY <1>3, <1>4, <1>9, <2>3, SixTiles
  <2>6. /\ endpoints(layers[1])
        /\ "gre" = "ipip" => layers[2].name = "ipv4"
        /\ "gre" # "ipip" => layers[2].name = "gre" /\ Key(layers[2]) # "error"
    BY <2>2, <2>3
  <2> QED BY <2>2, <2>4, <2>5, <2>6, PointToPointPredicted, Zenon
<1>10. CASE t = GRETAP
  <2>1. /\ Len(t.pattern) = 3 /\ t.pattern[2] = "gre"
    BY <1>10 DEF GRETAP, LinuxTile
  <2>2. /\ sub[1] = layers[1] /\ sub[2] = layers[2]
        /\ layers[2].name = "gre" /\ Len(layers) >= 2
    BY <1>2, <2>1
  <2>3. /\ link = PointToPoint("gretap", sub, name) /\ endpoints(sub[1])
        /\ Key(sub[2]) # "error"
    BY <1>2, <1>10, SixTiles DEF link, LinkOf, Ready, ReadyToEnter
  <2>4. Expect(layers) = ExpectProtocol(layers[1], <<"proto gre">>, Word("gretap"))
    BY <1>6, <1>7, <2>2
  <2>5. (\A key : WgSettings(s, key) = {}) /\ OuterLink(s) = PointToPoint("gretap", sub, name)
    BY <1>3, <1>4, <1>10, <2>3, SixTiles
  <2>6. /\ endpoints(layers[1])
        /\ "gretap" = "ipip" => layers[2].name = "ipv4"
        /\ "gretap" # "ipip" => layers[2].name = "gre" /\ Key(layers[2]) # "error"
    BY <2>2, <2>3
  <2> QED BY <2>2, <2>4, <2>5, <2>6, PointToPointPredicted, Zenon
<1>11. ASSUME Len(layers) >= 3, layers[2].name = "udp"
       PROVE  Expect(layers) = ExpectUDP(layers[1], layers[2], {layers[3]})
  <2>1. Below(layers) = {layers[3]}
    BY <1>11, BelowIsThird
  <2>2. Len(layers) >= 2 /\ layers[2].name # ""
    BY <1>11
  <2> QED BY <1>6, <1>11, <2>1, <2>2
<1>12. CASE t = VXLAN
  <2>1. /\ Len(t.pattern) = 4 /\ t.pattern[2] = "udp" /\ t.pattern[3] = "vxlan"
    BY <1>12 DEF VXLAN, LinuxTile
  <2>2. /\ sub[1] = layers[1] /\ sub[2] = layers[2] /\ sub[3] = layers[3]
        /\ layers[2].name = "udp" /\ layers[3].name = "vxlan" /\ Len(layers) >= 3
    BY <1>2, <2>1
  <2>3. link = VXLANLink(sub, name, under) /\ ReadyVXLAN(sub[1], sub[2], sub[3])
    BY <1>2, <1>12, SixTiles DEF link, LinkOf, Ready
  <2>4. (\A key : WgSettings(s, key) = {}) /\ OuterLink(s) = VXLANLink(sub, name, under)
    BY <1>3, <1>4, <1>12, <2>3, SixTiles
  <2>5. /\ Expect(layers) = ExpectUDP(layers[1], layers[2], {layers[3]})
        /\ ReadyVXLAN(layers[1], layers[2], layers[3])
    BY <1>11, <2>2, <2>3
  <2>6. layers[2].props.dst_port.num # 0
    <3> PICK l : l = OuterLink(s)
      OBVIOUS
    <3>1. CarriesThese(s, l)
      BY CarriedFields, Zenon
    <3>2. l.type = "vxlan"
      BY <2>4 DEF VXLANLink, Link
    <3>3. Word(l.type) = "VXLAN"
      BY <3>2 DEF Word
    <3>4. Carried(s)["encapsulation"] = Word(l.type)
      BY <3>1, Zenon DEF CarriesThese, HasFields
    <3> QED BY <3>3, <3>4, Zenon
  <2> QED BY <1>5, <2>2, <2>4, <2>5, <2>6, VXLANPredicted, Zenon
<1>13. CASE t = VLAN
  <2>1. Len(t.pattern) = 2 /\ t.pattern[1] = "ethernet"
    BY <1>13 DEF VLAN, LinuxTile
  <2>2. layers[1].name = "ethernet"
    BY <1>2, <2>1
  <2> QED BY <1>5, <2>2
<1>14. CASE t = WireGuard
  <2>1. /\ Len(t.pattern) = 4 /\ t.pattern[2] = "udp" /\ t.pattern[3] = "wireguard"
    BY <1>14 DEF WireGuard, LinuxTile
  <2>2. /\ sub[1] = layers[1] /\ sub[2] = layers[2]
        /\ layers[2].name = "udp" /\ layers[3].name = "wireguard" /\ Len(layers) >= 3
    BY <1>2, <2>1
  <2>3. link = Link("wireguard", name, NoDev, NoProps)
    BY <1>14, SixTiles DEF link, LinkOf
  <2>4. /\ WgSettings(s, "listen_port") = {layers[2].props.src_port.num}
        /\ Endpoints(s) = IF readEndpoint(layers[1], "dst") = "concrete"
                          THEN {EndpointOf(layers[1], layers[2])} ELSE {}
    <3>1. MadeFirst(s, k, link, Settings(WireGuard, sub, name))
      BY <1>2, <1>14, Zenon
    <3>2. /\ WgSettings(s, "listen_port") = {sub[2].props.src_port.num}
          /\ Endpoints(s) = IF readEndpoint(sub[1], "dst") = "concrete"
                            THEN {EndpointOf(sub[1], sub[2])} ELSE {}
      BY <3>1, WireGuardSets, Zenon
    <3> QED BY <2>2, <3>2, Zenon
  <2>5. /\ Expect(layers) = ExpectUDP(layers[1], layers[2], {layers[3]})
        /\ OuterLink(s) = Link("wireguard", name, NoDev, NoProps)
    BY <1>3, <1>11, <2>2, <2>3
  <2> QED BY <1>5, <2>2, <2>4, <2>5, WireGuardPredicted, Zenon
<1> QED BY <1>2, <1>8, <1>9, <1>10, <1>12, <1>13, <1>14, SixTiles, Zenon

\* Commands behind the first device's leave it the first, if they set nothing on it.
LEMMA StillFirst ==
  ASSUME NEW s, NEW c, IsSeq(s), IsSeq(c), NEW k, NEW link, NEW set,
         MadeFirst(s, k, link, set),
         \A j \in 1..Len(c) : c[j].op = "wg" => c[j].dev # link.dev
  PROVE  MadeFirst(s \o c, k, link, set)
<1> DEFINE u == s \o c
<1> PICK n : n = Len(s)
  OBVIOUS
<1>1. /\ Len(u) = n + Len(c) /\ n \in Nat /\ Len(c) \in Nat
      /\ \A j \in 1..n : u[j] = s[j]
      /\ \A j \in 1..Len(c) : u[n + j] = c[j]
  BY ConcatIsSeq
<1> HIDE DEF u
<1>2. k \in 1..n /\ s[k].op = "link" /\ s[k] = link
  BY DEF MadeFirst, Links
<1>3. k \in Links(u) /\ u[k] = link
  BY <1>1, <1>2 DEF Links
<1>4. ASSUME NEW l \in Links(u) PROVE k <= l
  <2>1. CASE l \in 1..n
    BY <1>1, <2>1 DEF MadeFirst, Links
  <2>2. CASE l \notin 1..n
    BY <1>1, <1>2, <2>2 DEF Links
  <2> QED BY <2>1, <2>2
<1>5. ASSUME NEW j \in 1..Len(u), u[j].op = "wg", u[j].dev = link.dev PROVE u[j] \in set
  <2>1. CASE j \in 1..n
    BY <1>1, <1>5, <2>1 DEF MadeFirst
  <2>2. CASE j \notin 1..n
    <3>1. j - n \in 1..Len(c) /\ n + (j - n) = j
      BY <1>1, <2>2
    <3>2. u[j] = c[j - n]
      BY <1>1, <3>1
    <3> QED BY <1>5, <3>1, <3>2
  <2> QED BY <2>1, <2>2
<1>6. \A w \in set : w.op = "wg" /\ w.dev = link.dev /\ \E j \in 1..Len(u) : u[j] = w
  <2>1. \A j \in 1..n : j \in 1..Len(u) /\ u[j] = s[j]
    BY <1>1
  <2> QED BY <2>1 DEF MadeFirst
<1>7. MadeFirst(u, k, link, set)
  BY <1>3, <1>4, <1>5, <1>6 DEF MadeFirst
<1> QED BY <1>7 DEF u

\* So the rule still starts with it.
LEMMA StartsStay ==
  ASSUME NEW layers, NEW s, NEW c, IsSeq(s), IsSeq(c), Starts(layers, s),
         \A j \in 1..Len(c) : c[j].op = "wg" => \A l \in Links(s) : s[l].dev # c[j].dev
  PROVE  Starts(layers, s \o c)
<1>1. PICK t, sub, name, under, k : StartsWith(layers, s, t, sub, name, under, k)
  BY Zenon DEF Starts
<1> DEFINE link == LinkOf(t, sub, name, under)
           set  == Settings(t, sub, name)
<1>2. MadeFirst(s, k, link, set)
  BY <1>1, Zenon DEF StartsWith
<1> HIDE DEF link, set
<1>3. k \in Links(s) /\ s[k] = link
  BY <1>2 DEF MadeFirst
<1>4. \A j \in 1..Len(c) : c[j].op = "wg" => c[j].dev # link.dev
  BY <1>3
<1>5. MadeFirst(s \o c, k, link, set)
  BY <1>2, <1>4, StillFirst, Zenon
<1>6. StartsWith(layers, s \o c, t, sub, name, under, k)
  BY <1>1, <1>5, Zenon DEF StartsWith, link, set
<1> QED BY <1>6, Zenon DEF Starts

\* A command is one of these.
IsAmong(w, c) == \E j \in 1..Len(c) : c[j] = w

\* What a tile sets on its device is among its commands.
LEMMA SettingsMade ==
  ASSUME NEW t, NEW sub, NEW name, NEW under, NEW w \in Settings(t, sub, name)
  PROVE  w.op = "wg" /\ w.dev = name /\ IsAmong(w, Commands(t, sub, name, under))
<1>1. t = WireGuard
  BY DEF Settings
<1> DEFINE d == Link("wireguard", name, NoDev, NoProps)
           u == WgSet(name, Only("listen_port", sub[2].props.src_port.num))
           v == WireGuardPeer(sub, name)
           h == <<d, u, v>>
           a == addrOn(sub[4], name)
           c == h \o a
<1>2. Commands(t, sub, name, under) = c
  BY <1>1, SixTiles DEF Commands, lowerWireGuard
<1>3. w \in {u, v}
  BY <1>1, Zenon DEF Settings
<1>4. u.op = "wg" /\ u.dev = name /\ v.op = "wg" /\ v.dev = name
  BY DEF WireGuardPeer, WgSet
<1> HIDE DEF d, u, v
<1>5. h \in Seq({d, u, v}) /\ Len(h) = 3 /\ h[2] = u /\ h[3] = v
  OBVIOUS
<1>6. IsSeq(h) /\ IsSeq(a)
  BY <1>5, SeqIsSeq, AddressCommands
<1> HIDE DEF h, a
<1>7. /\ Len(c) = 3 + Len(a) /\ Len(a) \in Nat
      /\ c[2] = u /\ c[3] = v
  <2>1. /\ Len(c) = Len(h) + Len(a) /\ Len(a) \in Nat
        /\ \A j \in 1..Len(h) : c[j] = h[j]
    BY <1>6, ConcatIsSeq
  <2> HIDE DEF c
  <2>2. 2 \in 1..Len(h) /\ 3 \in 1..Len(h)
    BY <1>5
  <2> QED BY <1>5, <2>1, <2>2
<1> HIDE DEF c
<1>8. 2 \in 1..Len(c) /\ 3 \in 1..Len(c)
  BY <1>7
<1>9. IsAmong(w, c)
  BY <1>3, <1>7, <1>8 DEF IsAmong
<1> QED BY <1>2, <1>3, <1>4, <1>9

\* The first tile's commands start the rule.
LEMMA TileStarts ==
  ASSUME NEW layers, IsSeq(layers), NEW t \in TilesOf(Registry), Matches(t, layers, 0),
         NEW sub, sub = Slice(layers, 0, Len(t.pattern)), Ready(t, sub),
         ReadyToEnter(t, sub), NEW name, NEW under
  PROVE  Starts(layers, Commands(t, sub, name, under))
<1> DEFINE c    == Commands(t, sub, name, under)
           link == LinkOf(t, sub, name, under)
           set  == Settings(t, sub, name)
<1>1. IsSeq(c) /\ \E k : OneDevice(c, k, name, under)
  BY CommandsMakeOne
<1>2. \A j \in 1..Len(c) :
        \/ c[j].op = "addr"
        \/ c[j].op = "link" /\ c[j] = link
        \/ c[j].op = "wg" /\ c[j] \in set
  <2>1. \A j \in 1..Len(c) :
          \/ c[j].op = "addr"
          \/ c[j].op = "link" /\ c[j] = link
          \/ /\ t = WireGuard /\ c[j].op = "wg"
             /\ c[j] \in {WgSet(name, Only("listen_port", sub[2].props.src_port.num)),
                          WireGuardPeer(sub, name)}
    BY CommandsOfTile
  <2>2. t = WireGuard =>
          set = {WgSet(name, Only("listen_port", sub[2].props.src_port.num)),
                 WireGuardPeer(sub, name)}
    BY Zenon DEF Settings
  <2> HIDE DEF c, link, set
  <2> QED BY <2>1, <2>2, Zenon
<1> HIDE DEF c, link, set
<1>3. PICK k : OneDevice(c, k, name, under)
  BY <1>1
<1>4. k \in Links(c) /\ c[k] = link /\ \A l \in Links(c) : k <= l
  <2>1. Len(c) \in Nat
    BY <1>1 DEF IsSeq
  <2>2. k \in Links(c) /\ c[k] = link
    BY <1>2, <1>3 DEF OneDevice, Links
  <2>3. ASSUME NEW l \in Links(c) PROVE k <= l
    <3>1. l \notin 1..(k - 1)
      BY <1>3 DEF OneDevice, Links
    <3> QED BY <1>3, <2>1, <3>1 DEF OneDevice, Links
  <2> QED BY <2>2, <2>3
<1>5. \A j \in 1..Len(c) : c[j].op = "wg" => c[j] \in set
  BY <1>2
<1>6. MadeFirst(c, k, link, set)
  <2>1. ASSUME NEW w \in set
        PROVE  w.op = "wg" /\ w.dev = link.dev /\ \E j \in 1..Len(c) : c[j] = w
    <3>1. w \in Settings(t, sub, name) /\ link.dev = name
      BY <1>3, <1>4, <2>1 DEF set, OneDevice
    <3>2. w.op = "wg" /\ w.dev = name
      BY <3>1, SettingsMade
    <3>3. IsAmong(w, Commands(t, sub, name, under))
      BY <3>1, SettingsMade
    <3> QED BY <3>1, <3>2, <3>3 DEF c, IsAmong
  <2> QED BY <1>4, <1>5, <2>1 DEF MadeFirst
<1> PICK m : m = Len(t.pattern)
  OBVIOUS
<1>7. m \in Nat /\ m <= Len(layers) /\ \A j \in 1..m : layers[j].name = t.pattern[j]
  <2>1. m \in Nat
    BY SixTiles
  <2>2. 0 + m <= Len(layers) /\ \A j \in 1..m : layers[0 + j].name = t.pattern[j]
    BY Zenon DEF Matches
  <2> QED BY <2>1, <2>2
<1>8. \A j \in 1..m : sub[j] = layers[j]
  <2>1. CutAt(layers, 0, m)
    BY <1>7, CutLayers
  <2>2. \A j \in 1..(m - 0) : SubSeq(layers, 0 + 1, m)[j] = layers[0 + j]
    BY <2>1, Zenon DEF CutAt
  <2>3. sub = SubSeq(layers, 0 + 1, m)
    BY DEF Slice
  <2> QED BY <1>7, <2>2, <2>3
<1>9. StartsWith(layers, c, t, sub, name, under, k)
  BY <1>6, <1>7, <1>8, Zenon DEF StartsWith, link, set
<1>10. Starts(layers, c)
  BY <1>9, Zenon DEF Starts
<1> QED BY <1>10 DEF c

----------------------------------------------------------------------------
\* The inductive invariant: the rule in hand, once a tile is lowered, and every
\* printed rule start with their first tile.
PredictInv ==
  /\ LowerInv
  /\ phase = "cover" => IF at = 0 THEN script = << >> ELSE Starts(sp, script)
  /\ \A r \in 1..Len(out) : Starts(file[r].layers, out[r].script)

\* Before the file is read there is no rule.
LEMMA PredictInit == Init => PredictInv
<1> SUFFICES ASSUME Init PROVE PredictInv
  OBVIOUS
<1>1. LowerInv
  BY LowerInit
<1>2. phase = "read" /\ Len(out) = 0
  BY DEF Init
<1> QED BY <1>1, <1>2 DEF PredictInv

\* A step that prints nothing.
LEMMA PredictKept ==
  ASSUME PredictInv, LowerInv', UNCHANGED <<file, out>>,
         phase' = "cover" => IF at' = 0 THEN script' = << >> ELSE Starts(sp', script')
  PROVE  PredictInv'
<1>1. \A r \in 1..Len(out') : Starts(file'[r].layers, out'[r].script)
  BY DEF PredictInv
<1> QED BY <1>1 DEF PredictInv

\* One turn of Cover's loop: the first starts the rule, and none of the others sets
\* anything on the first one's device, whose name is taken.
LEMMA LowerTilePredicts ==
  ASSUME PredictInv, NEW t \in Picks, LowerTile(t)
  PROVE  PredictInv'
<1> DEFINE sub  == Slice(sp, at, at + Len(t.pattern))
           ask  == Naming(t, sub, dev)
           name == Answer(ask)
<1>1. LowerInv /\ phase = "cover"
  BY DEF PredictInv, LowerTile
<1>2. LowerInv'
  BY <1>1, LowerTileKeeps
<1>3. t \in TilesOf(Registry) /\ Matches(t, sp, at)
  BY DEF Picks, Candidates
<1>4. \/ Abort
      \/ /\ Ready(t, sub) /\ ReadyToEnter(t, sub) /\ Named(ask)
         /\ script' = script \o Commands(t, sub, name, dev)
         /\ at' = at + Len(t.pattern)
         /\ UNCHANGED <<file, rule, phase, base, out>>
  BY Zenon DEF LowerTile
<1>5. CASE Abort
  <2>1. phase' # "cover" /\ UNCHANGED <<file, out>>
    BY <1>5 DEF Abort
  <2> QED BY <1>2, <2>1, PredictKept
<1>6. CASE /\ Ready(t, sub) /\ ReadyToEnter(t, sub) /\ Named(ask)
           /\ script' = script \o Commands(t, sub, name, dev)
           /\ at' = at + Len(t.pattern)
           /\ UNCHANGED <<file, rule, phase, base, out>>
  <2>1. /\ at \in Nat /\ IsSeq(script) /\ IsSeq(sp) /\ sp' = sp
    <3>1. rule \in 1..Len(file) /\ \A r \in 1..Len(file) : IsSeq(file[r].layers)
      BY <1>1, Lengths DEF LowerInv, Shape, TypeOK
    <3> QED BY <1>1, <1>6, <3>1, Lengths DEF LowerInv, Shape, TypeOK, sp
  <2>2. Len(t.pattern) \in Nat /\ Len(t.pattern) >= 2
    BY <1>3, SixTiles
  <2>3. at' # 0
    BY <1>6, <2>1, <2>2
  <2> PICK c : c = Commands(t, sub, name, dev)
    OBVIOUS
  <2>4. IsSeq(c)
    BY <1>3, CommandsMakeOne
  <2>5. CASE at = 0
    <3>1. script = << >>
      BY <1>1, <2>5 DEF PredictInv
    <3>2. sub = Slice(sp, 0, Len(t.pattern))
      BY <2>2, <2>5
    <3>3. Matches(t, sp, 0)
      BY <1>3, <2>5
    <3> HIDE DEF sub, name
    <3>4. Starts(sp, c)
      BY <1>3, <1>6, <2>1, <3>2, <3>3, TileStarts, Zenon
    <3>5. script' = c
      <4>1. c \in Seq({c[j] : j \in 1..Len(c)})
        BY <2>4 DEF IsSeq
      <4>2. << >> \o c = c
        BY <4>1, ConcatEmptySeq
      <4> QED BY <1>6, <3>1, <4>2
    <3> QED BY <1>2, <1>6, <2>1, <2>3, <3>4, <3>5, PredictKept
  <2>6. CASE at # 0
    <3>1. Starts(sp, script)
      BY <1>1, <2>6 DEF PredictInv
    <3>2. \A l \in Links(script) : script[l].dev \in used
      <4>1. Len(out) + 1 \in Rules /\ Script(Len(out) + 1) = script
        BY <1>1, Lengths DEF Rules, Script
      <4> QED BY <1>1, <4>1 DEF LowerInv, DevicesTaken
    <3>3. name \notin used
      <4>1. /\ count \in [NamePrefixes -> 0..MaxCount] /\ IsFiniteSet(used)
            /\ \A p \in NamePrefixes : count[p] < MaxCount
        BY <1>1 DEF LowerInv, Shape, TypeOK
      <4>2. ask.op = "claim" \/ (ask.op = "alloc" /\ ask.prefix \in NamePrefixes)
        BY <1>3, NamingAsks
      <4> HIDE DEF ask
      <4> QED BY <1>6, <4>1, <4>2, NameGiven
    <3> HIDE DEF sub, ask, name
    <3>4. ASSUME NEW j \in 1..Len(c), c[j].op = "wg" PROVE c[j].dev = name
      <4>1. PICK k : OneDevice(c, k, name, dev)
        BY <1>3, CommandsMakeOne
      <4>2. j # k /\ j \notin 1..(k - 1)
        BY <3>4, <4>1 DEF OneDevice
      <4>3. Len(c) \in Nat
        BY <2>4 DEF IsSeq
      <4>4. j \in (k + 1)..Len(c)
        BY <4>1, <4>2, <4>3 DEF OneDevice
      <4> QED BY <4>1, <4>4 DEF OneDevice
    <3>5. \A j \in 1..Len(c) : c[j].op = "wg" => \A l \in Links(script) : script[l].dev # c[j].dev
      BY <3>2, <3>3, <3>4
    <3>6. Starts(sp, script \o c)
      BY <2>1, <2>4, <3>1, <3>5, StartsStay, Zenon
    <3> QED BY <1>2, <1>6, <2>1, <2>3, <3>6, PredictKept
  <2> QED BY <2>5, <2>6
<1> QED BY <1>4, <1>5, <1>6

\* The end of Cover adds addresses and bring-ups.
LEMMA FinishRulePredicts ==
  ASSUME PredictInv, FinishRule
  PROVE  PredictInv'
<1> DEFINE rest == Slice(sp, at, Len(sp))
           addr == LeftoverAddress(rest)
           u    == script \o addr \o BringUp
<1>1. LowerInv /\ phase = "cover" /\ at > 0
  BY DEF PredictInv, FinishRule
<1>2. LowerInv'
  BY <1>1, FinishRuleKeeps
<1>3. CASE Abort
  <2>1. phase' # "cover" /\ UNCHANGED <<file, out>>
    BY <1>3 DEF Abort
  <2> QED BY <1>2, <2>1, PredictKept
<1>4. CASE ~Abort
  <2>1. PICK e : e.script = u /\ out' = Append(out, e) /\ phase' = "rule" /\ file' = file
    <3> DEFINE e == [script |-> u, applied |-> applied,
                     payload |-> IF addr = << >> THEN rest ELSE Tail(rest)]
    <3>1. out' = Append(out, e) /\ phase' = "rule" /\ file' = file
      BY <1>4, Zenon DEF FinishRule
    <3>2. e.script = u
      OBVIOUS
    <3> QED BY <3>1, <3>2
  <2>2. Starts(sp, script)
    BY <1>1 DEF PredictInv
  <2>3. IsSeq(script)
    BY <1>1 DEF LowerInv, Shape
  <2>4. IsSeq(addr) /\ \A j \in 1..Len(addr) : addr[j].op = "addr"
    <3>1. IsSeq(<< >>) /\ Len(<< >>) = 0
      BY SeqIsSeq, EmptySeq
    <3>2. addr = << >> \/ \E y : addr = addrOn(y, dev)
      BY DEF LeftoverAddress
    <3> HIDE DEF addr
    <3> QED BY <3>1, <3>2, AddressCommands
  <2> HIDE DEF rest, addr
  <2>5. IsSeq(BringUp) /\ \A j \in 1..Len(BringUp) : BringUp[j].op = "up"
    BY <1>1, BringUpIs
  <2> DEFINE s == script \o addr
  <2>6. Starts(sp, s) /\ IsSeq(s)
    BY <2>2, <2>3, <2>4, StartsStay, ConcatIsSeq
  <2> HIDE DEF s
  <2>7. Starts(sp, u)
    <3>1. Starts(sp, s \o BringUp)
      BY <2>5, <2>6, StartsStay
    <3> QED BY <3>1 DEF s
  <2> HIDE DEF u
  <2> PICK n : n = Len(out)
    OBVIOUS
  <2>8. /\ Len(out') = n + 1 /\ n \in Nat /\ out'[n + 1] = e
        /\ \A r \in 1..n : out'[r] = out[r]
    <3>1. IsSeq(out)
      BY <1>1 DEF LowerInv, Shape
    <3> QED BY <2>1, <3>1, AppendIsSeq
  <2>9. n + 1 = rule
    BY <1>1, <2>8, Lengths
  <2>10. \A r \in 1..Len(out') : Starts(file'[r].layers, out'[r].script)
    <3>1. ASSUME NEW r \in 1..Len(out') PROVE Starts(file'[r].layers, out'[r].script)
      <4>1. CASE r \in 1..n
        BY <2>1, <2>8, <4>1 DEF PredictInv
      <4>2. CASE r = n + 1
        BY <2>1, <2>7, <2>8, <2>9, <4>2 DEF sp
      <4> QED BY <2>8, <4>1, <4>2
    <3> QED BY <3>1
  <2> QED BY <1>2, <2>1, <2>10 DEF PredictInv
<1> QED BY <1>3, <1>4

\* Every step keeps it.
LEMMA PredictStep == PredictInv /\ [Next]_vars => PredictInv'
<1> SUFFICES ASSUME PredictInv, [Next]_vars PROVE PredictInv'
  OBVIOUS
<1>1. LowerInv
  BY DEF PredictInv
<1>2. LowerInv'
  BY <1>1, LowerStep
<1>3. ASSUME UNCHANGED <<file, out>>, phase' # "cover" PROVE PredictInv'
  BY <1>2, <1>3, PredictKept
<1>4. CASE ReadTrees \/ NoLowering \/ EndOfFile
  BY <1>3, <1>4 DEF ReadTrees, NoLowering, EndOfFile, Abort
<1>5. CASE StartRule
  <2>1. CASE Abort
    BY <1>3, <2>1 DEF Abort
  <2>2. CASE ~Abort
    <3>1. at' = 0 /\ script' = << >> /\ UNCHANGED <<file, out>>
      BY <1>5, <2>2 DEF StartRule
    <3> QED BY <1>2, <3>1, PredictKept
  <2> QED BY <2>1, <2>2
<1>6. CASE \E t \in Picks : LowerTile(t)
  BY <1>6, LowerTilePredicts
<1>7. CASE FinishRule
  BY <1>7, FinishRulePredicts
<1>8. CASE UNCHANGED vars
  <2>1. UNCHANGED <<file, out, phase, at, script>> /\ sp' = sp
    BY <1>8 DEF vars, sp
  <2>2. phase' = "cover" => IF at' = 0 THEN script' = << >> ELSE Starts(sp', script')
    BY <2>1 DEF PredictInv
  <2> QED BY <1>2, <2>1, <2>2, PredictKept
<1> QED BY <1>4, <1>5, <1>6, <1>7, <1>8 DEF Next, Terminated

\* wire/wire.go:3-8: of every file, where a printed rule has a prediction and a
\* VXLAN device a port other than 0, every field its outermost device writes is
\* one that is predicted, or the key of GRE or the port WireGuard sends from, which
\* Expect does not speak of, and has the value of the tree; the device writes
\* every one of them but WireGuard the source, and the port where it has no
\* endpoint; and on a capture of a VXLAN device at port 4789 Check finds every
\* fact.
THEOREM PredictionIsCarried == Spec => []PredictionHolds
<1>1. PredictInv => PredictionHolds
  <2> SUFFICES ASSUME PredictInv, NEW r \in 1..Len(out)
               PROVE  Predicted(file[r].layers, out[r].script)
    BY Zenon DEF PredictionHolds, Predicted
  <2>1. Len(file[r].layers) \in Nat
    <3>1. LowerInv
      BY DEF PredictInv
    <3>2. r \in 1..Len(file)
      BY <3>1, Lengths
    <3> QED BY <3>1, <3>2, Lengths
  <2>2. Starts(file[r].layers, out[r].script)
    BY DEF PredictInv
  <2> QED BY <2>1, <2>2, StartPredicted, Zenon
<1> QED BY <1>1, PredictInit, PredictStep, PTL DEF Spec

============================================================================
