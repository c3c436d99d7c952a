--------------------------- MODULE AccountProofs ---------------------------
(* Proof that `pktc lower' accounts for every layer of every rule: what the *)
(* tiles claim, what becomes an address and what is payload are the rule,   *)
(* and each address written on the configuration is placed once.            *)
EXTENDS LowerProofs

----------------------------------------------------------------------------
\* FlattenSeq, whatever the sequences are.

\* Induction from 1 to n, on the set of the numbers something holds of.
LEMMA UpFromOne ==
  ASSUME NEW n \in Nat, NEW T, 1 \in T, \A i \in 2..n : i - 1 \in T => i \in T
  PROVE  \A i \in 1..n : i \in T
<1> DEFINE U == {i \in 1..n : i \notin T}
<1>1. U = {}
  <2> SUFFICES ASSUME U # {} PROVE FALSE
    OBVIOUS
  <2>1. PICK i \in U : \A l \in U : i <= l
    <3>1. U \subseteq Nat
      OBVIOUS
    <3> HIDE DEF U
    <3> QED BY <3>1, SmallestOf
  <2>2. i \in 1..n /\ i \notin T /\ i # 1
    OBVIOUS
  <2>3. i \in 2..n /\ i - 1 \in 1..n
    BY <2>2
  <2>4. i - 1 \notin U
    BY <2>1, <2>2
  <2> QED BY <2>2, <2>3, <2>4
<1> QED BY <1>1

\* One step of the flattening.
Piece(ss, f, i) == IF i = 1 THEN ss[i] ELSE f[i - 1] \o ss[i]

Flattens(ss, f, n) == f = [i \in 1..n |-> Piece(ss, f, i)]

\* There is a function that flattens the first n sequences.
LEMMA FlattenExists ==
  ASSUME NEW ss, NEW n \in Nat
  PROVE  \E f : Flattens(ss, f, n)
<1> DEFINE T == {m \in 1..(n + 1) : \E f : Flattens(ss, f, m - 1)}
<1>1. 1 \in T
  <2>1. 1..(1 - 1) = {}
    OBVIOUS
  <2>2. Flattens(ss, [i \in {} |-> {}], 1 - 1)
    BY <2>1 DEF Flattens
  <2>3. \E f : Flattens(ss, f, 1 - 1)
    BY <2>2
  <2> QED BY <2>3
<1>2. ASSUME NEW m \in 2..(n + 1), m - 1 \in T PROVE m \in T
  <2> DEFINE k == m - 1
  <2>1. k \in Nat \ {0} /\ m \in 1..(n + 1)
    OBVIOUS
  <2>2. PICK h : Flattens(ss, h, k - 1)
    BY <1>2
  <2> DEFINE f == [i \in 1..k |-> IF i = k THEN Piece(ss, h, i) ELSE h[i]]
  <2> HIDE DEF k
  <2>3. \A i \in 1..(k - 1) : f[i] = h[i] /\ h[i] = Piece(ss, h, i)
    BY <2>1, <2>2 DEF Flattens
  <2>4. f = [i \in 1..k |-> f[i]] /\ f[k] = Piece(ss, h, k)
    BY <2>1
  <2> HIDE DEF f
  <2>5. ASSUME NEW i \in 1..k PROVE f[i] = Piece(ss, f, i)
    <3>1. f[i] = Piece(ss, h, i)
      <4>1. CASE i = k
        BY <2>4, <4>1
      <4>2. CASE i # k
        <5>1. i \in 1..(k - 1)
          BY <2>1, <4>2
        <5> QED BY <2>3, <5>1
      <4> QED BY <4>1, <4>2
    <3>2. Piece(ss, h, i) = Piece(ss, f, i)
      <4>1. CASE i = 1
        BY <4>1 DEF Piece
      <4>2. CASE i # 1
        <5>1. i - 1 \in 1..(k - 1)
          BY <2>1, <4>2
        <5>2. f[i - 1] = h[i - 1]
          BY <2>3, <5>1
        <5> QED BY <4>2, <5>2 DEF Piece
      <4> QED BY <4>1, <4>2
    <3> QED BY <3>1, <3>2
  <2>6. f = [i \in 1..k |-> Piece(ss, f, i)]
    BY <2>4, <2>5, Zenon
  <2>7. Flattens(ss, f, k)
    BY <2>6 DEF Flattens
  <2>8. \E g : Flattens(ss, g, m - 1)
    BY <2>7 DEF k
  <2> QED BY <2>1, <2>8
<1>3. n + 1 \in T
  <2>1. n + 1 \in Nat /\ n + 1 \in 1..(n + 1)
    OBVIOUS
  <2>2. \A m \in 1..(n + 1) : m \in T
    <3> HIDE DEF T
    <3> QED BY <1>1, <1>2, <2>1, UpFromOne
  <2> QED BY <2>1, <2>2
<1>4. (n + 1) - 1 = n
  OBVIOUS
<1> QED BY <1>3, <1>4

\* The steps to FlattenSeq's result.
Steps(ss, f) ==
  /\ FlattenSeq(ss) = f[Len(ss)]
  /\ f[1] = ss[1]
  /\ \A i \in 2..Len(ss) : f[i] = f[i - 1] \o ss[i]

\* FlattenSeq takes such steps, each to a sequence over the same elements.
LEMMA FlattenSteps ==
  ASSUME NEW S, NEW ss \in Seq(Seq(S)), ss # << >>
  PROVE  \E f : Steps(ss, f) /\ \A i \in 1..Len(ss) : f[i] \in Seq(S)
<1> PICK n \in Nat \ {0} : n = Len(ss)
  BY EmptySeq
<1> DEFINE f == CHOOSE g : Flattens(ss, g, n)
<1>1. FlattenSeq(ss) = f[n]
  BY DEF FlattenSeq, Flattens, Piece
<1>2. Flattens(ss, f, n)
  BY FlattenExists
<1> HIDE DEF f
<1>3. \A i \in 1..n : f[i] = Piece(ss, f, i)
  BY <1>2 DEF Flattens
<1>4. f[1] = ss[1]
  BY <1>3 DEF Piece
<1>5. ASSUME NEW i \in 2..n PROVE f[i] = f[i - 1] \o ss[i]
  <2>1. i \in 1..n /\ i # 1
    OBVIOUS
  <2> QED BY <1>3, <2>1, Zenon DEF Piece
<1>6. \A i \in 1..n : f[i] \in Seq(S)
  <2> DEFINE T == {i \in 1..n : f[i] \in Seq(S)}
  <2>1. 1 \in T
    BY <1>4
  <2>2. ASSUME NEW i \in 2..n, i - 1 \in T PROVE i \in T
    <3>1. f[i - 1] \in Seq(S) /\ ss[i] \in Seq(S)
      BY <2>2
    <3>2. f[i - 1] \o ss[i] \in Seq(S)
      BY <3>1, ConcatProperties
    <3>3. f[i] = f[i - 1] \o ss[i]
      BY <1>5
    <3>4. f[i] \in Seq(S)
      BY <3>2, <3>3, Zenon
    <3> QED BY <3>4
  <2> HIDE DEF T
  <2>3. \A i \in 1..n : i \in T
    BY <2>1, <2>2, UpFromOne
  <2> QED BY <2>3 DEF T
<1> QED BY <1>1, <1>4, <1>5, <1>6 DEF Steps

\* Nothing flattens to nothing.
LEMMA FlattenNone == FlattenSeq(<< >>) = << >>
BY DEF FlattenSeq

\* What is flattened is a sequence over the same elements.
LEMMA FlattenType ==
  ASSUME NEW S, NEW ss \in Seq(Seq(S))
  PROVE  FlattenSeq(ss) \in Seq(S)
<1>1. CASE ss = << >>
  <2>1. << >> \in Seq(S)
    BY EmptySeq
  <2> QED BY <1>1, <2>1, FlattenNone
<1>2. CASE ss # << >>
  <2>1. PICK f : Steps(ss, f) /\ \A i \in 1..Len(ss) : f[i] \in Seq(S)
    BY <1>2, FlattenSteps
  <2>2. Len(ss) \in 1..Len(ss)
    BY <1>2, EmptySeq
  <2> QED BY <2>1, <2>2 DEF Steps
<1> QED BY <1>1, <1>2

\* Three sequences make the same, whichever two are put together first.
InAnyOrder(x, y, z) == (x \o y) \o z = x \o (y \o z)

\* Concatenation is associative.
LEMMA ConcatInAnyOrder ==
  ASSUME NEW S, NEW x \in Seq(S), NEW y \in Seq(S), NEW z \in Seq(S)
  PROVE  InAnyOrder(x, y, z)
BY ConcatAssociative DEF InAnyOrder

\* One after the other, or both at once.
LEMMA FlattenConcat ==
  ASSUME NEW S, NEW a \in Seq(Seq(S)), NEW b \in Seq(Seq(S))
  PROVE  FlattenSeq(a \o b) = FlattenSeq(a) \o FlattenSeq(b)
<1> DEFINE c == a \o b
<1>1. FlattenSeq(a) \in Seq(S) /\ FlattenSeq(b) \in Seq(S)
  BY FlattenType
<1>2. CASE a = << >>
  <2>1. c = b
    BY <1>2, ConcatEmptySeq
  <2>2. FlattenSeq(a) = << >>
    BY <1>2, FlattenNone
  <2> QED BY <1>1, <2>1, <2>2, ConcatEmptySeq
<1>3. CASE b = << >>
  <2>1. c = a
    BY <1>3, ConcatEmptySeq
  <2>2. FlattenSeq(b) = << >>
    BY <1>3, FlattenNone
  <2> QED BY <1>1, <2>1, <2>2, ConcatEmptySeq
<1>5. CASE a # << >> /\ b # << >>
  <2> PICK n \in Nat \ {0} : n = Len(a)
    BY <1>5, EmptySeq
  <2> PICK m \in Nat \ {0} : m = Len(b)
    BY <1>5, EmptySeq
  <2>1. /\ c \in Seq(Seq(S)) /\ Len(c) = n + m
        /\ \A i \in 1..n : c[i] = a[i]
        /\ \A i \in 1..m : c[n + i] = b[i]
    BY ConcatProperties
  <2>2. c # << >>
    BY <2>1
  <2> HIDE DEF c
  <2>0. Len(c) = n + m
    BY <2>1
  <2>3. PICK f : Steps(a, f) /\ \A i \in 1..n : f[i] \in Seq(S)
    BY <1>5, FlattenSteps
  <2>4. PICK g : Steps(b, g) /\ \A i \in 1..m : g[i] \in Seq(S)
    BY <1>5, FlattenSteps
  <2>5. PICK h : Steps(c, h)
    BY <2>1, <2>2, FlattenSteps
  <2>6. ASSUME NEW i \in 1..n PROVE h[i] = f[i]
    <3> DEFINE T == {l \in 1..n : h[l] = f[l]}
    <3>1. 1 \in T
      BY <2>1, <2>3, <2>5 DEF Steps
    <3>2. ASSUME NEW l \in 2..n, l - 1 \in T PROVE l \in T
      <4>1. l \in 2..Len(c) /\ l \in 2..Len(a) /\ l \in 1..n
        BY <2>1
      <4>2. h[l] = h[l - 1] \o c[l]
        BY <2>5, <4>1, Zenon DEF Steps
      <4>3. f[l] = f[l - 1] \o a[l]
        BY <2>3, <4>1, Zenon DEF Steps
      <4>4. h[l - 1] = f[l - 1] /\ c[l] = a[l]
        BY <2>1, <3>2, <4>1
      <4>5. h[l] = f[l]
        BY <4>2, <4>3, <4>4, Zenon
      <4> QED BY <4>1, <4>5
    <3> HIDE DEF T
    <3>3. i \in T
      BY <3>1, <3>2, UpFromOne
    <3> QED BY <3>3 DEF T
  <2>7. ASSUME NEW i \in 1..m PROVE h[n + i] = f[n] \o g[i]
    <3> DEFINE T == {l \in 1..m : h[n + l] = f[n] \o g[l]}
    <3>1. 1 \in T
      <4>1. n + 1 \in 2..Len(c) /\ (n + 1) - 1 = n /\ n \in 1..n /\ 1 \in 1..m
        BY <2>0
      <4>2. h[n + 1] = h[(n + 1) - 1] \o c[n + 1]
        BY <2>5, <4>1, Zenon DEF Steps
      <4>3. h[n] = f[n] /\ c[n + 1] = b[1] /\ g[1] = b[1]
        BY <2>1, <2>4, <2>6, <4>1 DEF Steps
      <4>4. h[n + 1] = f[n] \o g[1]
        BY <4>1, <4>2, <4>3
      <4> QED BY <4>1, <4>4
    <3>2. ASSUME NEW l \in 2..m, l - 1 \in T PROVE l \in T
      <4>1. /\ n + l \in 2..Len(c) /\ l \in 2..Len(b) /\ l \in 1..m
            /\ (n + l) - 1 = n + (l - 1) /\ l - 1 \in 1..m /\ n \in 1..n
        <5> HIDE DEF T
        <5> QED BY <2>0
      <4>2. h[n + l] = h[(n + l) - 1] \o c[n + l]
        BY <2>5, <4>1, Zenon DEF Steps
      <4>3. g[l] = g[l - 1] \o b[l]
        BY <2>4, <4>1, Zenon DEF Steps
      <4>4. h[n + (l - 1)] = f[n] \o g[l - 1] /\ c[n + l] = b[l]
        BY <2>1, <3>2, <4>1
      <4>5. f[n] \in Seq(S) /\ g[l - 1] \in Seq(S) /\ b[l] \in Seq(S)
        <5>1. f[n] \in Seq(S) /\ g[l - 1] \in Seq(S)
          BY <2>3, <2>4, <4>1, Zenon
        <5>2. b[l] \in Seq(S)
          BY <4>1
        <5> QED BY <5>1, <5>2
      <4>6. h[n + l] = (f[n] \o g[l - 1]) \o b[l]
        BY <4>1, <4>2, <4>4
      <4>7. (f[n] \o g[l - 1]) \o b[l] = f[n] \o (g[l - 1] \o b[l])
        <5>1. InAnyOrder(f[n], g[l - 1], b[l])
          BY <4>5, ConcatInAnyOrder, Zenon
        <5> QED BY <5>1 DEF InAnyOrder
      <4>8. h[n + l] = f[n] \o g[l]
        BY <4>3, <4>6, <4>7, Zenon
      <4> QED BY <4>1, <4>8
    <3> HIDE DEF T
    <3>3. i \in T
      BY <3>1, <3>2, UpFromOne
    <3> QED BY <3>3 DEF T
  <2>8. h[n + m] = f[n] \o g[m]
    <3>1. m \in 1..m
      OBVIOUS
    <3> QED BY <2>7, <3>1, Zenon
  <2> QED BY <2>1, <2>3, <2>4, <2>5, <2>8 DEF Steps, c
<1> QED BY <1>2, <1>3, <1>5

\* Nothing but empty sequences flattens to nothing.
LEMMA FlattenEmpties ==
  ASSUME NEW ss, ss \in Seq({<< >>})
  PROVE  FlattenSeq(ss) = << >>
<1>1. << >> \in Seq({})
  OBVIOUS
<1>2. ss \in Seq(Seq({}))
  BY <1>1, SeqMonotonic
<1>3. FlattenSeq(ss) \in Seq({})
  BY <1>2, FlattenType
<1> QED BY <1>3, EmptySeq

----------------------------------------------------------------------------
\* The addresses of scripts and of layers, and the patterns of tiles.

\* Sequences made element by element, one after the other.
LEMMA IsConcat ==
  ASSUME NEW S, NEW p \in Seq(S), NEW q \in Seq(S), NEW r \in Seq(S),
         Len(r) = Len(p) + Len(q),
         \A j \in 1..Len(p) : r[j] = p[j],
         \A j \in 1..Len(q) : r[Len(p) + j] = q[j]
  PROVE  r = p \o q
<1> PICK n \in Nat : n = Len(p)
  OBVIOUS
<1> PICK m \in Nat : m = Len(q)
  OBVIOUS
<1> DEFINE c == p \o q
<1>1. /\ c \in Seq(S) /\ Len(c) = n + m
      /\ \A j \in 1..(n + m) : c[j] = IF j <= n THEN p[j] ELSE q[j - n]
  BY ConcatProperties
<1> HIDE DEF c
<1>2. ASSUME NEW j \in 1..(n + m) PROVE r[j] = c[j]
  <2>1. CASE j <= n
    BY <1>1, <2>1
  <2>2. CASE j > n
    <3>1. j - n \in 1..m /\ n + (j - n) = j
      BY <2>2
    <3>2. r[n + (j - n)] = q[j - n]
      BY <3>1
    <3> QED BY <1>1, <2>2, <3>1, <3>2
  <2> QED BY <2>1, <2>2
<1>3. r = c
  BY <1>1, <1>2, SeqEqual
<1> QED BY <1>3 DEF c

\* A function on 1..n is a sequence of length n.
LEMMA FcnIsSeq ==
  ASSUME NEW n \in Nat, NEW S, NEW f \in [1..n -> S]
  PROVE  f \in Seq(S) /\ Len(f) = n
<1>1. f \in Seq(S)
  BY SeqDef
<1>2. DOMAIN f = 1..n /\ DOMAIN f = 1..Len(f) /\ Len(f) \in Nat
  BY <1>1, LenProperties
<1> QED BY <1>1, <1>2

\* A script places what its two parts place.
LEMMA PlacedConcat ==
  ASSUME NEW s, NEW t, IsSeq(s), IsSeq(t)
  PROVE  PlacedBy(s \o t) = PlacedBy(s) \o PlacedBy(t)
<1> DEFINE u == s \o t
           V == {Prefix(u[j].addr, u[j].bits) : j \in 1..Len(u)}
           p == [j \in 1..Len(s) |-> PlacedByOne(s[j])]
           q == [j \in 1..Len(t) |-> PlacedByOne(t[j])]
           r == [j \in 1..Len(u) |-> PlacedByOne(u[j])]
<1>1. /\ Len(s) \in Nat /\ Len(t) \in Nat /\ Len(u) \in Nat
      /\ Len(u) = Len(s) + Len(t)
      /\ \A j \in 1..Len(s) : u[j] = s[j]
      /\ \A j \in 1..Len(t) : u[Len(s) + j] = t[j]
  BY ConcatIsSeq
<1>2. ASSUME NEW j \in 1..Len(u) PROVE PlacedByOne(u[j]) \in Seq(V)
  <2> DEFINE v == Prefix(u[j].addr, u[j].bits)
  <2>1. v \in V
    OBVIOUS
  <2> HIDE DEF V, v
  <2>2. <<v>> \in Seq(V) /\ << >> \in Seq(V)
    BY <2>1
  <2> QED BY <2>2 DEF PlacedByOne, v
<1> HIDE DEF u, V
<1>3. r \in Seq(Seq(V)) /\ Len(r) = Len(u)
  BY <1>1, <1>2, FcnIsSeq
<1>4. \A j \in 1..Len(s) : j \in 1..Len(u) /\ u[j] = s[j]
  BY <1>1
<1>5. \A j \in 1..Len(t) : Len(s) + j \in 1..Len(u) /\ u[Len(s) + j] = t[j]
  BY <1>1
<1>6. p \in Seq(Seq(V)) /\ Len(p) = Len(s)
  <2>1. \A j \in 1..Len(s) : PlacedByOne(s[j]) \in Seq(V)
    BY <1>2, <1>4
  <2> QED BY <1>1, <2>1, FcnIsSeq
<1>7. q \in Seq(Seq(V)) /\ Len(q) = Len(t)
  <2>1. \A j \in 1..Len(t) : PlacedByOne(t[j]) \in Seq(V)
    BY <1>2, <1>5
  <2> QED BY <1>1, <2>1, FcnIsSeq
<1>8. \A j \in 1..Len(s) : r[j] = p[j]
  BY <1>4
<1>9. \A j \in 1..Len(t) : r[Len(s) + j] = q[j]
  BY <1>5
<1> HIDE DEF p, q, r
<1>10. r = p \o q
  <2>1. /\ Len(r) = Len(p) + Len(q)
        /\ \A j \in 1..Len(p) : r[j] = p[j]
        /\ \A j \in 1..Len(q) : r[Len(p) + j] = q[j]
    BY <1>1, <1>3, <1>6, <1>7, <1>8, <1>9
  <2> QED BY <1>3, <1>6, <1>7, <2>1, IsConcat, Zenon
<1>11. FlattenSeq(r) = FlattenSeq(p) \o FlattenSeq(q)
  BY <1>6, <1>7, <1>10, FlattenConcat
<1> QED BY <1>11 DEF PlacedBy, p, q, r, u

\* Layers carry what their two parts carry.
LEMMA AddressesConcat ==
  ASSUME NEW s, NEW t, IsSeq(s), IsSeq(t)
  PROVE  AddressesOf(s \o t) = AddressesOf(s) \o AddressesOf(t)
<1> DEFINE u == s \o t
           V == {u[j].props.src : j \in 1..Len(u)}
           p == [j \in 1..Len(s) |-> WrittenOn(s[j])]
           q == [j \in 1..Len(t) |-> WrittenOn(t[j])]
           r == [j \in 1..Len(u) |-> WrittenOn(u[j])]
<1>1. /\ Len(s) \in Nat /\ Len(t) \in Nat /\ Len(u) \in Nat
      /\ Len(u) = Len(s) + Len(t)
      /\ \A j \in 1..Len(s) : u[j] = s[j]
      /\ \A j \in 1..Len(t) : u[Len(s) + j] = t[j]
  BY ConcatIsSeq
<1>2. ASSUME NEW j \in 1..Len(u) PROVE WrittenOn(u[j]) \in Seq(V)
  <2> DEFINE v == u[j].props.src
  <2>1. v \in V
    OBVIOUS
  <2> HIDE DEF V, v
  <2>2. <<v>> \in Seq(V) /\ << >> \in Seq(V)
    BY <2>1
  <2> QED BY <2>2 DEF WrittenOn, v
<1> HIDE DEF u, V
<1>3. r \in Seq(Seq(V)) /\ Len(r) = Len(u)
  BY <1>1, <1>2, FcnIsSeq
<1>4. \A j \in 1..Len(s) : j \in 1..Len(u) /\ u[j] = s[j]
  BY <1>1
<1>5. \A j \in 1..Len(t) : Len(s) + j \in 1..Len(u) /\ u[Len(s) + j] = t[j]
  BY <1>1
<1>6. p \in Seq(Seq(V)) /\ Len(p) = Len(s)
  <2>1. \A j \in 1..Len(s) : WrittenOn(s[j]) \in Seq(V)
    BY <1>2, <1>4
  <2> QED BY <1>1, <2>1, FcnIsSeq
<1>7. q \in Seq(Seq(V)) /\ Len(q) = Len(t)
  <2>1. \A j \in 1..Len(t) : WrittenOn(t[j]) \in Seq(V)
    BY <1>2, <1>5
  <2> QED BY <1>1, <2>1, FcnIsSeq
<1>8. \A j \in 1..Len(s) : r[j] = p[j]
  BY <1>4
<1>9. \A j \in 1..Len(t) : r[Len(s) + j] = q[j]
  BY <1>5
<1> HIDE DEF p, q, r
<1>10. r = p \o q
  <2>1. /\ Len(r) = Len(p) + Len(q)
        /\ \A j \in 1..Len(p) : r[j] = p[j]
        /\ \A j \in 1..Len(q) : r[Len(p) + j] = q[j]
    BY <1>1, <1>3, <1>6, <1>7, <1>8, <1>9
  <2> QED BY <1>3, <1>6, <1>7, <2>1, IsConcat, Zenon
<1>11. FlattenSeq(r) = FlattenSeq(p) \o FlattenSeq(q)
  BY <1>6, <1>7, <1>10, FlattenConcat
<1> QED BY <1>11 DEF AddressesOf, p, q, r, u

Protocols == {"ipv4", "gre", "ethernet", "udp", "vxlan", "vlan", "wireguard"}

\* The patterns are made of these names.
LEMMA PatternsTyped == \A e \in TilesOf(Registry) : e.pattern \in Seq(Protocols)
<1>1. /\ IPIP.pattern \in Seq(Protocols) /\ GRE.pattern \in Seq(Protocols)
      /\ GRETAP.pattern \in Seq(Protocols) /\ VXLAN.pattern \in Seq(Protocols)
      /\ VLAN.pattern \in Seq(Protocols) /\ WireGuard.pattern \in Seq(Protocols)
  <2>1. /\ <<"ipv4", "ipv4">> \in Seq(Protocols)
        /\ <<"ipv4", "gre", "ipv4">> \in Seq(Protocols)
        /\ <<"ipv4", "gre", "ethernet">> \in Seq(Protocols)
        /\ <<"ipv4", "udp", "vxlan", "ethernet">> \in Seq(Protocols)
        /\ <<"ethernet", "vlan">> \in Seq(Protocols)
        /\ <<"ipv4", "udp", "wireguard", "ipv4">> \in Seq(Protocols)
    BY DEF Protocols
  <2> QED BY <2>1, Zenon DEF IPIP, GRE, GRETAP, VXLAN, VLAN, WireGuard, LinuxTile
<1> QED BY <1>1, SixTiles, Zenon

\* One more tile stands for one pattern more.
LEMMA PatternsAppend ==
  ASSUME NEW s \in Seq(TilesOf(Registry)), NEW t \in TilesOf(Registry)
  PROVE  /\ Patterns(s) \in Seq(Protocols)
         /\ Patterns(Append(s, t)) = Patterns(s) \o t.pattern
<1> DEFINE u == Append(s, t)
           p == [j \in 1..Len(s) |-> s[j].pattern]
           q == <<t.pattern>>
           r == [j \in 1..Len(u) |-> u[j].pattern]
<1>1. \A e \in TilesOf(Registry) : e.pattern \in Seq(Protocols)
  BY PatternsTyped
<1>2. /\ Len(s) \in Nat /\ Len(u) = Len(s) + 1 /\ u \in Seq(TilesOf(Registry))
      /\ \A j \in 1..Len(s) : u[j] = s[j]
      /\ u[Len(s) + 1] = t
  OBVIOUS
<1>3. t.pattern \in Seq(Protocols)
  BY <1>1
<1>4. q \in Seq(Seq(Protocols)) /\ q # << >> /\ Len(q) = 1 /\ q[1] = t.pattern
  <2> DEFINE v == t.pattern
  <2> HIDE DEF v
  <2>1. <<v>> \in Seq(Seq(Protocols)) /\ <<v>> # << >> /\ Len(<<v>>) = 1 /\ <<v>>[1] = v
    BY <1>3 DEF v
  <2> QED BY <2>1 DEF v
<1>5. p \in Seq(Seq(Protocols)) /\ Len(p) = Len(s)
  <2>1. \A j \in 1..Len(s) : s[j].pattern \in Seq(Protocols)
    BY <1>1
  <2> QED BY <1>2, <2>1, FcnIsSeq
<1> HIDE DEF u
<1>6. r \in Seq(Seq(Protocols)) /\ Len(r) = Len(u)
  <2>1. \A j \in 1..Len(u) : u[j].pattern \in Seq(Protocols)
    BY <1>1, <1>2
  <2> QED BY <1>2, <2>1, FcnIsSeq
<1>7. \A j \in 1..Len(s) : r[j] = p[j]
  BY <1>2
<1>8. \A j \in 1..1 : r[Len(s) + j] = t.pattern
  BY <1>2
<1> HIDE DEF p, q, r
<1>9. r = p \o q
  <2>1. /\ Len(r) = Len(p) + Len(q)
        /\ \A j \in 1..Len(p) : r[j] = p[j]
    BY <1>2, <1>4, <1>5, <1>6, <1>7
  <2>2. \A j \in 1..Len(q) : r[Len(p) + j] = q[j]
    BY <1>2, <1>4, <1>5, <1>8
  <2> QED BY <1>4, <1>5, <1>6, <2>1, <2>2, IsConcat, Zenon
<1>10. FlattenSeq(r) = FlattenSeq(p) \o FlattenSeq(q)
  BY <1>4, <1>5, <1>9, FlattenConcat
<1>11. FlattenSeq(q) = t.pattern
  <2>1. PICK f : Steps(q, f)
    BY <1>4, FlattenSteps, Zenon
  <2> QED BY <1>4, <2>1 DEF Steps
<1>12. FlattenSeq(p) \in Seq(Protocols)
  BY <1>5, FlattenType
<1> QED BY <1>10, <1>11, <1>12 DEF Patterns, p, r, u

----------------------------------------------------------------------------
\* What one tile's commands place.

\* The addresses placed are a sequence.
LEMMA PlacedIsSeq ==
  ASSUME NEW s, IsSeq(s)
  PROVE  IsSeq(PlacedBy(s)) /\ PlacedBy(s) \o << >> = PlacedBy(s)
<1> DEFINE V == {Prefix(s[j].addr, s[j].bits) : j \in 1..Len(s)}
           p == [j \in 1..Len(s) |-> PlacedByOne(s[j])]
<1>1. Len(s) \in Nat
  BY DEF IsSeq
<1>2. ASSUME NEW j \in 1..Len(s) PROVE PlacedByOne(s[j]) \in Seq(V)
  <2> DEFINE v == Prefix(s[j].addr, s[j].bits)
  <2>1. v \in V
    OBVIOUS
  <2> HIDE DEF V, v
  <2>2. <<v>> \in Seq(V) /\ << >> \in Seq(V)
    BY <2>1
  <2> QED BY <2>2 DEF PlacedByOne, v
<1> HIDE DEF V
<1>3. p \in Seq(Seq(V))
  BY <1>1, <1>2, FcnIsSeq
<1> HIDE DEF p
<1>4. FlattenSeq(p) \in Seq(V)
  BY <1>3, FlattenType
<1> DEFINE w == FlattenSeq(p)
<1>5. IsSeq(w) /\ w \o << >> = w
  <2>1. w \in Seq(V)
    BY <1>4
  <2> HIDE DEF w
  <2> QED BY <2>1, SeqIsSeq, ConcatEmptySeq
<1> QED BY <1>5 DEF PlacedBy, p

\* Commands that place no address.
LEMMA NothingPlaced ==
  ASSUME NEW s, Len(s) \in Nat, \A j \in 1..Len(s) : s[j].op # "addr"
  PROVE  PlacedBy(s) = << >>
<1> DEFINE p == [j \in 1..Len(s) |-> PlacedByOne(s[j])]
<1>1. \A j \in 1..Len(s) : PlacedByOne(s[j]) \in {<< >>}
  BY DEF PlacedByOne
<1>2. p \in Seq({<< >>})
  BY <1>1, FcnIsSeq
<1> HIDE DEF p
<1>3. FlattenSeq(p) = << >>
  BY <1>2, FlattenEmpties
<1> QED BY <1>3 DEF PlacedBy, p

\* Layers that carry none.
LEMMA NothingWritten ==
  ASSUME NEW s, Len(s) \in Nat, \A j \in 1..Len(s) : ~CarriesAddress(s[j])
  PROVE  AddressesOf(s) = << >>
<1> DEFINE p == [j \in 1..Len(s) |-> WrittenOn(s[j])]
<1>1. \A j \in 1..Len(s) : WrittenOn(s[j]) \in {<< >>}
  BY DEF WrittenOn
<1>2. p \in Seq({<< >>})
  BY <1>1, FcnIsSeq
<1> HIDE DEF p
<1>3. FlattenSeq(p) = << >>
  BY <1>2, FlattenEmpties
<1> QED BY <1>3 DEF AddressesOf, p

\* One layer.
LEMMA WrittenOnOne ==
  ASSUME NEW n
  PROVE  IsSeq(<<n>>) /\ AddressesOf(<<n>>) = WrittenOn(n)
<1> DEFINE s == <<n>>
           w == WrittenOn(n)
           p == [j \in 1..Len(s) |-> WrittenOn(s[j])]
<1>1. s \in Seq({n}) /\ Len(s) = 1 /\ s[1] = n
  OBVIOUS
<1>2. IsSeq(s)
  BY <1>1, SeqIsSeq
<1>3. w \in Seq({n.props.src})
  <2> DEFINE v == n.props.src
  <2> HIDE DEF v
  <2>1. <<v>> \in Seq({v}) /\ << >> \in Seq({v})
    OBVIOUS
  <2> QED BY <2>1 DEF WrittenOn, v
<1>4. \A j \in 1..Len(s) : WrittenOn(s[j]) \in Seq({n.props.src}) /\ j = 1
  BY <1>1, <1>3
<1>5. p \in Seq(Seq({n.props.src})) /\ Len(p) = 1 /\ p[1] = w
  BY <1>1, <1>4, FcnIsSeq
<1> HIDE DEF p, w
<1>6. p # << >>
  <2>1. Len(<< >>) # 1
    OBVIOUS
  <2> QED BY <1>5, <2>1, Zenon
<1>7. PICK f : Steps(p, f)
  BY <1>5, <1>6, FlattenSteps, Zenon
<1>8. FlattenSeq(p) = w
  BY <1>5, <1>7 DEF Steps
<1> QED BY <1>2, <1>8 DEF AddressesOf, p, w

\* One address command.
LEMMA PlacedByAddress ==
  ASSUME NEW d, NEW v
  PROVE  /\ IsSeq(<<AddAddr(d, v)>>)
         /\ PlacedBy(<<AddAddr(d, v)>>) = <<Prefix(v.addr, v.bits)>>
<1> DEFINE c == AddAddr(d, v)
           s == <<c>>
           w == <<Prefix(v.addr, v.bits)>>
           p == [j \in 1..Len(s) |-> PlacedByOne(s[j])]
           V == {Prefix(v.addr, v.bits)}
<1>1. c.op = "addr" /\ c.addr = v.addr /\ c.bits = v.bits
  BY DEF AddAddr
<1>2. PlacedByOne(c) = w
  BY <1>1 DEF PlacedByOne
<1> HIDE DEF c
<1>3. s \in Seq({c}) /\ Len(s) = 1 /\ s[1] = c
  OBVIOUS
<1>4. IsSeq(s)
  BY <1>3, SeqIsSeq
<1>5. w \in Seq(V)
  <2> DEFINE a == Prefix(v.addr, v.bits)
  <2> HIDE DEF a
  <2>1. <<a>> \in Seq({a})
    OBVIOUS
  <2> QED BY <2>1 DEF a
<1> HIDE DEF w, V
<1>6. \A j \in 1..Len(s) : PlacedByOne(s[j]) \in Seq(V) /\ j = 1
  BY <1>2, <1>3, <1>5
<1>7. p \in Seq(Seq(V)) /\ Len(p) = 1 /\ p[1] = w
  BY <1>2, <1>3, <1>6, FcnIsSeq
<1> HIDE DEF p
<1>8. p # << >>
  <2>1. Len(<< >>) # 1
    OBVIOUS
  <2> QED BY <1>7, <2>1, Zenon
<1>9. PICK f : Steps(p, f)
  BY <1>7, <1>8, FlattenSteps, Zenon
<1>10. FlattenSeq(p) = w
  BY <1>7, <1>9 DEF Steps
<1> QED BY <1>4, <1>10 DEF PlacedBy, p, w, c

\* A layer whose address/length is well formed.
RawLayer(n) == \A key \in DOMAIN n.props : IsRaw(n.props[key])

\* AddressOf places what the layer carries.
LEMMA AddressOfPlaces ==
  ASSUME NEW n, NEW d, RawLayer(n)
  PROVE  PlacedBy(addrOn(n, d)) = WrittenOn(n)
<1>1. CASE CarriesAddress(n)
  <2> DEFINE v == n.props.src
  <2>1. Get(n, "src", "prefix") = "concrete"
    BY <1>1 DEF CarriesAddress, SrcPrefix
  <2>2. "src" \in DOMAIN n.props /\ v.kind = "prefix"
    <3>1. Lookup(n, "src")
      BY <2>1 DEF Get
    <3>2. n.props["src"] # Star
      BY <2>1, <3>1 DEF Get
    <3>3. Parses("prefix", n.props["src"])
      BY <2>1, <3>1, <3>2 DEF Get
    <3> QED BY <3>1, <3>3 DEF Parses, ParsePrefix, Lookup
  <2>3. v = Prefix(v.addr, v.bits)
    BY <2>2 DEF RawLayer, IsRaw
  <2> HIDE DEF v
  <2>4. addrOn(n, d) = <<AddAddr(d, v)>> /\ WrittenOn(n) = <<v>>
    BY <1>1 DEF addrOn, WrittenOn, v
  <2> QED BY <2>3, <2>4, PlacedByAddress
<1>2. CASE ~CarriesAddress(n)
  <2>1. addrOn(n, d) = << >> /\ WrittenOn(n) = << >>
    BY <1>2 DEF addrOn, WrittenOn
  <2>2. PlacedBy(<< >>) = << >>
    BY NothingPlaced
  <2> QED BY <2>1, <2>2
<1> QED BY <1>1, <1>2

\* Where one layer at most carries an address.
LEMMA OnlyOneWritten ==
  ASSUME NEW s, IsSeq(s), NEW k \in 1..Len(s),
         \A j \in 1..Len(s) : j # k => ~CarriesAddress(s[j])
  PROVE  AddressesOf(s) = WrittenOn(s[k])
<1> DEFINE S == {s[j] : j \in 1..Len(s)}
<1>1. s \in Seq(S)
  BY DEF IsSeq
<1> HIDE DEF S
<1> PICK n \in Nat : n = Len(s)
  BY <1>1
<1> DEFINE a == SubSeq(s, 1, k - 1)
           m == SubSeq(s, k, k)
           b == SubSeq(s, k + 1, n)
           r == SubSeq(s, k, n)
<1>2. /\ a \in Seq(S) /\ Len(a) = k - 1 /\ \A j \in 1..(k - 1) : a[j] = s[j]
      /\ b \in Seq(S) /\ Len(b) = n - k /\ \A j \in 1..(n - k) : b[j] = s[k + j]
      /\ m \in Seq(S) /\ Len(m) = 1 /\ m[1] = s[k]
      /\ r \in Seq(S)
  <2>1. a \in Seq(S) /\ Len(a) = k - 1 /\ \A j \in 1..(k - 1) : a[j] = s[j]
    BY <1>1, SubSeqProperties
  <2>2. b \in Seq(S) /\ Len(b) = n - k
    BY <1>1, SubSeqProperties
  <2>3. \A j \in 1..(n - k) : b[j] = s[k + j]
    BY <1>1, SubSeqProperties
  <2>4. m \in Seq(S) /\ Len(m) = 1 /\ m[1] = s[k]
    BY <1>1, SubSeqProperties
  <2>5. r \in Seq(S)
    BY <1>1, SubSeqProperties
  <2> HIDE DEF a, b, m, r
  <2> QED BY <2>1, <2>2, <2>3, <2>4, <2>5
<1>3. s = a \o r
  <2> PICK l \in Nat : l = k - 1
    OBVIOUS
  <2>0. 1 \in 1..(Len(s) + 1) /\ l \in (1 - 1)..Len(s) /\ n \in l..Len(s)
    OBVIOUS
  <2>1. SubSeq(s, 1, l) \o SubSeq(s, l + 1, n) = SubSeq(s, 1, n)
    BY <1>1, <2>0, ConcatAdjacentSubSeq, Zenon
  <2>2. l + 1 = k /\ SubSeq(s, 1, n) = s
    BY <1>1, SubSeqFull
  <2> QED BY <2>1, <2>2
<1>4. r = m \o b
  <2>1. SubSeq(s, k, k) \o SubSeq(s, k + 1, n) = SubSeq(s, k, n)
    BY <1>1, ConcatAdjacentSubSeq
  <2> QED BY <2>1
<1>5. m = <<s[k]>>
  <2> DEFINE e == s[k]
  <2>1. e \in S
    BY <1>1
  <2> HIDE DEF e, m
  <2>2. <<e>> \in Seq(S) /\ Len(<<e>>) = 1 /\ <<e>>[1] = e
    BY <2>1
  <2>3. Len(m) = Len(<<e>>) /\ \A j \in 1..Len(m) : m[j] = <<e>>[j]
    BY <1>2, <2>2 DEF e
  <2>4. m = <<e>>
    BY <1>2, <2>2, <2>3, SeqEqual
  <2> QED BY <2>4 DEF e
<1> HIDE DEF a, b, m, r
<1>6. AddressesOf(a) = << >>
  <2>1. Len(a) \in Nat /\ \A j \in 1..Len(a) : ~CarriesAddress(a[j])
    BY <1>2
  <2> QED BY <2>1, NothingWritten
<1>7. AddressesOf(b) = << >>
  <2>1. ASSUME NEW j \in 1..(n - k) PROVE ~CarriesAddress(b[j])
    <3>1. k + j \in 1..Len(s) /\ k + j # k
      OBVIOUS
    <3>2. b[j] = s[k + j]
      BY <1>2
    <3> QED BY <3>1, <3>2, Zenon
  <2> QED BY <1>2, <2>1, NothingWritten
<1>8. IsSeq(a) /\ IsSeq(b) /\ IsSeq(m) /\ IsSeq(r)
  BY <1>2, SeqIsSeq
<1>9. AddressesOf(s) = AddressesOf(a) \o AddressesOf(r)
  BY <1>3, <1>8, AddressesConcat, Zenon
<1>10. AddressesOf(r) = AddressesOf(m) \o AddressesOf(b)
  BY <1>4, <1>8, AddressesConcat, Zenon
<1>11. AddressesOf(m) = WrittenOn(s[k])
  BY <1>5, WrittenOnOne, Zenon
<1>12. WrittenOn(s[k]) \in Seq({s[k].props.src})
  <2> DEFINE v == s[k].props.src
  <2> HIDE DEF v
  <2>1. <<v>> \in Seq({v}) /\ << >> \in Seq({v})
    OBVIOUS
  <2> QED BY <2>1 DEF WrittenOn, v
<1> DEFINE w == WrittenOn(s[k])
<1>13. w \o << >> = w /\ << >> \o w = w
  <2> HIDE DEF w
  <2> QED BY <1>12, ConcatEmptySeq DEF w
<1> QED BY <1>6, <1>7, <1>9, <1>10, <1>11, <1>13, Zenon

\* A layer whose :src is an address, and one of another protocol, carry none.
LEMMA CarriesNone ==
  ASSUME NEW n, Src(n) = "concrete" \/ n.name \notin {"ipv4", "ipv6"}
  PROVE  ~CarriesAddress(n)
<1> SUFFICES ASSUME CarriesAddress(n) PROVE FALSE
  OBVIOUS
<1>1. Src(n) = "concrete" /\ SrcPrefix(n) = "concrete"
  BY DEF CarriesAddress
<1>2. Lookup(n, "src") /\ n.props["src"] # Star
  BY <1>1 DEF Src, Get
<1>3. Parses("addr", n.props["src"]) /\ Parses("prefix", n.props["src"])
  BY <1>1, <1>2 DEF Src, SrcPrefix, Get
<1>4. n.props["src"].kind = "addr" /\ n.props["src"].kind = "prefix"
  BY <1>3 DEF Parses, ParseAddr, ParsePrefix
<1> QED BY <1>4

\* What Matches says of the layers a tile is given.
Fits(t, sub) ==
  /\ IsSeq(sub) /\ Len(sub) = Len(t.pattern)
  /\ \A j \in 1..Len(sub) : sub[j].name = t.pattern[j] /\ RawLayer(sub[j])

\* A link, and then the address of a layer.
LEMMA LinkThenAddress ==
  ASSUME NEW l, l.op = "link", NEW n, NEW d, RawLayer(n)
  PROVE  PlacedBy(<<l>> \o addrOn(n, d)) = WrittenOn(n)
<1>1. <<l>> \in Seq({l}) /\ Len(<<l>>) = 1 /\ <<l>>[1] = l
  OBVIOUS
<1>2. IsSeq(<<l>>)
  BY <1>1, SeqIsSeq
<1>3. PlacedBy(<<l>>) = << >>
  BY <1>1, NothingPlaced
<1>4. IsSeq(addrOn(n, d))
  BY AddressCommands
<1>5. PlacedBy(<<l>> \o addrOn(n, d)) = << >> \o WrittenOn(n)
  <2> DEFINE a == <<l>>
             b == addrOn(n, d)
  <2>1. PlacedBy(b) = WrittenOn(n)
    BY AddressOfPlaces
  <2> HIDE DEF a, b
  <2>2. PlacedBy(a \o b) = PlacedBy(a) \o PlacedBy(b)
    BY <1>2, <1>4, PlacedConcat DEF a, b
  <2>3. PlacedBy(a) = << >>
    BY <1>3 DEF a
  <2>4. PlacedBy(a \o b) = << >> \o WrittenOn(n)
    BY <2>1, <2>2, <2>3, Zenon
  <2> QED BY <2>4 DEF a, b
<1>6. WrittenOn(n) \in Seq({n.props.src})
  <2> DEFINE v == n.props.src
  <2> HIDE DEF v
  <2>1. <<v>> \in Seq({v}) /\ << >> \in Seq({v})
    OBVIOUS
  <2> QED BY <2>1 DEF WrittenOn, v
<1> DEFINE w == WrittenOn(n)
<1>7. << >> \o w = w
  <2> HIDE DEF w
  <2> QED BY <1>6, ConcatEmptySeq DEF w
<1> QED BY <1>5, <1>7, Zenon

\* Each tile but WireGuard's places exactly the addresses on its layers.
LEMMA TilePlaces ==
  ASSUME NEW t \in TilesOf(Registry), t # WireGuard, NEW sub, NEW name, NEW under,
         Fits(t, sub), Ready(t, sub)
  PROVE  PlacedBy(Commands(t, sub, name, under)) = AddressesOf(sub)
<1> DEFINE c == Commands(t, sub, name, under)
<1>1. IsSeq(sub) /\ Len(sub) = Len(t.pattern) /\ Len(sub) \in Nat
  BY SixTiles DEF Fits
<1>2. \A j \in 1..Len(sub) : sub[j].name = t.pattern[j] /\ RawLayer(sub[j])
  BY DEF Fits
<1>3. CASE t = IPIP
  <2>1. Len(sub) = 2 /\ RawLayer(sub[2])
    BY <1>1, <1>2, <1>3 DEF IPIP, LinuxTile
  <2>2. Src(sub[1]) = "concrete"
    BY <1>3, SixTiles DEF Ready, endpoints
  <2>3. \A j \in 1..Len(sub) : j # 2 => ~CarriesAddress(sub[j])
    <3>1. \A j \in 1..2 : j # 2 => j = 1
      OBVIOUS
    <3> QED BY <2>1, <2>2, <3>1, CarriesNone
  <2>4. AddressesOf(sub) = WrittenOn(sub[2])
    <3>1. 2 \in 1..Len(sub)
      BY <2>1
    <3> QED BY <1>1, <2>3, <3>1, OnlyOneWritten, Zenon
  <2>5. c = <<PointToPoint("ipip", sub, name)>> \o addrOn(sub[2], name)
    BY <1>3, SixTiles DEF Commands, lowerIPIP
  <2>6. PointToPoint("ipip", sub, name).op = "link"
    BY DEF PointToPoint, Link
  <2> QED BY <2>1, <2>4, <2>5, <2>6, LinkThenAddress, Zenon
<1>4. CASE t = GRE
  <2>1. Len(sub) = 3 /\ RawLayer(sub[3]) /\ sub[2].name = "gre"
    BY <1>1, <1>2, <1>4 DEF GRE, LinuxTile
  <2>2. Src(sub[1]) = "concrete"
    BY <1>4, SixTiles DEF Ready, endpoints
  <2>3. \A j \in 1..Len(sub) : j # 3 => ~CarriesAddress(sub[j])
    <3>1. \A j \in 1..3 : j # 3 => j = 1 \/ j = 2
      OBVIOUS
    <3>2. ~CarriesAddress(sub[1]) /\ ~CarriesAddress(sub[2])
      BY <2>1, <2>2, CarriesNone
    <3> QED BY <2>1, <3>1, <3>2
  <2>4. AddressesOf(sub) = WrittenOn(sub[3])
    <3>1. 3 \in 1..Len(sub)
      BY <2>1
    <3> QED BY <1>1, <2>3, <3>1, OnlyOneWritten, Zenon
  <2>5. c = <<PointToPoint("gre", sub, name)>> \o addrOn(sub[3], name)
    BY <1>4, SixTiles DEF Commands, lowerGRE
  <2>6. PointToPoint("gre", sub, name).op = "link"
    BY DEF PointToPoint, Link
  <2> QED BY <2>1, <2>4, <2>5, <2>6, LinkThenAddress, Zenon
<1>5. CASE t = GRETAP
  <2>1. Len(sub) = 3 /\ sub[2].name = "gre" /\ sub[3].name = "ethernet"
    BY <1>1, <1>2, <1>5 DEF GRETAP, LinuxTile
  <2>2. Src(sub[1]) = "concrete"
    BY <1>5, SixTiles DEF Ready, endpoints
  <2>3. \A j \in 1..Len(sub) : ~CarriesAddress(sub[j])
    <3>1. \A j \in 1..3 : j = 1 \/ j = 2 \/ j = 3
      OBVIOUS
    <3>2. ~CarriesAddress(sub[1]) /\ ~CarriesAddress(sub[2]) /\ ~CarriesAddress(sub[3])
      BY <2>1, <2>2, CarriesNone
    <3> QED BY <2>1, <3>1, <3>2
  <2>4. AddressesOf(sub) = << >>
    BY <1>1, <2>3, NothingWritten
  <2> DEFINE l == PointToPoint("gretap", sub, name)
  <2>5. c = <<l>>
    BY <1>5, SixTiles DEF Commands, lowerGRETAP
  <2>6. l.op = "link"
    BY DEF PointToPoint, Link
  <2> HIDE DEF l, c
  <2>7. Len(c) = 1 /\ c[1] = l
    BY <2>5
  <2>8. PlacedBy(c) = << >>
    BY <2>6, <2>7, NothingPlaced
  <2> QED BY <2>4, <2>8 DEF c
<1>6. CASE t = VLAN
  <2>1. Len(sub) = 2 /\ sub[1].name = "ethernet" /\ sub[2].name = "vlan"
    BY <1>1, <1>2, <1>6 DEF VLAN, LinuxTile
  <2>2. \A j \in 1..Len(sub) : ~CarriesAddress(sub[j])
    <3>1. \A j \in 1..2 : j = 1 \/ j = 2
      OBVIOUS
    <3>2. ~CarriesAddress(sub[1]) /\ ~CarriesAddress(sub[2])
      BY <2>1, CarriesNone
    <3> QED BY <2>1, <3>1, <3>2
  <2>3. AddressesOf(sub) = << >>
    BY <1>1, <2>2, NothingWritten
  <2> DEFINE l == Link("vlan", name, under, Only("id", sub[2].props.id.num))
  <2>4. c = <<l>>
    BY <1>6, SixTiles DEF Commands, lowerVLAN
  <2>5. l.op = "link"
    BY DEF Link
  <2> HIDE DEF l, c
  <2>6. Len(c) = 1 /\ c[1] = l
    BY <2>4
  <2>7. PlacedBy(c) = << >>
    BY <2>5, <2>6, NothingPlaced
  <2> QED BY <2>3, <2>7 DEF c
<1>7. CASE t = VXLAN
  <2>1. /\ Len(sub) = 4 /\ RawLayer(sub[1]) /\ sub[1].name = "ipv4"
        /\ sub[2].name = "udp" /\ sub[3].name = "vxlan" /\ sub[4].name = "ethernet"
    BY <1>1, <1>2, <1>7 DEF VXLAN, LinuxTile
  <2>2. \A j \in 1..Len(sub) : j # 1 => ~CarriesAddress(sub[j])
    <3>1. \A j \in 1..4 : j # 1 => j = 2 \/ j = 3 \/ j = 4
      OBVIOUS
    <3>2. ~CarriesAddress(sub[2]) /\ ~CarriesAddress(sub[3]) /\ ~CarriesAddress(sub[4])
      BY <2>1, CarriesNone
    <3> QED BY <2>1, <3>1, <3>2
  <2>3. AddressesOf(sub) = WrittenOn(sub[1])
    <3>1. 1 \in 1..Len(sub)
      BY <2>1
    <3> QED BY <1>1, <2>2, <3>1, OnlyOneWritten, Zenon
  <2> DEFINE n == sub[1]
             l == VXLANLink(sub, name, under)
             a == underlayAddress(sub, under)
  <2>4. c = Append(a, l)
    BY <1>7, SixTiles DEF Commands, lowerVXLAN
  <2>5. l.op = "link"
    BY DEF VXLANLink, Link
  <2>6. a = addrOn(n, under)
    <3>1. readEndpoint(n, "src") \in {"concrete", "dynamic"}
      BY <1>7, SixTiles DEF Ready, ReadyVXLAN
    <3>2. n.name \in {"ipv4", "ipv6"}
      BY <2>1
    <3> HIDE DEF n
    <3>3. CarriesAddress(n) <=> n.props.src.kind = "prefix"
      <4>1. ASSUME n.props["src"].kind = "prefix" PROVE CarriesAddress(n)
        <5>1. Lookup(n, "src")
          BY <3>1 DEF readEndpoint, Get
        <5>2. n.props["src"] # Star
          BY <4>1 DEF Star
        <5>3. Parses("prefix", n.props["src"])
          BY <4>1 DEF Parses, ParsePrefix
        <5> QED BY <3>2, <5>1, <5>2, <5>3 DEF CarriesAddress, SrcPrefix, Get
      <4>2. ASSUME CarriesAddress(n) PROVE n.props["src"].kind = "prefix"
        <5>1. SrcPrefix(n) = "concrete"
          BY <4>2 DEF CarriesAddress
        <5>2. Lookup(n, "src") /\ n.props["src"] # Star
          BY <5>1 DEF SrcPrefix, Get
        <5>3. Parses("prefix", n.props["src"])
          BY <5>1, <5>2 DEF SrcPrefix, Get
        <5> QED BY <5>3 DEF Parses, ParsePrefix
      <4> QED BY <4>1, <4>2
    <3>4. a = IF n.props.src.kind = "prefix" THEN <<AddAddr(under, n.props.src)>> ELSE << >>
      BY DEF underlayAddress, n
    <3> QED BY <3>3, <3>4 DEF addrOn
  <2> HIDE DEF a, l, c, n
  <2>7. IsSeq(a)
    BY <2>6, AddressCommands, Zenon
  <2>8. <<l>> \in Seq({l}) /\ Len(<<l>>) = 1 /\ <<l>>[1] = l
    OBVIOUS
  <2> DEFINE b == <<l>>
  <2>9. IsSeq(b) /\ PlacedBy(b) = << >>
    <3>1. IsSeq(b)
      BY <2>8, SeqIsSeq
    <3>2. PlacedBy(b) = << >>
      BY <2>5, <2>8, NothingPlaced
    <3> QED BY <3>1, <3>2
  <2>10. c = a \o b
    <3>1. PICK S : a \in Seq(S)
      BY <2>7 DEF IsSeq
    <3>2. a \in Seq(S \cup {l}) /\ l \in S \cup {l}
      BY <3>1, SeqMonotonic
    <3> QED BY <2>4, <3>2, AppendIsConcat
  <2>11. PlacedBy(c) = WrittenOn(n) \o << >>
    <3> HIDE DEF b
    <3>1. PlacedBy(c) = PlacedBy(a) \o PlacedBy(b)
      BY <2>7, <2>9, <2>10, PlacedConcat, Zenon
    <3>2. PlacedBy(a) = WrittenOn(n)
      BY <2>1, <2>6, AddressOfPlaces, Zenon DEF n
    <3> QED BY <2>9, <3>1, <3>2, Zenon
  <2>12. WrittenOn(n) \in Seq({n.props.src})
    <3> DEFINE v == n.props.src
    <3> HIDE DEF v
    <3>1. <<v>> \in Seq({v}) /\ << >> \in Seq({v})
      OBVIOUS
    <3> QED BY <3>1 DEF WrittenOn, v
  <2> DEFINE w == WrittenOn(n)
  <2>13. w \o << >> = w
    <3> HIDE DEF w
    <3> QED BY <2>12, ConcatEmptySeq DEF w
  <2> QED BY <2>3, <2>11, <2>13, Zenon DEF c, n
<1> QED BY <1>3, <1>4, <1>5, <1>6, <1>7, SixTiles, Zenon

----------------------------------------------------------------------------
\* Cutting a rule.

\* A rule cut after layer k, and again after layer n.
CutAt(s, k, n) ==
  LET a == SubSeq(s, 1, k)
      b == SubSeq(s, k + 1, n)
  IN /\ IsSeq(a) /\ Len(a) = k /\ \A j \in 1..k : a[j] = s[j]
     /\ IsSeq(b) /\ Len(b) = n - k /\ \A j \in 1..(n - k) : b[j] = s[k + j]
     /\ a \o b = SubSeq(s, 1, n)
     /\ SubSeq(s, 1, Len(s)) = s

\* SubSeq cuts a rule that way, wherever the cuts are.
LEMMA CutLayers ==
  ASSUME NEW s, IsSeq(s), NEW k \in Nat, NEW n \in Nat, k <= n, n <= Len(s)
  PROVE  CutAt(s, k, n)
<1> DEFINE S == {s[j] : j \in 1..Len(s)}
<1>1. s \in Seq(S)
  BY DEF IsSeq
<1> HIDE DEF S
<1> PICK l \in Nat : l = Len(s)
  BY <1>1
<1> DEFINE a == SubSeq(s, 1, k)
           b == SubSeq(s, k + 1, n)
<1>2. a \in Seq(S) /\ Len(a) = k /\ \A j \in 1..k : a[j] = s[j]
  BY <1>1
<1>3. b \in Seq(S) /\ Len(b) = n - k /\ \A j \in 1..(n - k) : b[j] = s[k + j]
  <2>1. k + 1 \in 1..(l + 1) /\ n \in (k + 1 - 1)..l /\ n - (k + 1) + 1 = n - k
    OBVIOUS
  <2>2. b \in Seq(S) /\ Len(b) = n - k
    BY <1>1, <2>1
  <2>3. ASSUME NEW j \in 1..(n - k) PROVE b[j] = s[k + j]
    BY <1>1, <2>1
  <2> HIDE DEF b
  <2> QED BY <2>2, <2>3
<1>4. a \o b = SubSeq(s, 1, n)
  <2>1. 1 \in 1..(Len(s) + 1) /\ k \in (1 - 1)..Len(s) /\ n \in k..Len(s)
    OBVIOUS
  <2> QED BY <1>1, <2>1, ConcatAdjacentSubSeq, Zenon
<1>5. SubSeq(s, 1, Len(s)) = s
  BY <1>1, SubSeqFull
<1> HIDE DEF a, b
<1>6. IsSeq(a) /\ IsSeq(b)
  BY <1>2, <1>3, SeqIsSeq
<1> QED BY <1>2, <1>3, <1>4, <1>5, <1>6, Zenon DEF CutAt, a, b

\* What LayersAccounted asks of one printed rule.
Accounted(layers, res) ==
  LET conf  == SubSeq(layers, 1, Len(layers) - Len(res.payload))
      shape == Patterns(res.applied)
  IN /\ Len(conf) - Len(shape) \in {0, 1}
     /\ \A j \in 1..Len(shape) : conf[j].name = shape[j]
     /\ conf \o res.payload = layers
     /\ ~Contains(res.applied, WireGuard) => PlacedBy(res.script) = AddressesOf(conf)

\* LayersAccounted asks that of every printed rule, and nothing more.
LEMMA LayersAccountedEach ==
  LayersAccounted <=> \A r \in 1..Len(out) : Accounted(file[r].layers, out[r])
BY Zenon DEF LayersAccounted, Accounted, Configured

\* Of the k layers that tiles have covered, the patterns are the names and the
\* addresses are those the script places.
CoveredBy(layers, k, tiles, s) ==
  /\ tiles \in Seq(TilesOf(Registry))
  /\ Len(Patterns(tiles)) = k
  /\ \A j \in 1..k : layers[j].name = Patterns(tiles)[j]
  /\ ~Contains(tiles, WireGuard) => PlacedBy(s) = AddressesOf(SubSeq(layers, 1, k))

\* The end of Cover, where nothing is left over for an address ...
LEMMA EndsWithoutAddress ==
  ASSUME NEW layers, IsSeq(layers), NEW k \in Nat, k <= Len(layers), NEW tiles,
         NEW s, NEW u, CoveredBy(layers, k, tiles, s), PlacedBy(u) = PlacedBy(s),
         NEW res, res.script = u, res.applied = tiles,
         res.payload = SubSeq(layers, k + 1, Len(layers))
  PROVE  Accounted(layers, res)
<1> PICK n \in Nat : n = Len(layers)
  BY DEF IsSeq
<1> DEFINE a == SubSeq(layers, 1, k)
           b == SubSeq(layers, k + 1, n)
<1>1. /\ Len(a) = k /\ \A j \in 1..k : a[j] = layers[j]
      /\ Len(b) = n - k
      /\ a \o b = layers
  <2>1. n <= Len(layers) /\ k <= n
    OBVIOUS
  <2>2. CutAt(layers, k, n)
    BY <2>1, CutLayers
  <2>3. /\ Len(a) = k /\ \A j \in 1..k : a[j] = layers[j]
        /\ Len(b) = n - k
        /\ a \o b = SubSeq(layers, 1, n)
        /\ SubSeq(layers, 1, Len(layers)) = layers
    BY <2>2, Zenon DEF CutAt
  <2> QED BY <2>3
<1>2. SubSeq(layers, 1, Len(layers) - Len(b)) = a
  <2>1. Len(layers) - Len(b) = k
    BY <1>1
  <2> QED BY <2>1
<1> HIDE DEF a, b
<1> DEFINE shape == Patterns(tiles)
<1>3. /\ Len(shape) = k /\ \A j \in 1..k : layers[j].name = shape[j]
      /\ ~Contains(tiles, WireGuard) => PlacedBy(s) = AddressesOf(a)
  BY DEF CoveredBy, a
<1>4. Len(a) - Len(shape) \in {0, 1} /\ \A j \in 1..Len(shape) : a[j].name = shape[j]
  BY <1>1, <1>3
<1>5. res.payload = b
  BY DEF b
<1> QED BY <1>1, <1>2, <1>3, <1>4, <1>5, Zenon DEF Accounted

\* ... and where the first layer left over becomes one.
LEMMA EndsWithAddress ==
  ASSUME NEW layers, IsSeq(layers), NEW k \in Nat, k < Len(layers), NEW tiles,
         NEW s, NEW u, CoveredBy(layers, k, tiles, s),
         PlacedBy(u) = PlacedBy(s) \o WrittenOn(layers[k + 1]),
         NEW res, res.script = u, res.applied = tiles,
         res.payload = SubSeq(layers, k + 2, Len(layers))
  PROVE  Accounted(layers, res)
<1> PICK n \in Nat : n = Len(layers)
  BY DEF IsSeq
<1> PICK h \in Nat : h = k + 1
  OBVIOUS
<1> DEFINE a == SubSeq(layers, 1, k)
           e == SubSeq(layers, h, h)
           c == SubSeq(layers, 1, h)
           b == SubSeq(layers, h + 1, n)
<1>1. /\ Len(c) = h /\ \A j \in 1..h : c[j] = layers[j]
      /\ Len(b) = n - h
      /\ c \o b = layers
  <2>1. n <= Len(layers) /\ h <= n
    OBVIOUS
  <2>2. CutAt(layers, h, n)
    BY <2>1, CutLayers
  <2>3. /\ Len(c) = h /\ \A j \in 1..h : c[j] = layers[j]
        /\ Len(b) = n - h
        /\ c \o b = SubSeq(layers, 1, n)
        /\ SubSeq(layers, 1, Len(layers)) = layers
    BY <2>2, Zenon DEF CutAt
  <2> QED BY <2>3
<1>2. /\ IsSeq(a) /\ IsSeq(e) /\ Len(e) = 1 /\ e[1] = layers[h]
      /\ a \o e = c
  <2>1. h <= Len(layers) /\ k <= h
    OBVIOUS
  <2>2. CutAt(layers, k, h)
    BY <2>1, CutLayers
  <2>3. /\ IsSeq(a) /\ IsSeq(SubSeq(layers, k + 1, h))
        /\ Len(SubSeq(layers, k + 1, h)) = h - k
        /\ \A j \in 1..(h - k) : SubSeq(layers, k + 1, h)[j] = layers[k + j]
        /\ a \o SubSeq(layers, k + 1, h) = c
    BY <2>2, Zenon DEF CutAt
  <2> QED BY <2>3
<1>3. SubSeq(layers, 1, Len(layers) - Len(b)) = c
  <2>1. Len(layers) - Len(b) = h
    <3> HIDE DEF a, b, c, e
    <3> QED BY <1>1
  <2> QED BY <2>1
<1>4. res.payload = b
  <2>1. k + 2 = h + 1
    OBVIOUS
  <2> QED BY <2>1
<1> HIDE DEF a, b, c, e
<1> DEFINE shape == Patterns(tiles)
<1>5. /\ Len(shape) = k /\ \A j \in 1..k : layers[j].name = shape[j]
      /\ ~Contains(tiles, WireGuard) => PlacedBy(s) = AddressesOf(a)
  BY DEF CoveredBy, a
<1>6. Len(c) - Len(shape) \in {0, 1} /\ \A j \in 1..Len(shape) : c[j].name = shape[j]
  BY <1>1, <1>5
<1>7. AddressesOf(c) = AddressesOf(a) \o WrittenOn(layers[h])
  <2>1. AddressesOf(c) = AddressesOf(a) \o AddressesOf(e)
    BY <1>2, AddressesConcat, Zenon
  <2>2. AddressesOf(e) = WrittenOn(e[1])
    <3>1. 1 \in 1..Len(e) /\ \A j \in 1..Len(e) : j # 1 => ~CarriesAddress(e[j])
      BY <1>2
    <3> QED BY <1>2, <3>1, OnlyOneWritten, Zenon
  <2> QED BY <1>2, <2>1, <2>2, Zenon
<1>8. PlacedBy(u) = PlacedBy(s) \o WrittenOn(layers[h])
  OBVIOUS
<1>9. ~Contains(tiles, WireGuard) => PlacedBy(u) = AddressesOf(c)
  BY <1>5, <1>7, <1>8, Zenon
<1> QED BY <1>1, <1>3, <1>4, <1>6, <1>9, Zenon DEF Accounted

----------------------------------------------------------------------------
\* The inductive invariant: what is printed is accounted for, and so are the
\* layers of the rule in hand that Cover has behind it.
AccountInv ==
  /\ LowerInv
  /\ file \in Files
  /\ phase = "cover" => CoveredBy(sp, at, applied, script)
  /\ LayersAccounted

\* Before the file is read nothing is printed.
LEMMA AccountInit == Init => AccountInv
<1> SUFFICES ASSUME Init PROVE AccountInv
  OBVIOUS
<1>1. LowerInv
  BY LowerInit
<1>2. file \in Files /\ phase = "read" /\ out = << >>
  BY DEF Init
<1>3. LayersAccounted
  BY <1>2 DEF LayersAccounted
<1> QED BY <1>1, <1>2, <1>3 DEF AccountInv

\* A step that prints nothing leaves what is printed accounted for.
LEMMA PrintedKept ==
  ASSUME LayersAccounted, UNCHANGED <<file, out>>
  PROVE  LayersAccounted'
BY DEF LayersAccounted, Configured

\* A rule begins with nothing covered.
LEMMA NothingCovered ==
  ASSUME NEW layers
  PROVE  CoveredBy(layers, 0, << >>, << >>)
<1>1. Patterns(<< >>) = << >>
  <2>1. [j \in 1..Len(<< >>) |-> << >>[j].pattern] = << >>
    OBVIOUS
  <2> QED BY <2>1, FlattenNone DEF Patterns
<1>2. SubSeq(layers, 1, 0) = << >>
  BY SubSeqEmpty
<1>3. PlacedBy(<< >>) = << >> /\ AddressesOf(<< >>) = << >>
  BY NothingPlaced, NothingWritten
<1>4. << >> \in Seq(TilesOf(Registry)) /\ Len(<< >>) = 0
  BY EmptySeq
<1>5. \A j \in 1..0 : layers[j].name = << >>[j]
  OBVIOUS
<1> QED BY <1>1, <1>2, <1>3, <1>4, <1>5, Zenon DEF CoveredBy

\* A tile covers the layers it matched.
LEMMA OneTileCovered ==
  ASSUME NEW layers, IsSeq(layers), \A j \in 1..Len(layers) : RawLayer(layers[j]),
         NEW k \in Nat, NEW tiles, NEW s, IsSeq(s), CoveredBy(layers, k, tiles, s),
         NEW t \in TilesOf(Registry), Matches(t, layers, k),
         Ready(t, Slice(layers, k, k + Len(t.pattern))), NEW name, NEW under
  PROVE  CoveredBy(layers, k + Len(t.pattern), Append(tiles, t),
                   s \o Commands(t, Slice(layers, k, k + Len(t.pattern)), name, under))
<1> PICK n \in Nat : n = Len(t.pattern)
  BY SixTiles
<1> PICK h \in Nat : h = k + n
  OBVIOUS
<1> DEFINE a   == SubSeq(layers, 1, k)
           sub == SubSeq(layers, k + 1, h)
           c   == Commands(t, sub, name, under)
           P   == Patterns(tiles)
           Q   == Patterns(Append(tiles, t))
<1>1. h <= Len(layers) /\ \A j \in 1..n : layers[k + j].name = t.pattern[j]
  BY DEF Matches
<1>2. CutAt(layers, k, h)
  BY <1>1, CutLayers
<1>3. /\ IsSeq(a) /\ IsSeq(sub) /\ Len(sub) = h - k
      /\ \A j \in 1..(h - k) : sub[j] = layers[k + j]
      /\ a \o sub = SubSeq(layers, 1, h)
  BY <1>2, Zenon DEF CutAt
<1>4. Slice(layers, k, k + Len(t.pattern)) = sub
  BY DEF Slice
<1>5. Fits(t, sub)
  <2> HIDE DEF sub
  <2>1. Len(sub) = n /\ h - k = n
    BY <1>3
  <2>2. ASSUME NEW j \in 1..n PROVE sub[j].name = t.pattern[j] /\ RawLayer(sub[j])
    <3>1. k + j \in 1..Len(layers)
      BY <1>1
    <3>2. sub[j] = layers[k + j]
      BY <1>3, <2>1
    <3> QED BY <1>1, <3>1, <3>2
  <2> QED BY <1>3, <2>1, <2>2 DEF Fits
<1>6. IsSeq(c)
  BY CommandsMakeOne
<1>7. tiles \in Seq(TilesOf(Registry)) /\ Len(P) = k /\ \A j \in 1..k : layers[j].name = P[j]
  BY DEF CoveredBy
<1>8. P \in Seq(Protocols) /\ Q = P \o t.pattern
  BY <1>7, PatternsAppend
<1>9. Append(tiles, t) \in Seq(TilesOf(Registry))
  BY <1>7
<1>10. Len(Q) = h /\ \A j \in 1..h : layers[j].name = Q[j]
  <2>1. t.pattern \in Seq(Protocols)
    BY PatternsTyped
  <2> HIDE DEF P, Q
  <2>2. Len(Q) = k + n /\ \A j \in 1..(k + n) : Q[j] = IF j <= k THEN P[j] ELSE t.pattern[j - k]
    BY <1>7, <1>8, <2>1, ConcatProperties
  <2>3. ASSUME NEW j \in 1..h PROVE layers[j].name = Q[j]
    <3>1. CASE j <= k
      BY <1>7, <2>2, <3>1
    <3>2. CASE j > k
      <4>1. j - k \in 1..n /\ k + (j - k) = j
        BY <3>2
      <4>2. layers[k + (j - k)].name = t.pattern[j - k]
        BY <1>1, <4>1
      <4> QED BY <2>2, <3>2, <4>1, <4>2
    <3> QED BY <3>1, <3>2
  <2> QED BY <2>2, <2>3
<1>11. ASSUME ~Contains(Append(tiles, t), WireGuard)
       PROVE  PlacedBy(s \o c) = AddressesOf(SubSeq(layers, 1, h))
  <2>1. ~Contains(tiles, WireGuard) /\ t # WireGuard
    <3>1. /\ \A j \in 1..Len(tiles) :
               j \in 1..Len(Append(tiles, t)) /\ Append(tiles, t)[j] = tiles[j]
          /\ Len(tiles) + 1 \in 1..Len(Append(tiles, t))
          /\ Append(tiles, t)[Len(tiles) + 1] = t
      BY <1>7
    <3> QED BY <1>11, <3>1, Zenon DEF Contains
  <2>2. PlacedBy(s) = AddressesOf(a)
    BY <2>1 DEF CoveredBy
  <2>3. PlacedBy(c) = AddressesOf(sub)
    <3>1. Ready(t, sub)
      BY <1>4
    <3> QED BY <1>5, <2>1, <3>1, TilePlaces, Zenon
  <2> HIDE DEF a, sub, c
  <2>4. PlacedBy(s \o c) = PlacedBy(s) \o PlacedBy(c)
    BY <1>6, PlacedConcat
  <2>5. AddressesOf(a \o sub) = AddressesOf(a) \o AddressesOf(sub)
    BY <1>3, AddressesConcat
  <2> QED BY <1>3, <2>2, <2>3, <2>4, <2>5, Zenon
<1>12. CoveredBy(layers, h, Append(tiles, t), s \o c)
  BY <1>9, <1>10, <1>11, Zenon DEF CoveredBy
<1> QED BY <1>4, <1>12, Zenon

\* Every layer of a file is well formed.
LEMMA FileIsRaw ==
  ASSUME file \in Files, NEW r \in 1..Len(file)
  PROVE  /\ IsSeq(file[r].layers)
         /\ \A j \in 1..Len(file[r].layers) : RawLayer(file[r].layers[j])
BY LowerAssumption, RawAssumption, Zenon DEF RawLayer

\* One turn of Cover's loop.
LEMMA LowerTileAccounts ==
  ASSUME AccountInv, NEW t \in Picks, LowerTile(t)
  PROVE  AccountInv'
<1> DEFINE sub  == Slice(sp, at, at + Len(t.pattern))
           name == Answer(Naming(t, sub, dev))
<1>1. /\ LowerInv /\ file \in Files /\ LayersAccounted
      /\ phase = "cover" /\ CoveredBy(sp, at, applied, script)
  BY DEF AccountInv, LowerTile
<1>2. LowerInv'
  BY <1>1, LowerTileKeeps
<1>3. t \in TilesOf(Registry) /\ Matches(t, sp, at)
  BY DEF Picks, Candidates
<1>4. \/ Abort
      \/ /\ Ready(t, sub)
         /\ script' = script \o Commands(t, sub, name, dev)
         /\ applied' = Append(applied, t)
         /\ at' = at + Len(t.pattern)
         /\ UNCHANGED <<file, rule, phase, base, out>>
  BY Zenon DEF LowerTile
<1>5. UNCHANGED <<file, out>> /\ file' \in Files
  BY <1>1, <1>4 DEF Abort
<1>6. LayersAccounted'
  BY <1>1, <1>5, PrintedKept
<1>7. CASE Abort
  <2>1. phase' # "cover"
    BY <1>7 DEF Abort
  <2> QED BY <1>2, <1>5, <1>6, <2>1 DEF AccountInv
<1>8. CASE /\ Ready(t, sub)
           /\ script' = script \o Commands(t, sub, name, dev)
           /\ applied' = Append(applied, t)
           /\ at' = at + Len(t.pattern)
           /\ UNCHANGED <<file, rule, phase, base, out>>
  <2>1. at \in Nat /\ rule \in 1..Len(file) /\ IsSeq(script)
    BY <1>1, Lengths DEF LowerInv, Shape, TypeOK
  <2>2. IsSeq(sp) /\ \A j \in 1..Len(sp) : RawLayer(sp[j])
    BY <1>1, <2>1, FileIsRaw DEF sp
  <2>3. sp' = sp
    BY <1>8 DEF sp
  <2>4. CoveredBy(sp, at + Len(t.pattern), Append(applied, t),
                  script \o Commands(t, sub, name, dev))
    <3> HIDE DEF sp, name
    <3> QED BY <1>1, <1>3, <1>8, <2>1, <2>2, OneTileCovered, Zenon
  <2>5. CoveredBy(sp, at', applied', script')
    BY <1>8, <2>4, Zenon
  <2>6. CoveredBy(sp, at, applied, script)'
    BY <2>3, <2>5 DEF CoveredBy
  <2> QED BY <1>2, <1>5, <1>6, <2>6 DEF AccountInv
<1> QED BY <1>4, <1>7, <1>8

\* The end of Cover: the address left over, the bring-up, and the payload.
LEMMA FinishRuleAccounts ==
  ASSUME AccountInv, FinishRule
  PROVE  AccountInv'
<1> DEFINE rest == Slice(sp, at, Len(sp))
           addr == LeftoverAddress(rest)
           ups  == BringUp
           u    == script \o addr \o ups
           load == IF addr = << >> THEN rest ELSE Tail(rest)
           e    == [script |-> u, applied |-> applied, payload |-> load]
<1>1. /\ LowerInv /\ file \in Files /\ LayersAccounted
      /\ phase = "cover" /\ CoveredBy(sp, at, applied, script)
  BY DEF AccountInv, FinishRule
<1>2. LowerInv'
  BY <1>1, FinishRuleKeeps
<1>3. \/ Abort
      \/ out' = Append(out, e) /\ phase' = "rule" /\ UNCHANGED file
  BY Zenon DEF FinishRule
<1>4. CASE Abort
  <2>1. phase' # "cover" /\ UNCHANGED <<file, out>>
    BY <1>4 DEF Abort
  <2>2. LayersAccounted'
    BY <1>1, <2>1, PrintedKept
  <2> QED BY <1>1, <1>2, <2>1, <2>2 DEF AccountInv
<1>5. CASE out' = Append(out, e) /\ phase' = "rule" /\ UNCHANGED file
  <2>0. Len(sp) \in Nat
    <3>1. rule \in 1..Len(file)
      BY <1>1, Lengths DEF LowerInv, Shape, TypeOK
    <3>2. IsSeq(sp)
      BY <1>1, <3>1, FileIsRaw DEF sp
    <3> HIDE DEF sp
    <3> QED BY <3>2 DEF IsSeq
  <2> PICK n \in Nat : n = Len(sp)
    BY <2>0
  <2>1. /\ at \in Nat /\ at <= n /\ rule \in 1..Len(file) /\ IsSeq(script)
        /\ Len(out) = rule - 1 /\ IsSeq(out) /\ Len(out) \in Nat
        /\ Len(created) \in Nat /\ base \in 0..Len(created)
    BY <1>1, Lengths DEF LowerInv, Shape, TypeOK
  <2>2. IsSeq(sp) /\ \A j \in 1..Len(sp) : RawLayer(sp[j])
    BY <1>1, <2>1, FileIsRaw DEF sp
  <2>3. IsSeq(ups) /\ PlacedBy(ups) = << >>
    <3>1. \A j \in 1..(Len(created) - base) : SetUp(created[base + j]).op = "up"
      BY DEF SetUp
    <3> DEFINE m == Len(created) - base
               S == {SetUp(created[base + j]) : j \in 1..m}
    <3>2. m \in Nat /\ ups \in [1..m -> S]
      BY <2>1 DEF BringUp
    <3>3. ups \in Seq(S) /\ Len(ups) = m
      <4> HIDE DEF ups, m, S
      <4> QED BY <3>2, FcnIsSeq
    <3>4. \A j \in 1..m : ups[j].op = "up"
      BY <3>1 DEF BringUp
    <3> HIDE DEF ups, m, S
    <3>5. IsSeq(ups)
      BY <3>3, SeqIsSeq
    <3>6. PlacedBy(ups) = << >>
      BY <3>2, <3>3, <3>4, NothingPlaced
    <3> QED BY <3>5, <3>6
  <2>4. /\ Len(rest) = n - at
        /\ \A j \in 1..(n - at) : rest[j] = sp[at + j]
        /\ IsSeq(rest) /\ rest = SubSeq(sp, at + 1, Len(sp))
    <3>1. CutAt(sp, at, n)
      BY <2>1, <2>2, CutLayers
    <3>2. rest = SubSeq(sp, at + 1, n)
      BY DEF Slice
    <3> HIDE DEF rest
    <3>3. /\ Len(rest) = n - at /\ IsSeq(rest)
          /\ \A j \in 1..(n - at) : rest[j] = sp[at + j]
      BY <3>1, <3>2, Zenon DEF CutAt
    <3> QED BY <3>2, <3>3
  <2>5. IsSeq(addr) /\ PlacedBy(u) = PlacedBy(script) \o PlacedBy(addr)
    <3>1. IsSeq(addr)
      <4>1. IsSeq(<< >>)
        BY SeqIsSeq, EmptySeq
      <4> QED BY <4>1, AddressCommands, Zenon DEF LeftoverAddress
    <3> HIDE DEF addr, ups
    <3>2. IsSeq(script \o addr)
      BY <2>1, <3>1, ConcatIsSeq
    <3> DEFINE v == script \o addr
    <3>3. PlacedBy(v) = PlacedBy(script) \o PlacedBy(addr)
      BY <2>1, <3>1, PlacedConcat
    <3>4. PlacedBy(v \o ups) = PlacedBy(v) \o PlacedBy(ups)
      BY <2>3, <3>2, PlacedConcat
    <3>5. PlacedBy(v) \o << >> = PlacedBy(v)
      BY <3>2, PlacedIsSeq
    <3> QED BY <2>3, <3>1, <3>3, <3>4, <3>5, Zenon
  <2>6. Accounted(sp, e)
    <3>1. e.script = u /\ e.applied = applied /\ e.payload = load
      OBVIOUS
    <3> HIDE DEF e, u
    <3>2. CASE addr = << >>
      <4>1. PlacedBy(u) = PlacedBy(script)
        <5>1. PlacedBy(<< >>) = << >>
          BY NothingPlaced
        <5>2. PlacedBy(script) \o << >> = PlacedBy(script)
          BY <2>1, PlacedIsSeq
        <5> QED BY <2>5, <3>2, <5>1, <5>2, Zenon
      <4>2. load = SubSeq(sp, at + 1, Len(sp)) /\ at <= Len(sp)
        BY <2>1, <2>4, <3>2
      <4> HIDE DEF load, addr, sp
      <4> QED BY <1>1, <2>1, <2>2, <3>1, <4>1, <4>2, EndsWithoutAddress, Zenon
    <3>3. CASE addr # << >>
      <4>1. rest # << >> /\ addr = addrOn(rest[1], dev)
        BY <3>3 DEF LeftoverAddress
      <4>2. at < n /\ rest[1] = sp[at + 1]
        <5>1. Len(rest) # 0
          <6> HIDE DEF rest
          <6>1. rest \in Seq({rest[j] : j \in 1..Len(rest)})
            BY <2>4 DEF IsSeq
          <6> QED BY <4>1, <6>1, EmptySeq
        <5> HIDE DEF rest
        <5> QED BY <2>1, <2>4, <5>1
      <4>3. RawLayer(sp[at + 1])
        BY <2>1, <2>2, <4>2
      <4>4. PlacedBy(addr) = WrittenOn(sp[at + 1])
        BY <4>1, <4>2, <4>3, AddressOfPlaces, Zenon
      <4>5. PlacedBy(u) = PlacedBy(script) \o WrittenOn(sp[at + 1])
        BY <2>5, <4>4, Zenon
      <4>6. load = SubSeq(sp, at + 2, Len(sp))
        <5>1. Tail(SubSeq(sp, at + 1, n)) = SubSeq(sp, (at + 1) + 1, n)
          <6>1. sp \in Seq({sp[j] : j \in 1..Len(sp)})
            BY <2>2 DEF IsSeq
          <6>2. at + 1 \in 1..Len(sp) /\ n \in (at + 1)..Len(sp)
            BY <2>1, <4>2
          <6> HIDE DEF sp
          <6> QED BY <6>1, <6>2, HeadTailOfSubSeq
        <5>2. (at + 1) + 1 = at + 2
          BY <2>1
        <5> HIDE DEF rest, addr
        <5> QED BY <2>4, <3>3, <5>1, <5>2
      <4>7. at < Len(sp)
        BY <4>2
      <4> HIDE DEF load, addr, sp
      <4> QED BY <1>1, <2>1, <2>2, <3>1, <4>5, <4>6, <4>7, EndsWithAddress, Zenon
    <3> QED BY <3>2, <3>3
  <2> HIDE DEF e
  <2>7. /\ Len(out') = Len(out) + 1 /\ out'[Len(out) + 1] = e
        /\ \A r \in 1..Len(out) : out'[r] = out[r]
    BY <1>5, <2>1, AppendIsSeq
  <2>8. ASSUME NEW r \in 1..Len(out') PROVE Accounted(file'[r].layers, out'[r])
    <3>1. CASE r = rule
      <4>1. r = Len(out) + 1 /\ file'[r].layers = sp
        BY <1>5, <2>1, <3>1 DEF sp
      <4> QED BY <2>6, <2>7, <4>1, Zenon
    <3>2. CASE r # rule
      <4>1. r \in 1..Len(out) /\ file'[r] = file[r]
        BY <1>5, <2>1, <2>7, <3>2
      <4>2. Accounted(file[r].layers, out[r])
        BY <1>1, <4>1, LayersAccountedEach, Zenon
      <4> QED BY <2>7, <4>1, <4>2, Zenon
    <3> QED BY <3>1, <3>2
  <2>9. LayersAccounted'
    BY <2>8, Zenon DEF LayersAccounted, Configured, Accounted
  <2> QED BY <1>1, <1>2, <1>5, <2>9 DEF AccountInv
<1> QED BY <1>3, <1>4, <1>5

\* Every step keeps it.
LEMMA AccountStep == AccountInv /\ [Next]_vars => AccountInv'
<1> SUFFICES ASSUME AccountInv, [Next]_vars PROVE AccountInv'
  OBVIOUS
<1>1. LowerInv /\ file \in Files /\ LayersAccounted
  BY DEF AccountInv
<1>2. LowerInv'
  BY <1>1, LowerStep
<1>3. ASSUME UNCHANGED <<file, out>>, phase' # "cover" PROVE AccountInv'
  <2>1. LayersAccounted'
    BY <1>1, <1>3, PrintedKept
  <2> QED BY <1>1, <1>2, <1>3, <2>1 DEF AccountInv
<1>4. CASE ReadTrees \/ NoLowering \/ EndOfFile
  BY <1>3, <1>4 DEF ReadTrees, NoLowering, EndOfFile, Abort
<1>5. CASE StartRule
  <2>1. CASE Abort
    BY <1>3, <2>1 DEF Abort
  <2>2. CASE ~Abort
    <3>1. at' = 0 /\ applied' = << >> /\ script' = << >> /\ UNCHANGED <<file, out>>
      BY <1>5, <2>2 DEF StartRule
    <3>2. CoveredBy(sp, at, applied, script)'
      <4>1. CoveredBy(sp', 0, << >>, << >>)
        BY NothingCovered
      <4>2. CoveredBy(sp', at', applied', script')
        BY <3>1, <4>1, Zenon
      <4> QED BY <4>2 DEF CoveredBy
    <3>3. LayersAccounted'
      BY <1>1, <3>1, PrintedKept
    <3> QED BY <1>1, <1>2, <3>1, <3>2, <3>3 DEF AccountInv
  <2> QED BY <2>1, <2>2
<1>6. CASE \E t \in Picks : LowerTile(t)
  BY <1>6, LowerTileAccounts
<1>7. CASE FinishRule
  BY <1>7, FinishRuleAccounts
<1>8. CASE UNCHANGED vars
  <2>1. LayersAccounted'
    BY <1>1, <1>8, PrintedKept DEF vars
  <2>2. (phase = "cover" => CoveredBy(sp, at, applied, script))'
    BY <1>8 DEF AccountInv, CoveredBy, sp, vars
  <2> QED BY <1>1, <1>2, <1>8, <2>1, <2>2 DEF AccountInv, vars
<1> QED BY <1>4, <1>5, <1>6, <1>7, <1>8 DEF Next, Terminated

\* tile/cover.go: of every rule of every file, the tiles' patterns, at most one
\* address and the payload are the layers, in order, and each address written on
\* the configuration is placed once, in order, and no other is.  (Where a
\* WireGuard tile is used the addresses are left out, as LayersAccounted says.)
THEOREM EveryLayerAccounted == Spec => []LayersAccounted
<1>1. AccountInv => LayersAccounted
  BY DEF AccountInv
<1> QED BY <1>1, AccountInit, AccountStep, PTL DEF Spec

============================================================================
