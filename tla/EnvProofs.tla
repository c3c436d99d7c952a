----------------------------- MODULE EnvProofs -----------------------------
(* Proofs about package env, for every root, every set of prefixes and      *)
(* claims, and every limit on the length of a name.                         *)
EXTENDS EnvCalls, FiniteSetTheorems, TLAPS

----------------------------------------------------------------------------
\* Names as Sprintf builds them.

\* Digits returns a natural number and grows with its argument.
LEMMA DigitsGrow ==
  ASSUME NEW m \in Nat, NEW n \in Nat, m <= n
  PROVE  /\ Digits(m) \in Nat \ {0}
         /\ Digits(n) \in Nat \ {0}
         /\ Digits(m) <= Digits(n)
<1> DEFINE A(x) == {k \in 1..Len(Tens) : x >= Tens[k]}
<1>1. Len(Tens) \in Nat /\ \A k \in 1..Len(Tens) : Tens[k] \in Nat
  BY NamesAssumption
<1>2. IsFiniteSet(1..Len(Tens))
  BY <1>1, FS_Interval
<1>3. IsFiniteSet(A(n)) /\ Cardinality(A(n)) \in Nat
  <2>1. A(n) \subseteq 1..Len(Tens)
    OBVIOUS
  <2> QED BY <1>2, <2>1, FS_Subset, FS_CardinalityType
<1>4. A(m) \subseteq A(n)
  BY <1>1
<1>5. /\ IsFiniteSet(A(m)) /\ Cardinality(A(m)) \in Nat
      /\ Cardinality(A(m)) <= Cardinality(A(n))
  BY <1>3, <1>4, FS_Subset, FS_CardinalityType
<1> QED BY <1>3, <1>5 DEF Digits

\* A numbered name is an interface name.
LEMMA NameType ==
  ASSUME NEW p \in Stems, NEW n \in Nat
  PROVE  Name(p, n) \in IfNames
<1>1. Digits(n) \in Nat
  BY DigitsGrow
<1>2. StemLen[p] \in Nat
  BY NamesAssumption
<1>3. << >> \in Seq(Nat)
  OBVIOUS
<1> QED BY <1>1, <1>2, <1>3 DEF Name, IfNames

\* A VLAN's name is an interface name.
LEMMA TaggedType ==
  ASSUME NEW d \in IfNames, NEW id \in Nat
  PROVE  Tagged(d, id) \in IfNames
<1>1. Digits(id) \in Nat
  BY DigitsGrow
<1>2. Append(d.tags, id) \in Seq(Nat) /\ d.len + 1 + Digits(id) \in Nat
  BY <1>1 DEF IfNames
<1> QED BY <1>2 DEF Tagged, IfNames

\* Numbers name apart: two numbers never give one name.
LEMMA NameInjective ==
  ASSUME NEW p, NEW q, NEW m, NEW n, Name(p, m) = Name(q, n)
  PROVE  p = q /\ m = n
<1>1. Name(p, m).stem = p /\ Name(q, n).stem = q
  BY DEF Name
<1>2. Name(p, m).num = m /\ Name(q, n).num = n
  BY DEF Name
<1> QED BY <1>1, <1>2

\* Once a number is too long to be part of a name, every later one is.
LEMMA LegalBelow ==
  ASSUME NEW p \in Stems, NEW m \in Nat, NEW n \in Nat, m <= n, m # 0,
         validName(Name(p, n))
  PROVE  validName(Name(p, m))
<1>1. /\ Digits(m) \in Nat \ {0}
      /\ Digits(n) \in Nat \ {0}
      /\ Digits(m) <= Digits(n)
  BY DigitsGrow
<1>2. StemLen[p] \in Nat /\ MaxIfName \in Nat
  BY NamesAssumption
<1>3. /\ Name(p, n).len = StemLen[p] + Digits(n)
      /\ Name(p, m).len = StemLen[p] + Digits(m)
      /\ Name(p, n).stem = p /\ Name(p, m).stem = p
  BY DEF Name
<1> QED BY <1>1, <1>2, <1>3 DEF validName

----------------------------------------------------------------------------
\* Env's own invariant.

\* While Alloc loops it is still below the number no name has room for, so
\* the counter cannot run away.
LoopBelow ==
  call.op = "alloc" => count[call.prefix] < MaxCount

\* Every name granted is taken, the root's is from the start.
GrantedTaken ==
  /\ Root \in used
  /\ \A i \in 1..Len(Granted) : Granted[i] \in used

\* What the loop has done so far is what one Alloc step would skip.
LoopSkips ==
  /\ call.op # "alloc" => start = count
  /\ call.op = "alloc" =>
       /\ \A q \in NamePrefixes : q # call.prefix => start[q] = count[q]
       /\ start[call.prefix] <= count[call.prefix]
       /\ \A m \in 1..count[call.prefix] :
            m > start[call.prefix] => ~Stops(call.prefix, m)

\* A name is asked for only when the one before it has been entered.
OneAtATime == call # NoCall => answer = NoAnswer

EnvInv ==
  /\ TypeOK
  /\ NamesDistinct
  /\ NoGaps
  /\ LoopBelow
  /\ GrantedTaken
  /\ OneAtATime
  /\ LoopSkips

----------------------------------------------------------------------------
\* EnvInv holds of env.New.
LEMMA EnvInvInit == Init => EnvInv
<1> SUFFICES ASSUME Init PROVE EnvInv
  OBVIOUS
<1> USE DEF Init, EnvInit, NoCall, NoAnswer
<1>1. TypeOK
  BY EnvAssumption DEF TypeOK
<1>2. Granted = << >>
  BY DEF Granted
<1>3. NamesDistinct /\ GrantedTaken
  BY <1>2 DEF NamesDistinct, GrantedTaken
<1>4. NoGaps
  BY DEF NoGaps
<1>5. LoopBelow /\ OneAtATime /\ LoopSkips
  BY DEF LoopBelow, OneAtATime, LoopSkips
<1> QED BY <1>1, <1>3, <1>4, <1>5 DEF EnvInv

\* Every step of a call keeps EnvInv: one case an action, one step a conjunct
\* that the action can disturb.
LEMMA EnvInvNext == EnvInv /\ [Next]_vars => EnvInv'
<1> SUFFICES ASSUME EnvInv, [Next]_vars PROVE EnvInv'
  OBVIOUS
<1> USE DEF EnvInv
<1>1. ASSUME NEW name \in ClaimNames(dev), CallClaim(name) PROVE EnvInv'
  <2> USE <1>1 DEF CallClaim, MayAsk, envVars
  <2>1. name \in IfNames
    BY TaggedType, NameType, EnvCallsAssumption DEF ClaimNames, TypeOK
  <2>2. TypeOK'
    BY <2>1 DEF TypeOK, NoCall, NoAnswer
  <2>3. Granted' = Granted
    BY DEF Granted, NoAnswer
  <2>4. NamesDistinct' /\ GrantedTaken'
    BY <2>3 DEF NamesDistinct, GrantedTaken
  <2>5. NoGaps'
    BY DEF NoGaps, Free
  <2>6. LoopBelow' /\ OneAtATime' /\ LoopSkips'
    BY DEF LoopBelow, OneAtATime, LoopSkips
  <2> QED BY <2>2, <2>4, <2>5, <2>6
<1>2. ASSUME NEW p \in NamePrefixes, CallAlloc(p) PROVE EnvInv'
  <2> USE <1>2 DEF CallAlloc, MayAsk, envVars
  <2>2. TypeOK'
    BY DEF TypeOK, NoCall, NoAnswer
  <2>3. Granted' = Granted
    BY DEF Granted, NoAnswer
  <2>4. NamesDistinct' /\ GrantedTaken'
    BY <2>3 DEF NamesDistinct, GrantedTaken
  <2>5. NoGaps'
    BY DEF NoGaps, Free
  <2>6. LoopBelow' /\ OneAtATime'
    BY DEF LoopBelow, OneAtATime
  <2>7. LoopSkips'
    <3>1. count[p] \in Nat
      BY DEF TypeOK
    <3> QED BY <3>1 DEF LoopSkips
  <2> QED BY <2>2, <2>4, <2>5, <2>6, <2>7
<1>3. CASE ReturnClaim
  <2> USE <1>3 DEF ReturnClaim
  <2>1. call \in [op : {"claim"}, name : IfNames] /\ call # NoCall
    BY DEF TypeOK, NoCall
  <2>2. Granted = created
    BY <2>1 DEF OneAtATime, Granted, NoAnswer
  <2>3. CASE Claim(call.name) /\ answer' = Ok(call.name)
    <3> USE <2>3 DEF Claim, Ok
    <3>1. TypeOK'
      BY <2>1 DEF TypeOK
    <3>2. Granted' = Append(created, call.name)
      BY DEF Granted
    <3>3. NamesDistinct' /\ GrantedTaken'
      BY <2>2, <3>2 DEF NamesDistinct, GrantedTaken, Free, TypeOK
    <3>4. NoGaps'
      BY DEF NoGaps, Free
    <3>5. LoopBelow' /\ OneAtATime' /\ LoopSkips'
      BY <2>1 DEF LoopBelow, OneAtATime, LoopSkips, NoCall
    <3> QED BY <3>1, <3>3, <3>4, <3>5
  <2>4. CASE /\ ~Free(call.name)
             /\ answer' = Refused
             /\ UNCHANGED <<used, count>>
    <3> USE <2>4 DEF Refused
    <3>1. TypeOK'
      BY DEF TypeOK
    <3>2. Granted' = Granted
      BY <2>2 DEF Granted
    <3>3. NamesDistinct' /\ GrantedTaken'
      BY <3>2 DEF NamesDistinct, GrantedTaken
    <3>4. NoGaps'
      BY DEF NoGaps, Free
    <3>5. LoopBelow' /\ OneAtATime' /\ LoopSkips'
      BY <2>1 DEF LoopBelow, OneAtATime, LoopSkips, NoCall
    <3> QED BY <3>1, <3>3, <3>4, <3>5
  <2> QED BY <2>3, <2>4
<1>4. ASSUME NEW p \in NamePrefixes, Iterate(p) PROVE EnvInv'
  <2> DEFINE n    == count[p] + 1
             name == Name(p, n)
  <2>1. /\ call = [op |-> "alloc", prefix |-> p]
        /\ count' = [count EXCEPT ![p] = n]
        /\ UNCHANGED <<dev, created>>
    BY <1>4 DEF Iterate, Return, GoRound
  <2>2. count[p] \in 0..MaxCount /\ count[p] < MaxCount /\ MaxCount \in Nat
    BY <2>1, EnvAssumption DEF TypeOK, LoopBelow
  <2>3. name \in IfNames /\ count' \in [NamePrefixes -> 0..MaxCount]
    BY <2>1, <2>2, NameType, EnvAssumption DEF TypeOK
  <2>4. Granted = created
    BY <2>1 DEF OneAtATime, Granted, NoAnswer, NoCall
  <2>5. ASSUME used \subseteq used', ~validName(name) \/ name \in used'
        PROVE  NoGaps'
    <3> SUFFICES ASSUME NEW q \in NamePrefixes, NEW m \in 1..count'[q]
                 PROVE  ~validName(Name(q, m)) \/ Name(q, m) \in used'
      BY DEF NoGaps, Free
    <3>1. m \in 1..count[q] \/ (q = p /\ m = n)
      BY <2>1, <2>2 DEF TypeOK
    <3>2. CASE m \in 1..count[q]
      BY <2>5, <3>2 DEF NoGaps, Free
    <3>3. CASE q = p /\ m = n
      BY <2>5, <3>3
    <3> QED BY <3>1, <3>2, <3>3
  <2>6. CASE /\ ~validName(name)
             /\ answer' = Refused
             /\ call' = NoCall
             /\ start' = count'
             /\ UNCHANGED used
    <3> USE <2>6 DEF Refused
    <3>1. TypeOK'
      BY <2>1, <2>3 DEF TypeOK
    <3>2. Granted' = Granted
      BY <2>1, <2>4 DEF Granted
    <3>3. NamesDistinct' /\ GrantedTaken'
      BY <3>2 DEF NamesDistinct, GrantedTaken
    <3>4. NoGaps'
      BY <2>5
    <3>5. LoopBelow' /\ OneAtATime' /\ LoopSkips'
      BY DEF LoopBelow, OneAtATime, LoopSkips, NoCall
    <3> QED BY <3>1, <3>3, <3>4, <3>5
  <2>7. CASE /\ Free(name)
             /\ used' = used \cup {name}
             /\ answer' = Ok(name)
             /\ call' = NoCall
             /\ start' = count'
    <3> USE <2>7 DEF Ok
    <3>1. TypeOK'
      BY <2>1, <2>3 DEF TypeOK
    <3>2. Granted' = Append(created, name)
      BY <2>1 DEF Granted
    <3>3. NamesDistinct' /\ GrantedTaken'
      BY <2>1, <2>3, <2>4, <3>2 DEF NamesDistinct, GrantedTaken, Free, TypeOK
    <3>4. NoGaps'
      BY <2>5
    <3>5. LoopBelow' /\ OneAtATime' /\ LoopSkips'
      BY DEF LoopBelow, OneAtATime, LoopSkips, NoCall
    <3> QED BY <3>1, <3>3, <3>4, <3>5
  <2>8. CASE /\ validName(name)
             /\ name \in used
             /\ UNCHANGED <<used, answer, call, start>>
    <3> USE <2>8
    <3>1. TypeOK'
      BY <2>1, <2>3 DEF TypeOK
    <3>2. Granted' = Granted
      BY <2>1 DEF Granted
    <3>3. NamesDistinct' /\ GrantedTaken'
      BY <3>2 DEF NamesDistinct, GrantedTaken
    <3>4. NoGaps'
      BY <2>5
    <3>5. n # MaxCount
      BY EnvAssumption
    <3>6. LoopBelow' /\ OneAtATime'
      BY <2>1, <2>2, <2>3, <3>5 DEF LoopBelow, OneAtATime, TypeOK
    <3>7. LoopSkips'
      <4>1. call.op = "alloc" /\ call.prefix = p /\ call' = call
        BY <2>1
      <4>2. count'[p] = n /\ \A q \in NamePrefixes : q # p => count'[q] = count[q]
        BY <2>1 DEF TypeOK
      <4>3. start[p] \in Nat
        BY DEF TypeOK
      <4>4. \A m \in 1..n : m > start[p] => ~Stops(p, m)
        BY <2>2, <4>1, <4>3 DEF LoopSkips, Stops
      <4>5. \A m \in 1..n : m > start'[p] => ~Stops(p, m)'
        BY <4>4 DEF Stops
      <4> QED BY <2>2, <4>1, <4>2, <4>3, <4>5 DEF LoopSkips
    <3> QED BY <3>1, <3>3, <3>4, <3>6, <3>7
  <2> QED BY <1>4, <2>6, <2>7, <2>8 DEF Iterate, Return, GoRound
<1>5. CASE EnterDevice
  <2> USE <1>5 DEF EnterDevice, Enter
  <2>1. answer \in [op : {"ok"}, name : IfNames]
    BY DEF TypeOK, NoAnswer, Refused
  <2>2. TypeOK'
    BY <2>1 DEF TypeOK
  <2>3. Granted' = Granted
    BY DEF Granted, NoAnswer
  <2>4. NamesDistinct' /\ GrantedTaken'
    BY <2>3 DEF NamesDistinct, GrantedTaken
  <2>5. NoGaps'
    BY DEF NoGaps, Free
  <2>6. LoopBelow' /\ OneAtATime' /\ LoopSkips'
    BY DEF LoopBelow, OneAtATime, LoopSkips, NoCall
  <2> QED BY <2>2, <2>4, <2>5, <2>6
<1>6. CASE NextRule
  <2> USE <1>6 DEF NextRule, Reset
  <2>2. TypeOK'
    BY EnvAssumption DEF TypeOK
  <2>3. Granted' = Granted
    BY DEF Granted, NoAnswer
  <2>4. NamesDistinct' /\ GrantedTaken'
    BY <2>3 DEF NamesDistinct, GrantedTaken
  <2>5. NoGaps'
    BY DEF NoGaps, Free
  <2>6. LoopBelow' /\ OneAtATime' /\ LoopSkips'
    BY DEF LoopBelow, OneAtATime, LoopSkips, NoCall
  <2> QED BY <2>2, <2>4, <2>5, <2>6
<1>7. CASE UNCHANGED vars
  <2> USE <1>7 DEF vars
  <2>1. TypeOK'
    BY DEF TypeOK
  <2>2. NamesDistinct' /\ GrantedTaken'
    BY DEF NamesDistinct, GrantedTaken, Granted
  <2>3. NoGaps' /\ LoopBelow' /\ OneAtATime' /\ LoopSkips'
    BY DEF NoGaps, Free, LoopBelow, OneAtATime, LoopSkips, Stops
  <2> QED BY <2>1, <2>2, <2>3
<1> QED BY <1>1, <1>2, <1>3, <1>4, <1>5, <1>6, <1>7 DEF Next

\* Everything env is relied on for holds in every state of every run.
THEOREM EnvInvariant == Spec => []EnvInv
BY EnvInvInit, EnvInvNext, PTL DEF Spec

\* The variables keep their types; in particular Alloc's counter never goes
\* past the first number no legal name has room for.
THEOREM EnvTypeOK == Spec => []TypeOK
<1>1. EnvInv => TypeOK
  BY DEF EnvInv
<1> QED BY <1>1, EnvInvariant, PTL

\* No two devices of a file, in whatever rules, get one name.
THEOREM DeviceNamesDistinct == Spec => []NamesDistinct
<1>1. EnvInv => NamesDistinct
  BY DEF EnvInv
<1> QED BY <1>1, EnvInvariant, PTL

\* The counters never skip a usable name.
THEOREM CountersLeaveNoGaps == Spec => []NoGaps
<1>1. EnvInv => NoGaps
  BY DEF EnvInv
<1> QED BY <1>1, EnvInvariant, PTL

----------------------------------------------------------------------------
\* env implements Namespace.

\* Namespace builds and checks names as env does.
LEMMA SameNames ==
  /\ \A p, n : Contract!Name(p, n) = Name(p, n)
  /\ \A name : Contract!validName(name) = validName(name)
  /\ \A name : Contract!Free(name) = Free(name)
  /\ Contract!IfNames = IfNames
<1>0. \A n : Contract!Digits(n) = Digits(n)
  BY Zenon DEF Contract!Digits, Digits, Contract!Cardinality, Cardinality
<1>1. \A p, n : Contract!Name(p, n) = Name(p, n)
  BY <1>0 DEF Contract!Name, Name
<1>2. \A name : Contract!validName(name) = validName(name)
  BY DEF Contract!validName, validName
<1>3. \A name : Contract!Free(name) = Free(name)
  BY <1>2 DEF Contract!Free, Free
<1>4. Contract!IfNames = IfNames
  BY DEF Contract!IfNames, IfNames
<1> QED BY <1>1, <1>2, <1>3, <1>4

\* Where Alloc gives up there is no legal free name at any number: the ones
\* before are taken, the ones after are longer.
LEMMA GivesUpWhenFull ==
  ASSUME NEW p \in NamePrefixes, NEW n \in 1..MaxCount, ~validName(Name(p, n)),
         \A m \in 1..(n - 1) : ~Free(Name(p, m))
  PROVE  \A m \in 1..MaxCount : ~Free(Name(p, m))
<1> SUFFICES ASSUME NEW m \in 1..MaxCount, m >= n PROVE ~validName(Name(p, m))
  BY EnvAssumption DEF Free
<1>1. p \in Stems /\ m \in Nat /\ n \in Nat /\ n <= m /\ n # 0
  BY EnvAssumption
<1> QED BY <1>1, LegalBelow

\* Each step of env is a step of Namespace or leaves its state alone.
LEMMA StepKeepsPromise ==
  EnvInv /\ [Next]_vars => [Contract!Next]_(Contract!vars)
<1> SUFFICES ASSUME EnvInv, [Next]_vars
             PROVE  Contract!Next \/ UNCHANGED <<used, call, answer>>
  BY DEF Contract!vars
<1> USE DEF EnvInv
<1>1. ASSUME NEW name \in ClaimNames(dev), CallClaim(name) PROVE Contract!Next
  <2>1. name \in IfNames
    BY TaggedType, NameType, EnvCallsAssumption DEF ClaimNames, TypeOK
  <2>2. Contract!Ask
    BY <1>1, <2>1, SameNames
    DEF CallClaim, MayAsk, envVars, Contract!Ask, Contract!NoCall,
        Contract!NoAnswer, NoCall, NoAnswer
  <2> QED BY <2>2 DEF Contract!Next
<1>2. ASSUME NEW p \in NamePrefixes, CallAlloc(p) PROVE Contract!Next
  <2>1. Contract!Ask
    BY <1>2
    DEF CallAlloc, MayAsk, envVars, Contract!Ask, Contract!NoCall,
        Contract!NoAnswer, NoCall, NoAnswer
  <2> QED BY <2>1 DEF Contract!Next
<1>3. CASE ReturnClaim
  <2>1. Contract!AnswerClaim
    BY <1>3, SameNames
    DEF ReturnClaim, Claim, Contract!AnswerClaim, Contract!Grant,
        Contract!Refuse, Contract!NoCall, NoCall, Contract!Ok, Ok,
        Contract!Refused, Refused
  <2> QED BY <2>1 DEF Contract!Next
<1>4. ASSUME NEW p \in NamePrefixes, Iterate(p)
      PROVE  Contract!Next \/ UNCHANGED <<used, call, answer>>
  <2> DEFINE n == count[p] + 1
  <2>1. /\ call = [op |-> "alloc", prefix |-> p]
        /\ call.op = "alloc" /\ call.prefix = p
    BY <1>4 DEF Iterate, Return, GoRound
  <2>2. n \in 1..MaxCount /\ n - 1 = count[p]
    BY <2>1, EnvAssumption DEF TypeOK, LoopBelow
  <2>3. \A m \in 1..(n - 1) : ~Free(Name(p, m))
    BY <2>2 DEF NoGaps
  <2>4. CASE ~validName(Name(p, n))
    <3>1. \A m \in 1..MaxCount : ~Free(Name(p, m))
      BY <2>2, <2>3, <2>4, GivesUpWhenFull
    <3>2. call' = NoCall /\ answer' = Refused /\ UNCHANGED used
      BY <1>4, <2>4 DEF Iterate, Return, GoRound, Free
    <3>3. Contract!AnswerAlloc
      BY <2>1, <3>1, <3>2, SameNames
      DEF Contract!AnswerAlloc, Contract!Refuse, Contract!NoCall, NoCall,
          Contract!Refused, Refused
    <3> QED BY <3>3 DEF Contract!Next
  <2>5. CASE Free(Name(p, n))
    <3>1. /\ call' = NoCall
          /\ answer' = Ok(Name(p, n))
          /\ used' = used \cup {Name(p, n)}
      BY <1>4, <2>5 DEF Iterate, Return, GoRound, Free
    <3>2. Contract!Grant(Contract!Name(p, n))
      BY <2>5, <3>1, SameNames DEF Contract!Grant, Contract!Ok, Ok
    <3>3. \A m \in 1..(n - 1) : ~Contract!Free(Contract!Name(p, m))
      BY <2>3, SameNames
    <3>4. Contract!AnswerAlloc
      BY <2>1, <2>2, <3>1, <3>2, <3>3
      DEF Contract!AnswerAlloc, Contract!NoCall, NoCall
    <3> QED BY <3>4 DEF Contract!Next
  <2>6. CASE validName(Name(p, n)) /\ Name(p, n) \in used
    BY <1>4, <2>6 DEF Iterate, Return, GoRound, Free
  <2> QED BY <2>4, <2>5, <2>6 DEF Free
<1>5. CASE EnterDevice \/ NextRule
  <2>1. Contract!Acted
    BY <1>5
    DEF EnterDevice, NextRule, Reset, Contract!Acted, Contract!NoCall, NoCall,
        Contract!NoAnswer, NoAnswer
  <2> QED BY <2>1 DEF Contract!Next
<1>6. CASE UNCHANGED vars
  BY <1>6 DEF vars
<1> QED BY <1>1, <1>2, <1>3, <1>4, <1>5, <1>6 DEF Next

\* env keeps the promise of Namespace: claims are granted exactly when legal
\* and free, and Alloc answers with the smallest legal free number or, when
\* there is none, with an error.
THEOREM EnvImplementsNamespace == Spec => NamespaceSpec
<1>1. Init => Contract!Init
  BY DEF Init, EnvInit, Contract!Init, Contract!NoCall, NoCall,
         Contract!NoAnswer, NoAnswer
<1> QED BY <1>1, StepKeepsPromise, EnvInvariant, PTL
        DEF Spec, NamespaceSpec, Contract!Spec

----------------------------------------------------------------------------
\* Alloc's loop is one step of Env.

\* Env with the counters of the call builds and checks names alike.
LEMMA SameForAtomic ==
  /\ \A p, n : Atomic!Name(p, n) = Name(p, n)
  /\ \A name : Atomic!validName(name) = validName(name)
  /\ \A name : Atomic!Free(name) = Free(name)
  /\ \A p, n : Atomic!Stops(p, n) = Stops(p, n)
<1>0. \A n : Atomic!Digits(n) = Digits(n)
  BY Zenon DEF Atomic!Digits, Digits, Atomic!Cardinality, Cardinality
<1>1. \A p, n : Atomic!Name(p, n) = Name(p, n)
  BY <1>0 DEF Atomic!Name, Name
<1>2. \A name : Atomic!validName(name) = validName(name)
  BY DEF Atomic!validName, validName
<1>3. \A name : Atomic!Free(name) = Free(name)
  BY <1>2 DEF Atomic!Free, Free
<1>4. \A p, n : Atomic!Stops(p, n) = Stops(p, n)
  BY <1>1, <1>2 DEF Atomic!Stops, Stops
<1> QED BY <1>1, <1>2, <1>3, <1>4

\* Each step of the loop is a step of Env, or one that Env does not see.
LEMMA StepIsAtomic ==
  EnvInv /\ [Next]_vars => [Atomic!EnvNext]_(Atomic!envVars)
<1> SUFFICES ASSUME EnvInv, [Next]_vars
             PROVE  Atomic!EnvNext \/ UNCHANGED <<dev, created, used, start>>
  BY DEF Atomic!envVars
<1> USE DEF EnvInv
<1>1. ASSUME NEW name \in ClaimNames(dev), CallClaim(name)
      PROVE  UNCHANGED <<dev, created, used, start>>
  BY <1>1 DEF CallClaim, MayAsk, envVars, LoopSkips, NoCall
<1>2. ASSUME NEW p \in NamePrefixes, CallAlloc(p)
      PROVE  UNCHANGED <<dev, created, used, start>>
  BY <1>2 DEF CallAlloc, MayAsk, envVars, LoopSkips, NoCall
<1>3. CASE ReturnClaim
  <2>1. CASE Claim(call.name)
    <3>1. call.name \in used'
      BY <2>1 DEF Claim
    <3>2. Atomic!Claim(call.name) /\ UNCHANGED <<dev, created>>
      BY <1>3, <2>1, SameForAtomic
      DEF ReturnClaim, Claim, Atomic!Claim, LoopSkips
    <3> QED BY <3>1, <3>2 DEF Atomic!EnvNext
  <2>2. CASE UNCHANGED <<used, count>>
    BY <1>3, <2>2 DEF ReturnClaim
  <2> QED BY <1>3, <2>1, <2>2 DEF ReturnClaim
<1>4. ASSUME NEW p \in NamePrefixes, Iterate(p)
      PROVE  Atomic!EnvNext \/ UNCHANGED <<dev, created, used, start>>
  <2> DEFINE n == count[p] + 1
  <2>1. /\ call = [op |-> "alloc", prefix |-> p]
        /\ call.op = "alloc" /\ call.prefix = p
        /\ count' = [count EXCEPT ![p] = n]
        /\ UNCHANGED <<dev, created>>
    BY <1>4 DEF Iterate, Return, GoRound
  <2>2. /\ n \in 1..MaxCount /\ n - 1 = count[p] /\ MaxCount \in Nat
        /\ start[p] \in Nat /\ start[p] < n
    BY <2>1, EnvAssumption DEF TypeOK, LoopBelow, LoopSkips
  <2>3. \A m \in 1..(n - 1) : m > start[p] => ~Stops(p, m)
    BY <2>1, <2>2 DEF LoopSkips
  <2>4. ASSUME start' = count' PROVE start' = [start EXCEPT ![p] = n]
    BY <2>1, <2>4 DEF LoopSkips, TypeOK
  <2>5. CASE Stops(p, n)
    <3>1. start' = count' /\ (IF validName(Name(p, n))
                              THEN used' = used \cup {Name(p, n)}
                              ELSE UNCHANGED used)
      BY <1>4, <2>5 DEF Iterate, Return, GoRound, Stops, Free
    <3>2. Atomic!StopsAt(p, n)
      BY <2>2, <2>3, <2>5, SameForAtomic DEF Atomic!StopsAt
    <3>3. Atomic!Alloc(p, n) \/ Atomic!AllocFails(p, n)
      BY <2>4, <3>1, <3>2, SameForAtomic DEF Atomic!Alloc, Atomic!AllocFails
    <3> QED BY <2>1, <2>2, <3>3 DEF Atomic!EnvNext
  <2>6. CASE ~Stops(p, n)
    BY <1>4, <2>6 DEF Iterate, Return, GoRound, Stops, Free
  <2> QED BY <2>5, <2>6
<1>5. CASE EnterDevice
  <2>1. answer \in [op : {"ok"}, name : IfNames]
    BY <1>5 DEF EnterDevice, TypeOK, NoAnswer, Refused
  <2>2. Granted = Append(created, answer.name) /\ created \in Seq(IfNames)
    BY <1>5 DEF EnterDevice, Granted, TypeOK
  <2>3. Len(Granted) = Len(created) + 1 /\ Granted[Len(Granted)] = answer.name
    BY <2>1, <2>2
  <2>4. answer.name \in used
    BY <2>2, <2>3 DEF GrantedTaken
  <2>5. Atomic!Enter(answer.name) /\ UNCHANGED <<used, start>>
    BY <1>5 DEF EnterDevice, Enter, Atomic!Enter
  <2> QED BY <2>4, <2>5 DEF Atomic!EnvNext
<1>6. CASE NextRule
  <2>1. Atomic!Reset
    BY <1>6 DEF NextRule, Reset, Atomic!Reset
  <2> QED BY <2>1 DEF Atomic!EnvNext
<1>7. CASE UNCHANGED vars
  BY <1>7 DEF vars
<1> QED BY <1>1, <1>2, <1>3, <1>4, <1>5, <1>6, <1>7 DEF Next

\* Alloc may be taken as one step, whatever number of iterations its loop
\* needs: the step from the counters at the call to those at the return.
THEOREM AllocIsAtomic == Spec => AtomicSpec
<1>1. Init => Atomic!EnvInit
  BY DEF Init, EnvInit, Atomic!EnvInit
<1> QED BY <1>1, StepIsAtomic, EnvInvariant, PTL
        DEF Spec, AtomicSpec, Atomic!EnvSpec

============================================================================
