-------------------------------- MODULE Env --------------------------------
(* Package env: the device the next tile attaches to, the devices made so   *)
(* far, the names taken and the counters that numbered names come from.     *)
(*                                                                          *)
(* Claim, Alloc, Enter and Reset are written as actions on the variables    *)
(* they assign, so that a tile's Lower is a conjunction of them.  Alloc is  *)
(* one step here; EnvCalls has its loop, one iteration a step, and is       *)
(* checked to implement this module.                                        *)
EXTENDS Names

CONSTANTS
  Root,          \* the physical device, -underlay on the command line
  NamePrefixes,  \* what the tiles pass to Alloc
  MaxCount       \* a number no legal name has room for: 10^14 is one in the code

ASSUME EnvAssumption ==
  /\ NamePrefixes \subseteq Stems
  /\ Root \in IfNames
  /\ MaxCount \in Nat
  /\ \A p \in NamePrefixes : ~validName(Name(p, MaxCount))

VARIABLES dev, created, used, count

envVars == <<dev, created, used, count>>

----------------------------------------------------------------------------
\* env.New(Root)
EnvInit ==
  /\ dev = Root
  /\ created = << >>
  /\ used = {Root}
  /\ count = [p \in NamePrefixes |-> 0]

Free(name) == validName(name) /\ name \notin used

\* Faulty: the check that the name is free is left out.
ClaimUnchecked(name) ==
  /\ validName(name)
  /\ used' = used \cup {name}
  /\ UNCHANGED count

\* Faulty: the name is checked and not recorded.
ClaimForgets(name) ==
  /\ Free(name)
  /\ UNCHANGED <<used, count>>

Claim(name) ==
  /\ Free(name)
  /\ used' = used \cup {name}
  /\ UNCHANGED count

\* The number at which Alloc's loop stops: the first one after the counter
\* whose name is illegal or not taken.
Stops(p, n) == ~validName(Name(p, n)) \/ Name(p, n) \notin used

StopsAt(p, n) ==
  /\ n > count[p]
  /\ Stops(p, n)
  /\ \A m \in (count[p] + 1)..(n - 1) : ~Stops(p, m)

Alloc(p, n) ==
  /\ StopsAt(p, n)
  /\ validName(Name(p, n))
  /\ used' = used \cup {Name(p, n)}
  /\ count' = [count EXCEPT ![p] = n]

\* That number, for callers that take Alloc in one step.  It is at most one
\* further than there are names taken.
FirstStop(p) ==
  CHOOSE n \in (count[p] + 1)..(count[p] + Cardinality(used) + 1) : StopsAt(p, n)

\* The error return: the counter has moved, no name is taken.
AllocFails(p, n) ==
  /\ StopsAt(p, n)
  /\ ~validName(Name(p, n))
  /\ UNCHANGED used
  /\ count' = [count EXCEPT ![p] = n]

Enter(name) ==
  /\ created' = Append(created, name)
  /\ dev' = name

\* Faulty: a new rule begins with a new namespace.
ResetForgets ==
  /\ dev' = Root
  /\ used' = {Root}
  /\ UNCHANGED <<created, count>>

\* Faulty: a new rule goes on from the last one's device.
ResetKeepsDev == UNCHANGED envVars

Reset ==
  /\ dev' = Root
  /\ UNCHANGED <<created, used, count>>

----------------------------------------------------------------------------
\* The operations in any order: a name is taken, a device entered, a rule begun.
EnvNext ==
  \/ \E name \in used' : Claim(name) /\ UNCHANGED <<dev, created>>
  \/ \E p \in NamePrefixes : \E n \in 1..MaxCount :
       (Alloc(p, n) \/ AllocFails(p, n)) /\ UNCHANGED <<dev, created>>
  \/ \E name \in used : Enter(name) /\ UNCHANGED <<used, count>>
  \/ Reset

EnvSpec == EnvInit /\ [][EnvNext]_envVars

============================================================================
