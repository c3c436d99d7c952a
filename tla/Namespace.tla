----------------------------- MODULE Namespace -----------------------------
(* What package env promises the tiles: one namespace of interface names    *)
(* per machine, asked one question at a time.  A claim is granted exactly   *)
(* when the name is legal and free.  An allocation is answered with the     *)
(* smallest number whose name is legal and free, and refused exactly when   *)
(* there is none.  A name once granted is never granted again.  There is no *)
(* counter and no loop: how env finds the number is left to EnvCalls.       *)
EXTENDS Names

CONSTANTS Root, NamePrefixes, MaxCount

VARIABLES
  used,     \* the names taken
  call,     \* the question being answered, or NoCall
  answer    \* the last answer not yet acted on, or NoAnswer

vars == <<used, call, answer>>

NoCall   == [op |-> "none"]
NoAnswer == [op |-> "none"]
Ok(name) == [op |-> "ok", name |-> name]
Refused  == [op |-> "refused"]

Free(name) == validName(name) /\ name \notin used

Init ==
  /\ used = {Root}
  /\ call = NoCall
  /\ answer = NoAnswer

Ask ==
  /\ call = NoCall
  /\ answer' = NoAnswer
  /\ \/ call' \in [op : {"claim"}, name : IfNames]
     \/ call' \in [op : {"alloc"}, prefix : NamePrefixes]
  /\ UNCHANGED used

Grant(name) ==
  /\ Free(name)
  /\ used' = used \cup {name}
  /\ answer' = Ok(name)

Refuse ==
  /\ answer' = Refused
  /\ UNCHANGED used

AnswerClaim ==
  /\ call.op = "claim"
  /\ call' = NoCall
  /\ \/ Grant(call.name)
     \/ ~Free(call.name) /\ Refuse

AnswerAlloc ==
  /\ call.op = "alloc"
  /\ call' = NoCall
  /\ \/ \E n \in 1..MaxCount :
          /\ \A m \in 1..(n - 1) : ~Free(Name(call.prefix, m))
          /\ Grant(Name(call.prefix, n))
     \/ /\ \A n \in 1..MaxCount : ~Free(Name(call.prefix, n))
        /\ Refuse

Acted ==
  /\ call = NoCall
  /\ answer' = NoAnswer
  /\ UNCHANGED <<used, call>>

Next == Ask \/ AnswerClaim \/ AnswerAlloc \/ Acted

Spec == Init /\ [][Next]_vars

============================================================================
