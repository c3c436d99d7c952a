------------------------------ MODULE FrontEnd ------------------------------
(* The front end of every command: readTrees reads the whole file and       *)
(* builds every form before anything is done with one; readTree asks for    *)
(* exactly one (parse, expect, mirror), the other commands take each rule   *)
(* in turn (lower, explain); FromForm gives the rule's spine.  What is      *)
(* wrong with a rule's form is an input of module Lower: here it is         *)
(* computed.                                                                *)
EXTENDS Forms, Command

CONSTANT PeerKey   \* the text "peer"

VARIABLES
  cmd,      \* "one" or "all"
  step,     \* "read", "tree", "spine", "done" or "failed"
  trees,    \* readTrees' result
  spines    \* the spines of the rules so far

frontVars == <<cmd, step, trees, spines>>
vars == <<text, i, line, col, mode, begun, part, stack, forms, error,
          cmd, step, trees, spines>>

----------------------------------------------------------------------------
FrontInit ==
  /\ ReaderInit
  /\ cmd \in {"one", "all"}
  /\ step = "read"
  /\ trees = << >>
  /\ spines = << >>

Read == ReaderNext /\ UNCHANGED frontVars

\* return err, with what was done by then.
Fails(err) ==
  /\ step' = "failed"
  /\ error' = err
  /\ UNCHANGED <<text, i, line, col, mode, begun, part, stack, forms, cmd, trees, spines>>

BuildTrees ==
  /\ step = "read"
  /\ LET built == [r \in 1..Len(forms) |-> Build(forms[r])]
         bad   == {r \in 1..Len(forms) : ~Ok(built[r])}
     IN \/ mode = "failed" /\ Fails(error)
        \/ mode = "done" /\ forms = << >> /\ Fails([msg |-> "no forms", pos |-> NoError.pos])
        \/ mode = "done" /\ bad # {} /\ Fails(built[Min(bad)].error)
        \/ /\ mode = "done" /\ forms # << >> /\ bad = {}
           /\ trees' = built
           /\ step' = "tree"
           /\ UNCHANGED <<readerVars, cmd, spines>>

readTree ==
  /\ step = "tree"
  /\ IF cmd = "one" /\ Len(trees) # 1
     THEN Fails([msg |-> "takes one form", pos |-> trees[2].pos])
     ELSE step' = "spine" /\ UNCHANGED <<readerVars, cmd, trees, spines>>

readSpine ==
  /\ step = "spine"
  /\ Len(spines) < Len(trees)
  /\ LET sp == FromForm(trees[Len(spines) + 1])
     IN IF ~Ok(sp) THEN Fails(sp.error)
        ELSE /\ spines' = Append(spines, sp.layers)
             /\ UNCHANGED <<readerVars, cmd, step, trees>>

AllRead ==
  /\ step = "spine"
  /\ Len(spines) = Len(trees)
  /\ step' = "done"
  /\ UNCHANGED <<readerVars, cmd, trees, spines>>

Ended == step \in {"done", "failed"}

Next ==
  \/ Read \/ BuildTrees \/ readTree \/ readSpine \/ AllRead
  \/ Ended /\ UNCHANGED vars

\* The program has one thread and runs until it ends.
Spec == FrontInit /\ [][Next]_vars /\ WF_vars(Next)

----------------------------------------------------------------------------
(* What the text says, without reading it from left to right.               *)

At(k) == LET newlines == {j \in 1..(k - 1) : text[j] = "nl"}
         IN [line |-> 1 + Cardinality(newlines), col |-> k - Max({0} \cup newlines)]

\* Whether the text after k characters is inside a comment or a string.
LexAfter(was, c) ==
  CASE was = "plain" /\ c = Quote      -> "string"
    [] was = "plain" /\ c = ";"        -> "comment"
    [] was = "comment" /\ c = "nl"     -> "plain"
    [] was = "string" /\ c = Quote     -> "plain"
    [] was = "string" /\ c = Backslash -> "escape"
    [] was = "escape"                  -> "string"
    [] OTHER                           -> was

Lex == LET upTo == FoldLeft(LAMBDA seq, c : Append(seq, LexAfter(Last(seq), c)), <<"plain">>, text)
       IN [k \in 0..Len(text) |-> upTo[k + 1]]

Plainly(c) == LET lex == Lex IN {k \in 1..Len(text) : lex[k - 1] = "plain" /\ text[k] = c}

\* How many lists are open after k characters.
Depth == LET opened == Plainly("(")
             closed == Plainly(")")
         IN [k \in 0..Len(text) |-> Cardinality({j \in opened : j =< k}) - Cardinality({j \in closed : j =< k})]

Boundary(k) == k < 1 \/ k > Len(text) \/ isDelim(text[k])

\* Where a value begins.
Begins ==
  Plainly("(") \cup Plainly(Quote) \cup
  LET lex == Lex
  IN {k \in 1..Len(text) : lex[k - 1] = "plain" /\ ~isDelim(text[k]) /\ Boundary(k - 1)}

Wrong ==
  LET lex   == Lex
      depth == Depth
  IN {[at |-> k, msg |-> "unexpected"] : k \in {j \in Plainly(")") : depth[j] < 0}}
     \cup {[at |-> k, msg |-> "escape"] :
             k \in {j \in 1..Len(text) : lex[j - 1] = "escape" /\ text[j] \notin DOMAIN Escapes}}
     \cup {[at |-> k, msg |-> "property name is empty"] :
             k \in {j \in Plainly(":") : Boundary(j - 1) /\ Boundary(j + 1)}}

NeverClosed ==
  LET depth == Depth
  IN {k \in Plainly("(") : \A j \in k..Len(text) : depth[j] >= depth[k]}

Diagnosis ==
  LET wrong == Wrong
      lex   == Lex
      open  == NeverClosed
      first == CHOOSE w \in wrong : \A v \in wrong : w.at =< v.at
      inString == lex[Len(text)] \in {"string", "escape"}
  IN CASE wrong # {} -> [msg |-> first.msg, pos |-> At(first.at)]
       [] wrong = {} /\ inString ->
            [msg |-> "unterminated", pos |-> At(Max({k \in Plainly(Quote) : lex[k] = "string"}))]
       [] wrong = {} /\ ~inString /\ open # {} -> [msg |-> "unclosed", pos |-> At(Max(open))]
       [] OTHER -> NoError

(* Read refuses exactly the texts that have something wrong with them, and  *)
(* its error is about the first thing wrong and stands where that is: the   *)
(* parenthesis too many, the escape, the lone colon, else the string that   *)
(* was left open, else the innermost list that was.  (sexp.Read)            *)
DiagnosisExact == step = "read" /\ ~Reading => error = Diagnosis

RECURSIVE Preorder(_, _)
Preorder(v, depth) ==
  <<[pos |-> v.pos, depth |-> depth]>> \o
  FlattenSeq([j \in 1..Len(v.items) |-> Preorder(v.items[j], depth + 1)])

(* The values read are those of the text: every value of it once, in order, *)
(* as deep as its parentheses say, with the line and the column at which it *)
(* begins, past comments and strings of several lines.  (sexp.Read)         *)
TreeIsText ==
  step = "read" /\ mode = "done" =>
    LET depth  == Depth
        begins == Begins
        nth(k) == CHOOSE b \in begins : Cardinality({c \in begins : c =< b}) = k
    IN FlattenSeq([r \in 1..Len(forms) |-> Preorder(forms[r], 0)]) =
         [k \in 1..Cardinality(begins) |-> [pos |-> At(nth(k)), depth |-> depth[nth(k) - 1]]]

(* What a form is: a symbol, then pairs with different keys, then forms.    *)
RECURSIVE IsForm(_)
IsForm(v) ==
  /\ v.kind = "list" /\ v.items # << >>
  /\ v.items[1].kind = "symbol"
  /\ \E p \in 0..(Len(v.items) \div 2) :
       /\ 1 + 2 * p =< Len(v.items)
       /\ \A j \in 1..p : v.items[2 * j].kind = "keyword" /\ v.items[2 * j + 1].kind # "keyword"
       /\ \A j, k \in 1..p : v.items[2 * j].text = v.items[2 * k].text => j = k
       /\ \A j \in (2 * p + 2)..Len(v.items) : IsForm(v.items[j])

RECURSIVE Keeps(_, _)
Keeps(n, v) ==
  LET p == Len(n.props)
  IN /\ n.pos = v.pos /\ n.name = v.items[1].text
     /\ Len(v.items) = 1 + 2 * p + Len(n.children)
     /\ \A j \in 1..p : /\ n.props[j].key = Tail(v.items[2 * j].text)
                        /\ n.props[j].val = v.items[2 * j + 1]
     /\ \A j \in 1..Len(n.children) : Keeps(n.children[j], v.items[1 + 2 * p + j])

(* A file goes on to be compiled exactly when each of its values is a form  *)
(* through and through, and its trees then keep all that was written.       *)
(* (ast.Build, readTrees)                                                   *)
BuildExact ==
  step # "read" /\ mode = "done" =>
    /\ trees # << >> <=> forms # << >> /\ \A r \in 1..Len(forms) : IsForm(forms[r])
    /\ \A r \in 1..Len(trees) : Keeps(trees[r], forms[r])

Opened(r) ==
  LET depth   == Depth
      opened  == Plainly("(")
      rule(k) == Cardinality({j \in opened : j =< k /\ depth[j] = 1})
  IN {At(k) : k \in {j \in opened : rule(j) = r}}

(* A rule's spine has a layer for each list the rule opens after its own,   *)
(* outermost first: what is compiled is all that is written.  Where a list  *)
(* stands for a property's value it is not a layer.  (spine.FromForm)       *)
SpineIsText ==
  Ended => \A r \in 1..Len(spines) :
    LET layers == spines[r]
        where  == {layers[k].pos : k \in 1..Len(layers)}
        plain  == \A k \in 1..Len(layers), j \in 1..2 :
                    j =< Len(layers[k].props) => layers[k].props[j].val.kind # "list"
    IN /\ where \subseteq Opened(r) \ {trees[r].pos}
       /\ plain => where = Opened(r) \ {trees[r].pos}
       /\ \A k \in 2..Len(layers) :
            \/ layers[k - 1].pos.line < layers[k].pos.line
            \/ layers[k - 1].pos.line = layers[k].pos.line /\ layers[k - 1].pos.col < layers[k].pos.col

\* The names of the peers in a rule, which a file writes as a string or a symbol.
Peers(layers) ==
  {p.val.text : p \in {q \in UNION {ToSet(layers[k].props) : k \in 1..Len(layers)} :
                         q.key = PeerKey /\ q.val.kind \in {"string", "symbol"}}}

(* What a file writes of a peer reaches wg as one argument, the output of   *)
(* one lookup of one file, next to arguments that come through unharmed, as *)
(* long as the name is made of what command.safe lets pass bare: only the   *)
(* file's own text is free-form in the lines that pktc prints.              *)
(* (command.String, lowerWireGuard)                                         *)
KeyLookupIsOneArgument ==
  Ended => \A r \in 1..Len(spines) : \A peer \in Peers(spines[r]) :
    ToSet(peer) \subseteq SafeChars =>
      ShellReads(String(peerArgv(peer))) =
        [args |-> [peerArgv(peer) EXCEPT ![2] = <<Output>>],
         runs |-> << <<<<"cat">>, keyFile(peer)>> >>]

(* Every text is read to an end or an error.  (sexp.Read, readTrees)        *)
Terminates == <>Ended

============================================================================
