------------------------------- MODULE Forms -------------------------------
(* ast.Build, which turns a value into a tree of nodes, and package spine,  *)
(* which takes a (configure ...) tree for the list of its layers.  Each     *)
(* returns the first error it meets, with its position.                     *)
EXTENDS Reader

CONSTANT ConfigureForm   \* the text "configure"

Failed(p, msg) == [error |-> [msg |-> msg, pos |-> p]]
Ok(res) == res.error = NoError

----------------------------------------------------------------------------
\* Faulty: a key may be given twice.
RECURSIVE ReadPropsTwice(_, _, _)
ReadPropsTwice(items, k, props) ==
  IF k > Len(items) THEN [error |-> NoError, next |-> k, props |-> props]
  ELSE IF items[k].kind # "keyword" THEN [error |-> NoError, next |-> k, props |-> props]
  ELSE IF k + 1 > Len(items) \/ items[k + 1].kind = "keyword"
       THEN Failed(items[k].pos, "no value")
  ELSE ReadPropsTwice(items, k + 2,
         Append(props, [key |-> Tail(items[k].text), val |-> items[k + 1], pos |-> items[k].pos]))

\* The properties from item k on: keys with their values, no key twice.
RECURSIVE ReadProps(_, _, _)
ReadProps(items, k, props) ==
  IF k > Len(items) THEN [error |-> NoError, next |-> k, props |-> props]
  ELSE IF items[k].kind # "keyword" THEN [error |-> NoError, next |-> k, props |-> props]
  ELSE IF k + 1 > Len(items) \/ items[k + 1].kind = "keyword"
       THEN Failed(items[k].pos, "no value")
  ELSE IF \E j \in 1..Len(props) : props[j].key = Tail(items[k].text)
       THEN Failed(items[k].pos, "duplicate property")
  ELSE ReadProps(items, k + 2,
         Append(props, [key |-> Tail(items[k].text), val |-> items[k + 1], pos |-> items[k].pos]))

\* A form is (name :prop value ... (child) ...).  Build works on the nested
\* forms in turn and returns the first error among them.
RECURSIVE Build(_)
Build(v) ==
  IF v.kind # "list" THEN Failed(v.pos, "expected a form")
  ELSE IF v.items = << >> THEN Failed(v.pos, "empty form")
  ELSE IF v.items[1].kind # "symbol" THEN Failed(v.items[1].pos, "must start with a name")
  ELSE LET read == ReadProps(v.items, 2, << >>)
       IN IF ~Ok(read) THEN Failed(read.error.pos, read.error.msg)
          ELSE FoldLeft(
                 LAMBDA n, item :
                   CASE ~Ok(n) -> n
                     [] Ok(n) /\ item.kind = "keyword" -> Failed(item.pos, "property after form")
                     [] Ok(n) /\ item.kind \notin {"keyword", "list"} ->
                          Failed(item.pos, "expected a nested form")
                     [] OTHER -> LET c == Build(item)
                                 IN IF Ok(c) THEN [n EXCEPT !.children = Append(@, c)] ELSE c,
                 [error |-> NoError, name |-> v.items[1].text, props |-> read.props,
                  children |-> << >>, pos |-> v.pos],
                 SubSeq(v.items, read.next, Len(v.items)))

----------------------------------------------------------------------------
\* Faulty: of several nested forms the first is taken.
RECURSIVE ExtractFirst(_)
ExtractFirst(n) ==
  IF n.children = << >> THEN [error |-> NoError, layers |-> <<n>>]
  ELSE [error |-> NoError, layers |-> <<n>> \o ExtractFirst(n.children[1]).layers]

\* Down to the innermost layer: each carries exactly one thing.
RECURSIVE Extract(_)
Extract(n) ==
  CASE Len(n.children) = 0 -> [error |-> NoError, layers |-> <<n>>]
    [] Len(n.children) = 1 ->
         LET below == Extract(n.children[1])
         IN IF Ok(below) THEN [below EXCEPT !.layers = <<n>> \o @] ELSE below
    [] Len(n.children) > 1 -> Failed(n.children[2].pos, "several nested forms")

FromForm(root) ==
  IF root.name # ConfigureForm THEN Failed(root.pos, "expected configure")
  ELSE IF root.props # << >> THEN Failed(root.props[1].pos, "takes no properties")
  ELSE IF Len(root.children) # 1 THEN Failed(root.pos, "exactly one packet form")
  ELSE Extract(root.children[1])

============================================================================
