------------------------------ MODULE MCCover ------------------------------
(* Cover over every registry of at most three tiles from a small catalogue  *)
(* and every spine of at most three layers over two protocols.  A layer may *)
(* carry a mark, which the guard of one tile asks for.                      *)
EXTENDS Explained

T(p, n, g, l) ==
  [name |-> "T", pattern |-> p, priority |-> n, guard |-> g, lower |-> l]

MCGuardOK(t, sub) == sub # << >> /\ sub[1].mark

Catalogue ==
  {T(p, n, "nil", TRUE) : p \in {<<"a">>, <<"a", "a">>, <<"a", "b">>}, n \in 0..1}
    \cup {T(<<"a">>, 0, "marked", TRUE), T(<< >>, 0, "nil", TRUE),
          T(<<"b">>, 0, "nil", FALSE)}

Layers == {[name |-> "a", mark |-> FALSE], [name |-> "a", mark |-> TRUE],
           [name |-> "b", mark |-> FALSE]}

SeqsUpTo(S, n) == UNION {[1..m -> S] : m \in 0..n}

MCRegistries == SeqsUpTo(Catalogue, 3)
MCSpines     == SeqsUpTo(Layers, 3) \ {<< >>}

============================================================================
