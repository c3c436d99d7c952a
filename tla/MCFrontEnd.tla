----------------------------- MODULE MCFrontEnd -----------------------------
(* The texts that the front end is run on.                                  *)
EXTENDS FrontEnd

UpTo(S, n) == UNION {[1..k -> S] : k \in 0..n}

\* All short texts over the characters the reader tells apart.
Structure == UpTo({"(", ")", Quote, ";", "sp", "nl", Backslash, "n"}, 4)

\* All short atoms, in a list.
Atoms == {<<"(", "sp">> \o a \o <<")">> : a \in UpTo({":", "*", "0", "-", "x", "a", "n"}, 3)}

\* Lists of tokens, alone and in a rule.
Token == {<<"(", "n", "sp">>, <<"(", "a", "nl">>, <<")">>, <<":", "x", "sp">>, <<"0", "sp">>}
Tokens == {FlattenSeq(s) : s \in UpTo(Token, 5)}
Rules == {<<"(", "n", "(", "a", "sp">> \o s \o <<")", ")">> : s \in {FlattenSeq(t) : t \in UpTo(Token, 4)}}

\* A rule with strings, escapes and quotes in them.
Strung == {<<"(", "n", "(", "a", "sp", ":", "x", Quote>> \o s \o <<Quote, ":", "a", Quote, "sp", Quote, ")", ")">> :
             s \in UpTo({"'", "-", "(", Quote, Backslash, "n"}, 4)}

\* A rule with an atom for a property.
Named == {<<"(", "n", "(", "a", "sp", ":", "x", "sp">> \o s \o <<")", ")">> :
            s \in UpTo({"0", "-", "n", "a", ":"}, 3)}

AllTexts == Structure \cup Atoms \cup Tokens \cup Rules \cup Strung \cup Named

Configure == <<"n">>
Peer == <<"x">>

============================================================================
