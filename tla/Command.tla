------------------------------ MODULE Command ------------------------------
(* Package command: an argv as one shell line, and the argv in which a      *)
(* file's own text stands, that of a WireGuard peer.  A text is a sequence  *)
(* of characters as in module Reader, where a word of the program's own is  *)
(* one character.  ShellReads is the shell's side, as much of it as these   *)
(* lines use.                                                               *)
EXTENDS Integers, Sequences, SequencesExt

Words == {"wg", "cat", "dir", "pub"}
SafeChars == Words \cup {"a", "n", "x", "0", ":", "-", "/", "."}

safe(s) == s # << >> /\ ToSet(s) \subseteq SafeChars

\* A command substitution, which double quotes keep alive.
Substitutes(s) == <<"$", "(">> \in SubSeqs(s) /\ "\"" \notin ToSet(s)

SingleQuoted(s) ==
  LET escaped == [k \in 1..Len(s) |-> IF s[k] = "'" THEN <<"'", "\\", "'", "'">> ELSE <<s[k]>>]
  IN <<"'">> \o FlattenSeq(escaped) \o <<"'">>

\* Faulty: a key lookup is turned into a literal string.
quoteLiterally(s) == IF safe(s) THEN s ELSE SingleQuoted(s)

quote(s) ==
  IF safe(s) THEN s
  ELSE IF Substitutes(s) THEN <<"\"">> \o s \o <<"\"">>
  ELSE SingleQuoted(s)

String(argv) ==
  FlattenSeq([k \in 1..Len(argv) |-> (IF k > 1 THEN <<"sp">> ELSE << >>) \o quote(argv[k])])

----------------------------------------------------------------------------
\* `wg set' of a peer, in short: the program, the lookup of the peer's key, and
\* an IPv6 endpoint, whose brackets the shell must not see either.
keyFile(peerName) == <<"dir", "/">> \o peerName \o <<".", "pub">>
peerArgv(peerName) ==
  <<<<"wg">>, <<"$", "(", "cat", "sp">> \o keyFile(peerName) \o <<")">>,
    <<"[", "a", ":", ":", "0", "]", ":", "0">>>>

----------------------------------------------------------------------------
\* What the shell runs inside a substitution.
Split(l) ==
  SelectSeq(FoldLeft(LAMBDA words, c :
                       IF c = "sp" THEN Append(words, << >>)
                       ELSE [words EXCEPT ![Len(words)] = Append(@, c)],
                     << << >> >>, l),
            LAMBDA word : word # << >>)

\* The output of a substitution, which double quotes keep whole.
Output == "output"

\* The shell reads a character: st.words are complete, st.word is open, st.runs
\* are the substitutions met, st.lookup is the open one.
ShellChar(st, c) ==
  CASE st.in = "single" -> IF c = "'" THEN [st EXCEPT !.in = "word"] ELSE [st EXCEPT !.word = Append(@, c)]
    [] st.in = "escape" -> [st EXCEPT !.in = "word", !.word = Append(@, c)]
    [] st.in = "double" ->
         IF c = "\"" THEN [st EXCEPT !.in = "word"]
         ELSE IF c = "(" /\ st.word # << >> /\ Last(st.word) = "$"
              THEN [st EXCEPT !.in = "lookup", !.word = Front(@)]
         ELSE [st EXCEPT !.word = Append(@, c)]
    [] st.in = "lookup" ->
         IF c = ")"
         THEN [st EXCEPT !.in = "double", !.word = Append(@, Output),
                         !.runs = Append(@, Split(st.lookup)), !.lookup = << >>]
         ELSE [st EXCEPT !.lookup = Append(@, c)]
    [] st.in \in {"blank", "word"} /\ c = "'"  -> [st EXCEPT !.in = "single"]
    [] st.in \in {"blank", "word"} /\ c = "\"" -> [st EXCEPT !.in = "double"]
    [] st.in \in {"blank", "word"} /\ c = "\\" -> [st EXCEPT !.in = "escape"]
    [] st.in = "blank" /\ c \in {"sp", "nl"}   -> st
    [] st.in = "word" /\ c \in {"sp", "nl"}    ->
         [st EXCEPT !.words = Append(@, st.word), !.word = << >>, !.in = "blank"]
    [] OTHER -> [st EXCEPT !.in = "word", !.word = Append(@, c)]

\* A line's arguments, and what was run to make them.
ShellReads(l) ==
  LET start == [words |-> << >>, word |-> << >>, in |-> "blank", runs |-> << >>, lookup |-> << >>]
      end   == FoldLeft(ShellChar, start, l)
  IN [args |-> IF end.in = "blank" THEN end.words ELSE Append(end.words, end.word),
      runs |-> end.runs]

============================================================================
