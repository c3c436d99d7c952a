------------------------------- MODULE Reader -------------------------------
(* Package sexp's reader, one character a step.  readValue and readList     *)
(* call each other; here their calls are the stack of the open lists.       *)
(*                                                                          *)
(* A text is a sequence of characters, each a string of its own: "(", ")",  *)
(* the quote, ";", the backslash, and those that atoms are told apart by,   *)
(* with "0" for all digits and "a" for the hexadecimal letters; "sp" stands *)
(* for the blank, the tab and the carriage return, "nl" for the newline.  A *)
(* value is a record of its kind, text, items and position.                 *)
EXTENDS Integers, Sequences, SequencesExt, FiniteSets

CONSTANT Texts   \* the files to read

VARIABLES
  text,    \* r.src
  i,       \* r.i, counting from 1
  line,    \* r.line
  col,     \* r.col
  mode,    \* what is being read: space, comment, atom, string or escape
  begun,   \* where the atom or string began
  part,    \* its text so far
  stack,   \* the open lists, innermost last
  forms,   \* the top-level values read
  error    \* the error returned: its message and position, or NoError

readerVars == <<text, i, line, col, mode, begun, part, stack, forms, error>>

NoError == [msg |-> "", pos |-> [line |-> 0, col |-> 0]]

----------------------------------------------------------------------------
Quote == "\""
Backslash == "\\"

eof  == i > Len(text)
peek == IF eof THEN "0 byte" ELSE text[i]
pos  == [line |-> line, col |-> col]

\* Faulty: a newline does not begin a new column count.
advanceKeepsColumn ==
  /\ i' = i + 1
  /\ line' = IF peek = "nl" THEN line + 1 ELSE line
  /\ col' = col + 1

advance ==
  /\ i' = i + 1
  /\ line' = IF peek = "nl" THEN line + 1 ELSE line
  /\ col' = IF peek = "nl" THEN 1 ELSE col + 1

isDelim(c) == c \in {"(", ")", Quote, ";", "sp", "nl"}

\* A decimal or 0x-prefixed integer, after an optional minus sign.
isNumber(t) ==
  LET bare   == IF t[1] = "-" THEN Tail(t) ELSE t
      hex    == Len(bare) > 1 /\ bare[1] = "0" /\ bare[2] = "x"
      digits == IF hex THEN SubSeq(bare, 3, Len(bare)) ELSE bare
  IN digits # << >> /\ ToSet(digits) \subseteq (IF hex THEN {"0", "a"} ELSE {"0"})

classify(t) ==
  CASE t = <<"*">>               -> "star"
    [] t # <<"*">> /\ t[1] = ":" -> "keyword"
    [] isNumber(t)               -> "number"
    [] OTHER                     -> "symbol"

Value(kind, t, items, p) == [kind |-> kind, text |-> t, items |-> items, pos |-> p]

----------------------------------------------------------------------------
ReaderInit ==
  /\ text \in Texts
  /\ i = 1 /\ line = 1 /\ col = 1
  /\ mode = "space"
  /\ begun = NoError.pos
  /\ part = << >>
  /\ stack = << >>
  /\ forms = << >>
  /\ error = NoError

Reading == mode \notin {"done", "failed"}

Errorf(p, msg) ==
  /\ mode' = "failed"
  /\ error' = [msg |-> msg, pos |-> p]
  /\ UNCHANGED <<text, i, line, col, begun, part, stack, forms>>

\* A value is complete: it goes to the list that is open, or to Read's result.
Deliver(v, open) ==
  /\ mode' = "space"
  /\ IF open = << >>
     THEN forms' = Append(forms, v) /\ stack' = << >>
     ELSE /\ stack' = [open EXCEPT ![Len(open)].items = Append(@, v)]
          /\ UNCHANGED forms
  /\ UNCHANGED <<text, begun, part, error>>

skipSpace ==
  /\ ~eof
  /\ \/ mode = "space" /\ peek \in {"sp", "nl"} /\ advance /\ UNCHANGED mode
     \/ mode = "space" /\ peek = ";" /\ advance /\ mode' = "comment"
     \/ mode = "comment" /\ peek # "nl" /\ advance /\ UNCHANGED mode
     \/ mode = "comment" /\ peek = "nl" /\ mode' = "space" /\ UNCHANGED <<i, line, col>>
  /\ UNCHANGED <<text, begun, part, stack, forms, error>>

\* Faulty: a comment has to end with its line.
AtEndOfLine ==
  /\ eof
  /\ mode = "space"
  /\ IF stack # << >> THEN Errorf(Last(stack).pos, "unclosed")
     ELSE mode' = "done" /\ UNCHANGED <<text, i, line, col, begun, part, stack, forms, error>>

\* Read and readList at the end of the text.
AtEnd ==
  /\ eof
  /\ mode \in {"space", "comment"}
  /\ IF stack # << >> THEN Errorf(Last(stack).pos, "unclosed")
     ELSE mode' = "done" /\ UNCHANGED <<text, i, line, col, begun, part, stack, forms, error>>

OpenList ==
  /\ ~eof /\ mode = "space" /\ peek = "("
  /\ advance
  /\ stack' = Append(stack, [items |-> << >>, pos |-> pos])
  /\ UNCHANGED <<text, mode, begun, part, forms, error>>

\* Faulty: a parenthesis too many ends the text.
CloseListAnyway ==
  /\ ~eof /\ mode = "space" /\ peek = ")"
  /\ IF stack = << >>
     THEN mode' = "done" /\ UNCHANGED <<text, i, line, col, begun, part, stack, forms, error>>
     ELSE /\ advance
          /\ Deliver(Value("list", << >>, Last(stack).items, Last(stack).pos), Front(stack))

CloseList ==
  /\ ~eof /\ mode = "space" /\ peek = ")"
  /\ IF stack = << >> THEN Errorf(pos, "unexpected")
     ELSE /\ advance
          /\ Deliver(Value("list", << >>, Last(stack).items, Last(stack).pos), Front(stack))

\* readString
OpenString ==
  /\ ~eof /\ mode = "space" /\ peek = Quote
  /\ advance
  /\ mode' = "string" /\ begun' = pos /\ part' = << >>
  /\ UNCHANGED <<text, stack, forms, error>>

StringChar ==
  /\ ~eof /\ mode = "string" /\ peek # Quote
  /\ advance
  /\ IF peek = Backslash THEN mode' = "escape" /\ UNCHANGED part
                         ELSE part' = Append(part, peek) /\ UNCHANGED mode
  /\ UNCHANGED <<text, begun, stack, forms, error>>

\* \n and \t become the characters they stand for.
Escapes == [c \in {"n", "t", Backslash, Quote} |->
              CASE c = "n" -> "nl" [] c = "t" -> "sp" [] OTHER -> c]

EscapeChar ==
  /\ ~eof /\ mode = "escape"
  /\ IF peek \notin DOMAIN Escapes THEN Errorf(pos, "escape")
     ELSE /\ advance
          /\ mode' = "string"
          /\ part' = Append(part, Escapes[peek])
          /\ UNCHANGED <<text, begun, stack, forms, error>>

CloseString ==
  /\ ~eof /\ mode = "string" /\ peek = Quote
  /\ advance
  /\ Deliver(Value("string", part, << >>, begun), stack)

Unterminated ==
  /\ eof /\ mode \in {"string", "escape"}
  /\ Errorf(begun, "unterminated")

\* readAtom: up to a delimiter.  A lone colon names no property.
AtomChar ==
  /\ ~eof /\ mode \in {"space", "atom"} /\ ~isDelim(peek)
  /\ advance
  /\ mode' = "atom"
  /\ begun' = IF mode = "space" THEN pos ELSE begun
  /\ part' = IF mode = "space" THEN <<peek>> ELSE Append(part, peek)
  /\ UNCHANGED <<text, stack, forms, error>>

AtomEnd ==
  /\ mode = "atom"
  /\ eof \/ isDelim(peek)
  /\ IF part = <<":">> THEN Errorf(begun, "property name is empty")
     ELSE /\ Deliver(Value(classify(part), part, << >>, begun), stack)
          /\ UNCHANGED <<i, line, col>>

ReaderNext ==
  \/ skipSpace \/ AtEnd \/ OpenList \/ CloseList \/ OpenString \/ StringChar
  \/ EscapeChar \/ CloseString \/ Unterminated \/ AtomChar \/ AtomEnd

============================================================================
