---------------------------- MODULE NameDecoding -----------------------------
(***************************************************************************)
(* The Ada name of a linker symbol and the encodings of a type's symbol:   *)
(* src/cpp/adadecode.c, which the symbolic tracebacks use.                 *)
(*                                                                         *)
(* A string is a sequence of characters, a buffer one that holds strings   *)
(* that end with NUL; what was never written is Garbage. The table of the  *)
(* operators is a parameter.                                               *)
(***************************************************************************)
EXTENDS Integers, Sequences, FiniteSetsExt, SequencesExt

CONSTANTS
  trans_table,  \* the operators: [coded, name]
  Entities,     \* the entities whose symbols are decoded
  MaxDecoded    \* the bound on the symbols decoded

VARIABLES
  verbose_info, \* the static variable: whether verbose info was ever written
  entity,       \* the entity whose symbol was decoded last
  result,       \* what was found
  decoded       \* how many were decoded

vars == <<verbose_info, entity, result, decoded>>

NUL == "NUL"
Garbage == "?"

\* A symbol has the parts of the name, the last of them perhaps an operator,
\* and after them what exp_dbug says: [lib, parts, task, overload, nested,
\* body, dot, encodings], where task is the part that is a task, or 0.
NoEntity == [parts |-> <<>>]

Underscores(n) == [k \in 1 .. n |-> "_"]

Symbol(e) ==
  (IF e.lib THEN <<"_", "a", "d", "a", "_">> ELSE <<>>)
  \o FlattenSeq([k \in 1 .. Len(e.parts) |->
       e.parts[k] \o (CASE k = Len(e.parts) -> <<>>
                        [] k = e.task -> <<"T", "K", "_", "_">>
                        [] OTHER -> Underscores(2))])
  \o e.overload \o e.nested \o e.body \o e.dot
  \o FlattenSeq([k \in 1 .. Len(e.encodings) |-> Underscores(3) \o e.encodings[k]])

-----------------------------------------------------------------------------
strlen(s) == LET Ends == {i \in DOMAIN s : s[i] = NUL} IN IF Ends = {} THEN Len(s) ELSE Min(Ends) - 1
Text(s) == SubSeq(s, 1, strlen(s))
Cut(s, n) == [s EXCEPT ![n + 1] = NUL]
ISDIGIT(c) == c \in {"1", "2"}

\* strstr: the place of the first t in s, or 0.
strstr(s, t) ==
  LET Found == {i \in 1 .. strlen(s) - Len(t) + 1 : SubSeq(s, i, i + Len(t) - 1) = t}
  IN  IF Found = {} THEN 0 ELSE Min(Found)

has_prefix(s, t) == strlen(s) >= Len(t) /\ SubSeq(s, 1, Len(t)) = t

has_suffix(s, t) ==
  strlen(s) > Len(t) /\ SubSeq(s, strlen(s) - Len(t) + 1, strlen(s)) = t

\* Mutant: the NUL at the end of the string is not copied.
ostrcpy_Open(s, to, from) ==
  SubSeq(s, 1, to - 1) \o SubSeq(s, from, strlen(s)) \o SubSeq(s, to + strlen(s) - from + 1, Len(s))

\* The string from "from" on is moved to "to", which comes before it.
ostrcpy(s, to, from) ==
  SubSeq(s, 1, to - 1) \o SubSeq(s, from, strlen(s) + 1) \o SubSeq(s, to + strlen(s) - from + 2, Len(s))

-----------------------------------------------------------------------------
(***************************************************************************)
(* __gnat_decode, on [name, marks]: the buffer, and what the name said.    *)
(***************************************************************************)
Copied(coded) ==
  LET lib == has_prefix(coded, <<"_", "a", "d", "a", "_">>)
      name == IF lib THEN SubSeq(coded, 6, Len(coded)) ELSE coded
  IN  [name |-> Append(name, NUL) \o [k \in 1 .. Len(coded) |-> Garbage],
       marks |-> IF lib THEN {"library level"} ELSE {}]

\* The first triple underscore and what follows is stripped.
StripEncodings(d) ==
  LET i == strstr(d.name, Underscores(3))
  IN  IF i = 0 THEN d ELSE [d EXCEPT !.name = Cut(@, i - 1)]

Strip(d, suffix, mark) ==
  IF has_suffix(d.name, suffix)
  THEN [name |-> Cut(d.name, strlen(d.name) - Len(suffix)), marks |-> d.marks \cup {mark}]
  ELSE d

StripTaskBody(d) == Strip(Strip(d, <<"T", "K", "B">>, "task body"), <<"B">>, "task body")

StripBodyNested(d) ==
  Strip(Strip(Strip(d, <<"X">>, "body nested"), <<"X", "b">>, "body nested"),
        <<"X", "n">>, "body nested")

RECURSIVE StripInTask(_)
StripInTask(d) ==
  LET i == strstr(d.name, <<"T", "K", "_", "_">>)
  IN  IF i = 0 THEN d
      ELSE StripInTask([name |-> ostrcpy(d.name, i, i + 2), marks |-> d.marks \cup {"in task"}])

\* The last character that is not a digit, which is not looked for before
\* the first of the string.
BeforeDigits(s) ==
  LET Others == {i \in 1 .. strlen(s) : ~ISDIGIT(s[i])} IN IF Others = {} THEN 1 ELSE Max(Others)

StripOverloading(d) ==
  LET i == BeforeDigits(d.name)
      found == [d EXCEPT !.marks = @ \cup {"overloaded"}]
  IN  CASE d.name[i] = "$" -> [found EXCEPT !.name = Cut(@, i - 1)]
        [] d.name[i] = "_" /\ i > 1 /\ d.name[i - 1] = "_" -> [found EXCEPT !.name = Cut(@, i - 2)]
        [] OTHER -> d

StripNested(d) ==
  LET i == BeforeDigits(d.name)
  IN  IF d.name[i] = "." THEN [d EXCEPT !.name = Cut(@, i - 1)] ELSE d

\* Every "__" from k on becomes ".".
RECURSIVE Dotted(_, _)
Dotted(s, k) ==
  IF k >= strlen(s) THEN s
  ELSE Dotted(IF s[k] = "_" /\ s[k + 1] = "_" THEN ostrcpy([s EXCEPT ![k] = "."], k + 1, k + 2) ELSE s,
              k + 1)

(***************************************************************************)
(* An operator's code makes place for its name. When the name is longer    *)
(* what follows moves up, but not the NUL that ends the string.            *)
(***************************************************************************)
Replaced(s, i, row) ==
  LET space == Len(row.name) - Len(row.coded)
      moved == IF space <= 0 THEN ostrcpy(s, i, i - space)
               ELSE SubSeq(s, 1, i + space - 1) \o SubSeq(s, i, strlen(s))
                    \o SubSeq(s, strlen(s) + space + 1, Len(s))
  IN  SubSeq(s, 1, i - 1) \o row.name \o SubSeq(moved, i + Len(row.name), Len(s))

RECURSIVE Operators(_, _)
Operators(s, k) ==
  IF k > Len(trans_table) THEN s
  ELSE LET i == strstr(s, trans_table[k].coded)
       IN  IF i = 0 THEN Operators(s, k + 1) ELSE Operators(Replaced(s, i, trans_table[k]), k)

Decode(coded) ==
  LET d == StripNested(StripOverloading(StripInTask(StripBodyNested(
             StripTaskBody(StripEncodings(Copied(coded)))))))
  IN  [d EXCEPT !.name = Text(Operators(Dotted(@, 1), 1))]

\* The verbose information, a text at a time.
add_verbose(marks, info) ==
  LET Texts == SelectSeq(<<"overloaded", "library level", "body nested", "in task", "task body">>,
                         LAMBDA m : m \in marks)
      Lead(k) == IF info \/ k > 1 THEN ", " ELSE " ("
  IN  FlattenSeq([k \in 1 .. Len(Texts) |-> <<Lead(k), Texts[k]>>])
      \o (IF info \/ Texts # <<>> THEN <<")">> ELSE <<>>)

(***************************************************************************)
(* get_encoding: all after the first triple underscore is copied; a later  *)
(* one takes back the two underscores that were copied. The character      *)
(* after a triple underscore is copied but not counted.                    *)
(***************************************************************************)
RECURSIVE Encoding(_, _, _, _)
Encoding(p, found, count, dest) ==
  IF p = <<>> THEN dest
  ELSE LET third == Head(p) = "_" /\ count = 2
       IN  Encoding(Tail(p), found \/ third,
                    CASE third -> -1 [] Head(p) = "_" /\ ~third -> count + 1 [] OTHER -> 0,
                    IF ~found THEN <<>>
                    ELSE IF third THEN Append(SubSeq(dest, 1, Len(dest) - 2), ":")
                    ELSE Append(dest, Head(p)))

get_encoding(coded) == Encoding(coded, FALSE, 0, <<>>)

-----------------------------------------------------------------------------
Init == verbose_info = FALSE /\ entity = NoEntity /\ result = <<>> /\ decoded = 0

__gnat_decode(e, verbose) ==
  LET d == Decode(Symbol(e))
  IN  /\ decoded' = decoded + 1
      /\ entity' = e
      /\ verbose_info' = (verbose_info \/ (verbose /\ d.marks # {}))
      /\ result' = [name |-> d.name, marks |-> d.marks, encoding |-> get_encoding(Symbol(e)),
                    info |-> IF verbose THEN <<TRUE, add_verbose(d.marks, verbose_info)>>
                             ELSE <<FALSE, <<>> >>]

Next ==
  /\ decoded < MaxDecoded
  /\ \E e \in Entities, verbose \in BOOLEAN : __gnat_decode(e, verbose)

Spec == Init /\ [][Next]_vars

-----------------------------------------------------------------------------
\* The Ada name of a part, which may be that of an operator.
PartName(p) ==
  LET Rows == {k \in 1 .. Len(trans_table) : trans_table[k].coded = p}
  IN  IF Rows = {} THEN p ELSE trans_table[Min(Rows)].name

Joined(q, c) ==
  FlattenSeq([k \in 1 .. Len(q) |-> IF k = 1 THEN q[k] ELSE <<c>> \o q[k]])

Marks(e) ==
  {m \in {"library level", "overloaded", "body nested", "in task", "task body"} :
     CASE m = "library level" -> e.lib
       [] m = "overloaded" -> e.overload # <<>>
       [] m = "body nested" -> e.nested # <<>>
       [] m = "in task" -> e.task # 0
       [] OTHER -> e.body # <<>>}

Inverted(e) ==
  /\ result.name = Joined([k \in 1 .. Len(e.parts) |-> PartName(e.parts[k])], ".")
  /\ result.marks = Marks(e)
  /\ result.encoding = Joined(e.encodings, ":")

(***************************************************************************)
(* "The Ada coding is done in exp_dbug.ads and this is the inverse         *)
(* function" (adadecode.c:102): the parts of the name, the operators and   *)
(* all that was added come back, and the result ends where it should.      *)
(* A symbol that has both ".nnnn" and another ending is left to            *)
(* NestedInverted.                                                         *)
(***************************************************************************)
DecodeInverts ==
  entity # NoEntity /\ (entity.dot = <<>> \/ entity.overload \o entity.nested \o entity.body = <<>>)
    => Inverted(entity)

(***************************************************************************)
(* "Check for nested subprogram ending in .nnnn and strip suffix"          *)
(* (adadecode.c:255), for every symbol.                                    *)
(***************************************************************************)
NestedInverted == entity # NoEntity => Inverted(entity)

(***************************************************************************)
(* "VERBOSE is nonzero if more information about the entity is to be added *)
(* at the end of the Ada name and surrounded by ( and )" (adadecode.c:113) *)
(***************************************************************************)
VerboseSurrounded ==
  entity # NoEntity => (result.info[1] => result.info[2] = add_verbose(result.marks, FALSE))
=============================================================================
