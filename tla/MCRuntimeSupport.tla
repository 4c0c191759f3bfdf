-------------------------- MODULE MCRuntimeSupport ---------------------------
(***************************************************************************)
(* The instances of the C support modules that TLC checks: those of        *)
(* SupportPackages, whose constants get their values here and in the .cfg, *)
(* and one more. They share nothing: a behaviour is one of one of them,    *)
(* the part, and the variables of the others are 0.                        *)
(***************************************************************************)
EXTENDS SupportPackages, TLC

CONSTANTS
  t1, t2, f, g, con, lock,      \* tasks and files
  Decodes

VARIABLES
  verbose_info, entity, result, decoded

namevars == <<verbose_info, entity, result, decoded>>

-----------------------------------------------------------------------------
\* Names in every state of convertibility, a device and a directory; the
\* compare function puts them in another order than the system does.
MCAttributes ==
  [n \in 1 .. 4 |-> CASE n = 1 -> {"DIRECTORY"}
                     [] n = 2 -> {"DEVICE", "DIRECTORY"}
                     [] OTHER -> {}]
MCRank == [n \in 1 .. 4 |-> (4 - n) \div 2]

\* Two tasks that lock, one that asks about a file the other changes, two
\* that copy attributes, one that sets bits.
MCScenarios ==
  { (t1 :> {"try_lock"}) @@ (t2 :> {"try_lock", "open_new"}),
    (t1 :> {"attributes"}) @@ (t2 :> {"open_create", "unlink", "rename", "write"}),
    (t1 :> {"copy_attribs"}) @@ (t2 :> {"copy_attribs", "open_read", "unlink"}),
    (t1 :> {"set_writable", "set_non_writable"}) @@ (t2 :> {"copy_attribs", "hide"}) }

\* An infinite time-out, none, one shorter than the first delay and a long one.
MCTimeouts == {-1, 0, 4, 50}

\* Every name of up to five letters and two of the table.
Words(n) == UNION {[1 .. k -> {"a", "B"}] : k \in 0 .. n}
MCOriginal == <<"C">>
MCLocales ==
  {p \in [language : Words(4), territory : Words(4), codeset : BOOLEAN, modifier : BOOLEAN,
          twice : BOOLEAN] : p.twice => p.territory # <<>>}
MCiso_639 ==
  << [two |-> <<"a", "a">>, three |-> <<"a", "b", "a">>, name |-> <<"a", "B", "B", "a">>],
     [two |-> <<"b", "a">>, three |-> <<"b", "a", "a">>, name |-> <<"B", "B", "B", "B">>] >>
MCiso_3166 == << [two |-> <<"A", "A">>, name |-> <<"a", "b", "a", "b">>] >>

\* Quoted, plain and wild arguments, with more matches than the table holds.
MCArguments ==
  {x \in [len : {2, 3}, quoted : BOOLEAN, closed : BOOLEAN, dir : BOOLEAN,
          matches : {<<>>, <<".", "..", "x", "y">>, <<"x", "y", "z">>}] :
     /\ x.len = 2 => x.quoted /\ ~x.closed
     /\ x.len = 3 => x.quoted = x.closed
     /\ x.quoted \/ x.matches = <<>> => ~x.dir
     /\ x.quoted => x.matches = <<>>}

\* Names of two and three parts with every ending, types with encodings, and
\* operators whose names are longer and shorter than their codes.
Words2 == {<<"a">>, <<"b", "_", "1">>, <<"O", "o", "r">>, <<"O", "e", "x">>}
Part(q) == \A k \in 1 .. Len(q) - 1 : q[k] \in {<<"a">>, <<"b", "_", "1">>, <<"O", "o", "r">>}
Symbols ==
  {e \in [lib : BOOLEAN, parts : UNION {{q \in [1 .. k -> Words2] : Part(q)} : k \in 1 .. 3},
          task : 0 .. 1, overload : {<<>>, <<"$", "2">>, <<"_", "_", "1", "2">>},
          nested : {<<>>, <<"X">>, <<"X", "b">>, <<"X", "n">>},
          body : {<<>>, <<"B">>, <<"T", "K", "B">>}, dot : {<<>>, <<".", "1">>},
          encodings : {<<>>, << <<"X", "R">> >>, << <<"X">>, <<"T">>, <<"X">> >>}] :
     /\ e.task < Len(e.parts)
     /\ e.lib => Head(e.parts) \in {<<"a">>, <<"b", "_", "1">>}
     /\ Head(e.parts) \in {<<"a">>, <<"b", "_", "1">>}
     /\ e.encodings # <<>> => e.dot \o e.body \o e.nested \o e.overload = <<>>
     /\ Len(e.parts) = 3 => ~e.lib /\ e.nested \o e.body = <<>>
     /\ Decodes > 1 => Len(e.parts) = 1}

Z == INSTANCE NameDecoding WITH
       trans_table <- << [coded |-> <<"O", "o", "r">>, name |-> <<"\"", "o", "r", "\"">>],
                         [coded |-> <<"O", "e", "x">>, name |-> <<"*">>] >>,
       Entities <- Symbols, MaxDecoded <- Decodes

\* Every character that a name, a path or the code has.
MCCharacters == {"a", ".", "/", ":", ";", "exe", "\""}

\* Names with and without a directory, a drive, the suffix and quotes.
MCFileNames ==
  {<<>>, <<"a">>, <<"/", "a">>, <<"a", "/", "a">>, <<"a", ":", "a">>, <<"a", "exe">>,
   <<"\"", "a", "\"">>}
\* Every path of up to four characters but those with an entry of two quotes.
MCPaths ==
  {p \in UNION {[1 .. k -> {"a", "/", ";", "\""}] : k \in 0 .. 4} :
     \A k \in 1 .. Len(p) - 1 :
       p[k] = "\"" /\ p[k + 1] = "\"" /\ (k = 1 \/ p[k - 1] = ";")
         => k + 1 # Len(p) /\ p[k + 2] # ";"}

ASSUME InstanceAssumption ==
  /\ D!NAssumption /\ D!NameAssumption /\ D!HandleAssumption /\ D!ScanAssumption
  /\ F!NameAssumption /\ F!TimeAssumption /\ F!QuestionAssumption
  /\ L!NameAssumption /\ L!TableAssumption
  /\ E!DriveAssumption /\ E!LengthAssumption
  /\ R!RateAssumption /\ R!ArgumentAssumption
  /\ P!PathAssumption

-----------------------------------------------------------------------------
NoNames ==
  /\ verbose_info = 0 /\ entity = 0 /\ result = 0 /\ decoded = 0

Init ==
  /\ PackagesInit
  /\ IF part = "names" THEN Z!Init ELSE NoNames

Decoding ==
  /\ part = "names" /\ Z!Next
  /\ UNCHANGED packagevars

Next ==
  \/ PackagesNext /\ UNCHANGED namevars
  \/ Decoding

Spec == Init /\ [][Next]_<<packagevars, namevars>>

-----------------------------------------------------------------------------
TypeOK == /\ part = "directories" => D!TypeOK
          /\ part = "files" => F!TypeOK

\* The names of symbols.
DecodeInverts == part = "names" => Z!DecodeInverts

\* What the comments say and the code does not keep.
NestedInverted == part = "names" => Z!NestedInverted
VerboseSurrounded == part = "names" => Z!VerboseSurrounded
=============================================================================
