----------------------------- MODULE PathSearch ------------------------------
(***************************************************************************)
(* The search for a file along a path: __gnat_locate_file_with_predicate   *)
(* and its callers of src/cpp/adaint.c, which GNAT.OS_Lib and the          *)
(* symbolic tracebacks use.                                                *)
(*                                                                         *)
(* A string is a sequence of characters, of which "exe" is the suffix of   *)
(* executables. Each test of the predicate is a step, and says what the    *)
(* file system wants it to.                                                *)
(***************************************************************************)
EXTENDS Integers, Sequences, FiniteSets

CONSTANTS
  FileNames, \* the names that are looked for
  Paths,     \* the values of paths
  Characters,
  Letters,   \* the letters among them, which may name a drive
  Null       \* no path, or no result

VARIABLES
  names,     \* the names that are looked for, each along the whole path
  turn,      \* the one whose turn it is
  path,      \* the value of the path
  path_val,  \* what is left of it
  next,      \* what comes next: "idle", "start", "absolute", "relative",
             \* "path", "failed", "done"
  tried,     \* history: the names that were tested, in order
  located    \* the result

vars == <<names, turn, path, path_val, next, tried, located>>

Suffix == "exe"
Quote == "\""
Separators == {"/"}  \* it stands for both of them
PATH_SEPARATOR == ";"

Init ==
  /\ names = <<>> /\ turn = 1 /\ path = Null /\ path_val = <<>>
  /\ next = "idle" /\ tried = <<>> /\ located = Null

file_name == names[turn]

-----------------------------------------------------------------------------
is_absolute_path(name, length) ==
  /\ length # 0
  /\ \/ name[1] \in Separators
     \/ length > 1 /\ Len(name) > 1 /\ name[1] \in Letters /\ name[2] = ":"

\* The quotes around the name.
Leading(name) == IF name[1] = Quote THEN Tail(name) ELSE name
Trailing(name) ==
  IF name # <<>> /\ name[Len(name)] = Quote THEN SubSeq(name, 1, Len(name) - 1) ELSE name
Unquoted(name) == Trailing(Leading(name))

HasSeparator(name) == \E k \in 1 .. Len(name) : name[k] \in Separators

\* The characters of path_val up to the next separator.
EntryLength(val) ==
  CHOOSE n \in 0 .. Len(val) :
    /\ n = Len(val) \/ val[n + 1] = PATH_SEPARATOR
    /\ \A k \in 1 .. n : val[k] # PATH_SEPARATOR

\* Mutant: an empty directory is the root.
Directory_Root(entry) ==
  LET dir == Trailing(entry)
  IN  IF dir # <<>> /\ dir[Len(dir)] \in Separators THEN dir ELSE Append(dir, "/")

\* The directory of an entry whose leading quote was skipped.
Directory(entry) ==
  LET dir == IF entry = <<>> THEN <<".">> ELSE Trailing(entry)
  IN  IF dir[Len(dir)] \in Separators THEN dir ELSE Append(dir, "/")

-----------------------------------------------------------------------------
\* The entries of a path begin at its beginning and behind its separators.
Starts(val) == {1} \cup {k + 1 : k \in {k \in 1 .. Len(val) : val[k] = PATH_SEPARATOR}}

Entry(val, s) ==
  LET left == SubSeq(val, s, Len(val)) IN SubSeq(left, 1, EntryLength(left))

\* What is assumed of the constants. Of an entry that is two quotes only, the
\* code reads the character before its buffer.
PathAssumption ==
  /\ {".", "/", PATH_SEPARATOR, Suffix} \subseteq Characters
  /\ FileNames \subseteq Seq(Characters) /\ Paths \subseteq Seq(Characters)
  /\ Null \notin Seq(Characters)
  /\ \A val \in Paths : \A s \in Starts(val) : Entry(val, s) # <<Quote, Quote>>

-----------------------------------------------------------------------------
Search(wanted, val) ==
  /\ next' = "start"
  /\ names' = wanted /\ turn' = 1
  /\ path' = val /\ path_val' = IF val = Null THEN <<>> ELSE val
  /\ UNCHANGED <<tried, located>>

\* __gnat_locate_executable_file and __gnat_locate_regular_file.
locate_file(name, val) == Search(<<name>>, val)

\* __gnat_locate_exec: with the suffix first, if the name has none.
Executables(name) ==
  IF \E k \in 1 .. Len(name) : name[k] = Suffix THEN <<name>> ELSE <<Append(name, Suffix), name>>

locate_exec(name, val) == Search(Executables(name), val)

\* __gnat_locate_exec_on_path: the current directory comes before the PATH,
\* and alone when the PATH cannot be expanded.
OnPath(val) == IF val = Null THEN <<>> ELSE <<".", PATH_SEPARATOR>> \o val

locate_exec_on_path(name, val) == Search(Executables(name), OnPath(val))

\* How the search starts: an absolute name is only looked for itself, one
\* with a directory first itself.
Start ==
  /\ next = "start"
  /\ next' = CASE file_name = <<>> -> "failed"
               [] file_name # <<>> /\ is_absolute_path(Unquoted(file_name), Len(file_name)) -> "absolute"
               [] OTHER -> IF HasSeparator(file_name) THEN "relative"
                           ELSE IF path = Null THEN "failed" ELSE "path"
  /\ UNCHANGED <<names, turn, path, path_val, tried, located>>

\* The predicate on a name: it is located, or the search goes on as "then".
Test(name, then) ==
  /\ tried' = Append(tried, name)
  /\ \/ located' = name /\ next' = "done"
     \/ located' = Null /\ next' = then

Absolute ==
  /\ next = "absolute"
  /\ Test(Unquoted(file_name), "failed")
  /\ UNCHANGED <<names, turn, path, path_val>>

Relative ==
  /\ next = "relative"
  /\ Test(file_name, IF path = Null THEN "failed" ELSE "path")
  /\ UNCHANGED <<names, turn, path, path_val>>

\* One entry of the path; the last one is not followed by a separator.
AlongPath ==
  /\ next = "path"
  /\ LET open == IF path_val # <<>> /\ path_val[1] = Quote THEN Tail(path_val) ELSE path_val
         n == EntryLength(open)
     IN  /\ path_val' = SubSeq(open, n + 2, Len(open))
         /\ Test(Directory(SubSeq(open, 1, n)) \o file_name, IF n = Len(open) THEN "failed" ELSE "path")
  /\ UNCHANGED <<names, turn, path>>

\* The next name, or there is none.
Failed ==
  /\ next = "failed"
  /\ IF turn = Len(names) THEN next' = "done" /\ UNCHANGED <<turn, path_val>>
     ELSE /\ next' = "start" /\ turn' = turn + 1
          /\ path_val' = IF path = Null THEN <<>> ELSE path
  /\ UNCHANGED <<names, path, tried, located>>

Next ==
  \/ /\ next = "idle"
     /\ \E name \in FileNames, val \in Paths \cup {Null} :
          locate_file(name, val) \/ locate_exec(name, val) \/ locate_exec_on_path(name, val)
  \/ Start \/ Absolute \/ Relative \/ AlongPath \/ Failed

Spec == Init /\ [][Next]_vars

-----------------------------------------------------------------------------
\* The directory an entry names, without quotes and with one separator.
Named(entry) ==
  LET dir == IF entry = <<>> THEN <<>> ELSE Unquoted(entry)
  IN  IF dir = <<>> THEN Append(<<".">>, "/")
      ELSE IF dir[Len(dir)] \in Separators THEN dir ELSE Append(dir, "/")

\* Where the n-th name is to be looked for: itself, and in each entry.
Name(n) == IF names[n] = <<>> THEN <<>> ELSE Unquoted(names[n])
IsAbsolute(n) == is_absolute_path(Name(n), Len(Name(n)))
Itself(n) == HasSeparator(names[n]) \/ IsAbsolute(n)
InEntries(n) == names[n] # <<>> /\ path # Null /\ ~IsAbsolute(n)

Wanted ==
  {<<n, 0>> : n \in {n \in 1 .. Len(names) : Itself(n)}}
    \cup UNION {{<<n, s>> : s \in Starts(path)} : n \in {n \in 1 .. Len(names) : InEntries(n)}}

Meaning(n, s) ==
  IF s = 0 THEN Name(n) ELSE Named(Entry(path, s)) \o Name(n)

\* One's place among them: name by name, and along the path.
Place(all, w) == Cardinality({v \in all : v[1] < w[1] \/ (v[1] = w[1] /\ v[2] <= w[2])})

InOrder ==
  LET all == Wanted
  IN  /\ Len(tried) <= Cardinality(all)
      /\ \A w \in all : Place(all, w) <= Len(tried) => tried[Place(all, w)] = Meaning(w[1], w[2])
      /\ next = "done" => IF located = Null THEN Len(tried) = Cardinality(all)
                          ELSE tried # <<>> /\ located = tried[Len(tried)]

Quoted == \E n \in 1 .. Len(names) : \E k \in 1 .. Len(names[n]) : names[n][k] = Quote

(***************************************************************************)
(* The file located is the first of those that there are in the order of   *)
(* the path, each of whose directories is tried once, an empty one as the  *)
(* current one: nothing is passed over and nothing is tried twice. Names   *)
(* in quotes are left to QuotesIgnored.                                    *)
(***************************************************************************)
FirstAlongPath == ~Quoted => InOrder

(***************************************************************************)
(* "Remove quotes around file_name if present" (adaint.c:2114).            *)
(***************************************************************************)
QuotesIgnored == InOrder
=============================================================================
