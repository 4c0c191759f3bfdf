--------------------------- MODULE RuntimeStartup ----------------------------
(***************************************************************************)
(* The start and the end of the C run-time, which every library of a       *)
(* program asks for: src/cpp/rtinit.c and src/cpp/rtfinal.c, with the      *)
(* critical section and the event of the list of processes and the         *)
(* expansion of the arguments' wildcards.                                  *)
(*                                                                         *)
(* An argument is [len, quoted, closed, dir, matches]: its length, whether *)
(* it begins and ends with a quote, whether it names a directory, and the  *)
(* names that match its wildcards. What is stored of it is the range of    *)
(* its characters, or a matching name with or without its directory.       *)
(***************************************************************************)
EXTENDS Integers, Sequences, FiniteSets

CONSTANTS
  Tasks,            \* the tasks whose libraries start and stop the run-time
  Arguments,        \* the arguments that may be given
  MaxArguments,     \* the bound on their number, the program's name aside
  MaxReferences,    \* the bound on a task's references
  EXPAND_ARGV_RATE  \* by how much the table of arguments grows

\* What is assumed of the constants.
RateAssumption == EXPAND_ARGV_RATE \in Nat \ {0}
ArgumentAssumption ==
  /\ MaxArguments \in Nat
  /\ Arguments \subseteq [len : Nat, quoted : BOOLEAN, closed : BOOLEAN, dir : BOOLEAN,
                          matches : Seq(STRING)]

VARIABLES
  line,       \* the command line, whose first element is the program
  expansion,  \* __gnat_do_argv_expansion
  count,      \* __gnat_rt_init_count
  ProcList,   \* the critical section and the event: "none" or "live"
  gnat_argv,  \* the arguments stored
  last,       \* the size of the table they are stored in
  place,      \* place[t]: where task t's call is
  refs        \* refs[t]: the calls to initialize it has not yet undone

vars == <<line, expansion, count, ProcList, gnat_argv, last, place, refs>>

Program == [len |-> 1, quoted |-> FALSE, closed |-> FALSE, dir |-> FALSE, matches |-> <<>>]

At(where) == [at |-> where, read |-> 0, k |-> 1, m |-> 0]

Init ==
  /\ \E n \in 0 .. MaxArguments : \E q \in [1 .. n -> Arguments] : line = <<Program>> \o q
  /\ expansion \in BOOLEAN
  /\ count = 0 /\ ProcList = "none" /\ gnat_argv = <<>> /\ last = 0
  /\ place = [t \in Tasks |-> At("idle")]
  /\ refs = [t \in Tasks |-> 0]

Set(t, p) == place' = [place EXCEPT ![t] = p]
SameLine == UNCHANGED <<line, expansion>>

-----------------------------------------------------------------------------
\* Mutant: the table grows only when it has overflowed.
append_arg_Late(value) ==
  LET grown == IF last < Len(gnat_argv) THEN last + EXPAND_ARGV_RATE ELSE last
  IN  /\ last' = grown
      /\ gnat_argv' = IF Len(gnat_argv) < grown THEN Append(gnat_argv, value) ELSE gnat_argv

(***************************************************************************)
(* append_arg: a full table grows first. What is stored outside of it is   *)
(* lost.                                                                   *)
(***************************************************************************)
append_arg(value) ==
  LET grown == IF last <= Len(gnat_argv) THEN last + EXPAND_ARGV_RATE ELSE last
  IN  /\ last' = grown
      /\ gnat_argv' = IF Len(gnat_argv) < grown THEN Append(gnat_argv, value) ELSE gnat_argv

\* What append_arg stores of argument k; without a quote it leaves off the
\* last character too.
Kept(k, quoted) ==
  IF quoted THEN <<"part", k, 2, line[k].len - 1>> ELSE <<"part", k, 1, line[k].len>>

Matching(k, m) == <<IF line[k].dir THEN "under" ELSE "name", k, line[k].matches[m]>>

Wild(a) == ~a.quoted /\ expansion /\ a.matches # <<>>

-----------------------------------------------------------------------------
(***************************************************************************)
(* __gnat_runtime_initialize. The increment reads and writes.              *)
(***************************************************************************)
Initialize(t) ==
  /\ place[t].at = "idle" /\ refs[t] < MaxReferences
  /\ Set(t, [At("increment") EXCEPT !.read = count])
  /\ SameLine /\ UNCHANGED <<count, ProcList, gnat_argv, last, refs>>

Increment(t) ==
  /\ place[t].at = "increment"
  /\ count' = place[t].read + 1
  /\ refs' = [refs EXCEPT ![t] = @ + 1]
  /\ Set(t, At("counted"))
  /\ SameLine /\ UNCHANGED <<ProcList, gnat_argv, last>>

AlreadyInitialized(t) ==
  /\ place[t].at = "counted" /\ count > 1
  /\ Set(t, At("returned"))
  /\ SameLine /\ UNCHANGED <<count, ProcList, gnat_argv, last, refs>>

\* The list's critical section and event, and a new table of arguments.
InitializeProcList(t) ==
  /\ place[t].at = "counted" /\ count <= 1
  /\ ProcList' = "live"
  /\ gnat_argv' = <<>> /\ last' = Len(line) + 1
  /\ Set(t, At("arguments"))
  /\ SameLine /\ UNCHANGED <<count, refs>>

\* An argument without wildcards, or that nothing matches.
StoreArgument(t) ==
  LET p == place[t]
  IN  /\ p.at = "arguments" /\ p.m = 0 /\ p.k <= Len(line) /\ ~Wild(line[p.k])
      /\ append_arg(Kept(p.k, line[p.k].quoted /\ expansion))
      /\ Set(t, [p EXCEPT !.k = @ + 1])
      /\ SameLine /\ UNCHANGED <<count, ProcList, refs>>

FindFirst(t) ==
  LET p == place[t]
  IN  /\ p.at = "arguments" /\ p.m = 0 /\ p.k <= Len(line) /\ Wild(line[p.k])
      /\ Set(t, [p EXCEPT !.m = 1])
      /\ SameLine /\ UNCHANGED <<count, ProcList, gnat_argv, last, refs>>

\* A match is stored unless it is "." or "..", and the next one looked for.
StoreMatch(t) ==
  LET p == place[t]
  IN  /\ p.at = "arguments" /\ p.m # 0
      /\ IF line[p.k].matches[p.m] \in {".", ".."} THEN UNCHANGED <<gnat_argv, last>>
         ELSE append_arg(Matching(p.k, p.m))
      /\ Set(t, IF p.m < Len(line[p.k].matches) THEN [p EXCEPT !.m = @ + 1]
                ELSE [At("arguments") EXCEPT !.k = p.k + 1])
      /\ SameLine /\ UNCHANGED <<count, ProcList, refs>>

\* The table is cut to the arguments it holds.
EndInitialize(t) ==
  /\ place[t].at = "arguments" /\ place[t].k > Len(line)
  /\ last' = Len(gnat_argv)
  /\ Set(t, At("returned"))
  /\ SameLine /\ UNCHANGED <<count, ProcList, gnat_argv, refs>>

-----------------------------------------------------------------------------
(***************************************************************************)
(* __gnat_runtime_finalize.                                                *)
(***************************************************************************)
Finalize(t) ==
  /\ place[t].at = "idle" /\ refs[t] > 0
  /\ Set(t, [At("decrement") EXCEPT !.read = count])
  /\ SameLine /\ UNCHANGED <<count, ProcList, gnat_argv, last, refs>>

Decrement(t) ==
  /\ place[t].at = "decrement"
  /\ count' = place[t].read - 1
  /\ refs' = [refs EXCEPT ![t] = @ - 1]
  /\ Set(t, At("uncounted"))
  /\ SameLine /\ UNCHANGED <<ProcList, gnat_argv, last>>

StillReferenced(t) ==
  /\ place[t].at = "uncounted" /\ count > 0
  /\ Set(t, At("idle"))
  /\ SameLine /\ UNCHANGED <<count, ProcList, gnat_argv, last, refs>>

DeleteProcList(t) ==
  /\ place[t].at = "uncounted" /\ count <= 0
  /\ ProcList' = "none"
  /\ Set(t, At("idle"))
  /\ SameLine /\ UNCHANGED <<count, gnat_argv, last, refs>>

\* The caller goes on with a run-time that is initialized.
GoOn(t) ==
  /\ place[t].at = "returned"
  /\ Set(t, At("idle"))
  /\ SameLine /\ UNCHANGED <<count, ProcList, gnat_argv, last, refs>>

Next ==
  \E t \in Tasks :
    \/ Initialize(t) \/ Increment(t) \/ AlreadyInitialized(t) \/ InitializeProcList(t)
    \/ StoreArgument(t) \/ FindFirst(t) \/ StoreMatch(t) \/ EndInitialize(t)
    \/ Finalize(t) \/ Decrement(t) \/ StillReferenced(t) \/ DeleteProcList(t) \/ GoOn(t)

Spec == Init /\ [][Next]_vars

-----------------------------------------------------------------------------
\* What the command line stands for: an argument, or each of its matches that is
\* neither "." nor "..".
Stands(k) ==
  IF ~line[k].quoted /\ expansion /\ line[k].matches # <<>>
    THEN {<<k, m>> : m \in {m \in DOMAIN line[k].matches : line[k].matches[m] \notin {".", ".."}}}
    ELSE {<<k, 0>>}

Wanted == UNION {Stands(k) : k \in DOMAIN line}

\* The argument or match itself.
Meaning(k, m) ==
  IF m # 0 THEN <<IF line[k].dir THEN "under" ELSE "name", k, line[k].matches[m]>>
  ELSE IF line[k].quoted /\ expansion
    THEN <<"part", k, 2, IF line[k].closed THEN line[k].len - 1 ELSE line[k].len>>
    ELSE <<"part", k, 1, line[k].len>>

\* Those up to a place of the command line.
Upto(w) == {v \in Wanted : v[1] < w[1] \/ (v[1] = w[1] /\ v[2] <= w[2])}

Expanded ==
  /\ Len(gnat_argv) = Cardinality(Wanted)
  /\ \A w \in Wanted : gnat_argv[Cardinality(Upto(w))] = Meaning(w[1], w[2])

(***************************************************************************)
(* When __gnat_runtime_initialize returns the arguments are those that the *)
(* command line stands for, in order, and all of them are in the table.    *)
(* Arguments with one quote only are left to QuotesRemoved.                *)
(***************************************************************************)
ArgumentsExpanded ==
  (\E t \in Tasks : place[t].at = "returned") /\ (\A k \in DOMAIN line : line[k].quoted => line[k].closed)
    => Expanded /\ last = Len(gnat_argv)

(***************************************************************************)
(* "No wildcard. Store parameter as-is. Remove quote if needed"            *)
(* (rtinit.c:279).                                                         *)
(***************************************************************************)
QuotesRemoved == (\E t \in Tasks : place[t].at = "returned") => Expanded

(***************************************************************************)
(* The critical section and the event are there for every task that has    *)
(* asked for the run-time, and not when none has: "if already initialized  *)
(* return now" (rtinit.c:134). It holds for one task; of two, the second   *)
(* returns while the first has only counted.                               *)
(***************************************************************************)
LiveWhileReferenced ==
  /\ (\E t \in Tasks : place[t].at \in {"idle", "returned"} /\ refs[t] > 0) => ProcList = "live"
  /\ (\A t \in Tasks : place[t].at = "idle" /\ refs[t] = 0) => ProcList = "none"
=============================================================================
