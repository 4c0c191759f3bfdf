----------------------------- MODULE Environment -----------------------------
(***************************************************************************)
(* The environment variables of the process, which its tasks share:        *)
(* src/cpp/env.c and the environment part of src/cpp/argv.c, with what     *)
(* Ada.Environment_Variables and Ada.Command_Line.Environment make of it.  *)
(*                                                                         *)
(* The variables are 1 .. N in the order of the block that the system      *)
(* gives; of a value only the length matters, and whether it fits the      *)
(* buffer of __gnat_getenv. One system call is one step.                   *)
(***************************************************************************)
EXTENDS Integers, Sequences, FiniteSets

CONSTANTS
  N,        \* the variables are 1 .. N
  Drives,   \* those the system keeps, whose names begin with "="
  Tasks,
  MaxSize,  \* the size of the buffer of __gnat_getenv
  Lengths,  \* the lengths of values
  MaxSets   \* the bound on the variables set

Names == 1 .. N
NoValue == -1

\* What is assumed of the constants.
DriveAssumption == Drives \subseteq Names
LengthAssumption == NoValue \notin Lengths

VARIABLES
  env,    \* env[n]: the length of the value, or NoValue
  sets,   \* how many were set
  call,   \* call[t]: the call under way: where it is, its copy and its place in it
  told,   \* what the last query gave
  deleted \* history: what a call that clears must have deleted

vars == <<env, sets, call, told, deleted>>

Idle == [at |-> "idle", copy |-> <<>>, i |-> 0, len |-> 0]
NoAnswer == [name |-> 0, exists |-> FALSE, len |-> 0, there |-> FALSE]

Init ==
  /\ env \in [Names -> Lengths \cup {NoValue}]
  /\ sets = 0
  /\ call = [t \in Tasks |-> Idle]
  /\ told = NoAnswer
  /\ deleted = [t \in Tasks |-> {}]

Variables == {n \in Names : env[n] # NoValue}

\* GetEnvironmentStrings: the variables in order, as [name, length].
Block ==
  [k \in 1 .. Cardinality(Variables) |->
     CHOOSE e \in [name : Variables, len : Lengths] :
       /\ Cardinality({n \in Variables : n <= e.name}) = k
       /\ e.len = env[e.name]]

\* Mutant: the last variable is there too, and the first is not.
environ_Tail == SubSeq(Block, 2, Len(Block))

\* __gnat_environ: the copy ends with the block, before the last is stored.
environ == SubSeq(Block, 1, Len(Block) - 1)

-----------------------------------------------------------------------------
\* __gnat_setenv; what is set is not what a call under way deletes.
setenv(t, n, len) ==
  /\ call[t].at = "idle" /\ sets < MaxSets /\ n \notin Drives
  /\ sets' = sets + 1
  /\ env' = [env EXCEPT ![n] = len]
  /\ deleted' = [u \in Tasks |-> deleted[u] \ {n}]
  /\ UNCHANGED <<call, told>>

\* SetEnvironmentVariable (name, NULL): a name that is empty is refused.
Delete(n) == env' = IF n \in Drives THEN env ELSE [env EXCEPT ![n] = NoValue]

unsetenv(t, n) ==
  /\ call[t].at = "idle" /\ n \in Variables \ Drives
  /\ Delete(n)
  /\ UNCHANGED <<sets, call, told, deleted>>

(***************************************************************************)
(* __gnat_getenv gives the length, which is 0 for no such variable and the *)
(* size it needs for a value that does not fit, and a buffer, which is     *)
(* never NULL: Exists (a-envvar.adb) takes that for a variable.            *)
(***************************************************************************)
Length(n) == CASE env[n] = NoValue -> 0
               [] env[n] >= MaxSize -> env[n] + 1
               [] OTHER -> env[n]

getenv(t, n) ==
  /\ call[t].at = "idle"
  /\ told' = [name |-> n, exists |-> TRUE, len |-> Length(n), there |-> env[n] # NoValue]
  /\ UNCHANGED <<env, sets, call, deleted>>

-----------------------------------------------------------------------------
\* __gnat_clearenv: from the second variable of the copy on, one at a time.
clearenv(t) ==
  /\ call[t].at = "idle"
  /\ call' = [call EXCEPT ![t] = [Idle EXCEPT !.at = "clear", !.copy = environ, !.i = 1]]
  /\ deleted' = [deleted EXCEPT ![t] = {Block[k].name : k \in 2 .. Len(Block) - 1} \ Drives]
  /\ UNCHANGED <<env, sets, told>>

ClearNext(t) ==
  LET c == call[t]
  IN  /\ c.at = "clear" /\ c.i < Len(c.copy)
      /\ Delete(c.copy[c.i + 1].name)
      /\ call' = [call EXCEPT ![t].i = @ + 1]
      /\ UNCHANGED <<sets, told, deleted>>

\* The second entry of an empty copy is past its end: what is found there is
\* NULL, or the name of some variable or of none; the program may also fail,
\* and then makes no further step.
ClearPast(t, n) ==
  /\ call[t].at = "clear" /\ call[t].copy = <<>> /\ n \in Variables \ Drives
  /\ Delete(n)
  /\ UNCHANGED <<sets, call, told, deleted>>

Cleared(t) ==
  /\ call[t].at = "clear" /\ call[t].i >= Len(call[t].copy)
  /\ call' = [call EXCEPT ![t] = [Idle EXCEPT !.at = "cleared"]]
  /\ UNCHANGED <<env, sets, told, deleted>>

\* The result of a call is looked at before the task goes on.
GoOn(t) ==
  /\ call[t].at \in {"cleared", "filled"}
  /\ call' = [call EXCEPT ![t] = Idle]
  /\ deleted' = [deleted EXCEPT ![t] = {}]
  /\ UNCHANGED <<env, sets, told>>

-----------------------------------------------------------------------------
(***************************************************************************)
(* Environment_Value (a-colien.adb): the count, the length and the value   *)
(* are each of a copy of their own. The value is written to a string of    *)
(* the length that was given before.                                       *)
(***************************************************************************)
Environment_Value(t) ==
  /\ call[t].at = "idle"
  /\ \E i \in 1 .. N : i <= Len(environ)
                       /\ call' = [call EXCEPT ![t] = [Idle EXCEPT !.at = "len", !.i = i]]
  /\ UNCHANGED <<env, sets, told, deleted>>

\* A NULL entry is not looked for: past the end this is undefined.
len_env(t) ==
  LET c == call[t]
  IN  /\ c.at = "len"
      /\ call' = [call EXCEPT ![t] =
                    IF c.i <= Len(environ)
                    THEN [c EXCEPT !.at = "fill", !.len = environ[c.i].len] ELSE Idle]
      /\ UNCHANGED <<env, sets, told, deleted>>

fill_env(t) ==
  LET c == call[t]
  IN  /\ c.at = "fill"
      /\ call' = [call EXCEPT ![t].at = "filled",
                              ![t].copy = IF c.i <= Len(environ) THEN <<environ[c.i]>> ELSE <<>>]
      /\ UNCHANGED <<env, sets, told, deleted>>

-----------------------------------------------------------------------------
Next ==
  \E t \in Tasks :
    \/ clearenv(t) \/ ClearNext(t) \/ Cleared(t) \/ GoOn(t)
    \/ Environment_Value(t) \/ len_env(t) \/ fill_env(t)
    \/ \E n \in Names : \/ unsetenv(t, n) \/ getenv(t, n) \/ ClearPast(t, n)
                        \/ \E len \in Lengths : setenv(t, n, len)

Spec == Init /\ [][Next]_vars

-----------------------------------------------------------------------------
(***************************************************************************)
(* A variable that a task's call to clear the environment had to delete is *)
(* gone when it returns, unless another task has set it since: all but the *)
(* first one, the last one and those of the system.                        *)
(***************************************************************************)
ClearDeletes == \A t \in Tasks : call[t].at = "cleared" => deleted[t] \cap Variables = {}

(***************************************************************************)
(* "Clear deletes all existing environment variables" (a-envvar.ads:58).   *)
(***************************************************************************)
ClearDeletesAll ==
  \A t \in Tasks : call[t].at = "cleared" /\ sets = 0 => Variables \subseteq Drives

(***************************************************************************)
(* "if [...] an environment variable with the given name currently exists, *)
(* then Exists returns True; otherwise it returns False" (a-envvar.ads:35) *)
(***************************************************************************)
ExistsIfThere == told.name # 0 => told.exists = told.there

(***************************************************************************)
(* The value that is written has the length of the string it is written to *)
(***************************************************************************)
ValueFits ==
  \A t \in Tasks : call[t].at = "filled" /\ call[t].copy # <<>> => call[t].copy[1].len = call[t].len
=============================================================================
