------------------------ MODULE RuntimeSupport_proofs -------------------------
(***************************************************************************)
(* Theorems about the packages of SupportPackages: PipePoll, ControlC,     *)
(* Environment, DirectoryStream, Locales, FileSystem, RuntimeStartup and   *)
(* PathSearch, for any pipes, handlers, variables, files, names of         *)
(* locales, arguments, paths, tasks and calls; then all of them side by    *)
(* side.                                                                   *)
(***************************************************************************)
EXTENDS SupportPackages, FiniteSets, WellFoundedInduction, FiniteSetTheorems,
  SequenceTheorems, TLAPS

-----------------------------------------------------------------------------
(***************************************************************************)
(* Waiting for output.                                                     *)
(***************************************************************************)
\* What is written stays and what has ended stays so: a pipe that was ready
\* when a look began is ready, and was not passed over.
PollInv ==
  /\ avail \in [X!Pipes -> BOOLEAN] /\ open \in [X!Pipes -> BOOLEAN]
  /\ asked \in Int /\ delay \in 5 .. X!MAX_DELAY + 9 /\ slept \in Nat
  /\ timeout = asked - slept /\ (asked >= 0 => timeout > -(X!MAX_DELAY + 10))
  /\ pipe \in 1 .. num_fd + 1
  /\ ready \subseteq X!Ready
  /\ answer.value = "none" => answer = X!NoAnswer /\ \A p \in ready : pipe <= p
  /\ answer.value # "none" => X!PollAnswers

LEMMA PollStep ==
  ASSUME num_fd \in Nat, PollInv, [X!Next]_X!vars
  PROVE  PollInv'
<1>1. ASSUME NEW p \in X!Pipes, X!Write(p) \/ X!End(p)  PROVE PollInv'
  <2>1. /\ avail' \in [X!Pipes -> BOOLEAN] /\ open' \in [X!Pipes -> BOOLEAN]
        /\ X!Ready \subseteq X!Ready'
    BY <1>1 DEF PollInv, X!Write, X!End, X!Ready
  <2>2. answer = X!NoAnswer /\ UNCHANGED <<asked, timeout, delay, pipe, slept, ready, answer>>
    BY <1>1 DEF X!Write, X!End
  <2> QED BY <2>1, <2>2 DEF PollInv, X!NoAnswer
<1>2. ASSUME X!Peek  PROVE PollInv'
  <2>1. CASE X!Fails(pipe)
    BY <1>2, <2>1 DEF PollInv, X!Peek, X!Fails, X!Ready, X!Pipes, X!NoAnswer, X!MAX_DELAY, X!PollAnswers
  <2>2. CASE ~X!Fails(pipe) /\ avail[pipe]
    BY <1>2, <2>2 DEF PollInv, X!Peek, X!Fails, X!Ready, X!Pipes, X!NoAnswer, X!MAX_DELAY, X!PollAnswers
  <2>3. CASE ~X!Fails(pipe) /\ ~avail[pipe]
    <3>1. pipe \notin ready
      BY <1>2, <2>3 DEF PollInv, X!Peek, X!Fails, X!Ready
    <3> QED BY <1>2, <2>3, <3>1 DEF PollInv, X!Peek, X!Fails, X!Ready, X!Pipes, X!NoAnswer, X!MAX_DELAY
  <2> QED BY <2>1, <2>2, <2>3
<1>3. ASSUME X!TimedOut  PROVE PollInv'
  BY <1>3 DEF PollInv, X!TimedOut, X!infinite, X!Ready, X!Pipes, X!NoAnswer, X!MAX_DELAY, X!PollAnswers
<1>4. ASSUME X!Sleep  PROVE PollInv'
  BY <1>4 DEF PollInv, X!Sleep, X!infinite, X!Ready, X!Pipes, X!NoAnswer, X!MAX_DELAY
<1>5. ASSUME UNCHANGED X!vars  PROVE PollInv'
  BY <1>5 DEF PollInv, X!vars, X!Ready, X!Pipes, X!NoAnswer, X!MAX_DELAY, X!PollAnswers
<1> QED BY <1>1, <1>2, <1>3, <1>4, <1>5 DEF X!Next

(***************************************************************************)
(* No time-out before its time, nor while a pipe has bytes or is broken;   *)
(* no process is dead before it has been read to its end: for any number   *)
(* of pipes and any time-out, whatever the processes do meanwhile.         *)
(***************************************************************************)
THEOREM PollAnswersHolds ==
  ASSUME num_fd \in Nat, Timeouts \subseteq Int
  PROVE  X!Spec => []X!PollAnswers
<1>1. X!Init => PollInv
  BY DEF X!Init, PollInv, X!Ready, X!Pipes, X!NoAnswer, X!MAX_DELAY
<1>2. PollInv => X!PollAnswers
  BY DEF PollInv, X!PollAnswers, X!NoAnswer
<1> QED BY <1>1, <1>2, PollStep, PTL DEF X!Spec

-----------------------------------------------------------------------------
(***************************************************************************)
(* Control-C.                                                              *)
(***************************************************************************)
\* __gnat_int_handler is registered once, when the variable says so.
Agree == \/ sigint_intercepted /\ registered = 1
         \/ ~sigint_intercepted /\ registered = 0

\* Between the two steps of a call the variable is behind the registration.
\* While a handler is sure nobody uninstalls it, and the system's thread
\* finds it at both looks.
ControlInv ==
  /\ sigint_intercepted \in BOOLEAN /\ registered \in Nat
  /\ at \in [Handling -> {"idle", "install", "store", "clear"}]
  /\ (\A u \in Handling : at[u] \in {"idle", "install"}) => Agree
  /\ \A u \in Handling : /\ at[u] = "store" => registered = 1
                         /\ at[u] = "clear" => registered = 0
  /\ Ada_Handler \in Procs \cup {Nobody}
  /\ sigint_intercepted \/ (\E u \in Handling : at[u] \in {"install", "store"}) => Ada_Handler \in Procs
  /\ event \in [at : {"none", "test", "call", "called", "default"}, called : Procs \cup {Nobody},
                may : SUBSET Procs, sure : BOOLEAN]
  /\ event.sure /\ event.at \in {"test", "call"} =>
       /\ sigint_intercepted /\ Ada_Handler \in event.may
       /\ \A u \in Handling : at[u] # "clear"
  /\ event.sure => event.at \notin {"none", "default"}
  /\ event.sure /\ event.at = "called" => event.called \in event.may

LEMMA ControlStep ==
  ASSUME \A u, v \in Handling : u = v, Nobody \notin Procs, ControlInv, [C!Next]_C!vars
  PROVE  ControlInv'
<1>1. ASSUME NEW u \in Handling, NEW proc \in Procs, C!Install_Handler(u, proc)  PROVE ControlInv'
  BY <1>1 DEF ControlInv, Agree, C!Install_Handler, C!Move
<1>2. ASSUME NEW u \in Handling, C!Register(u)  PROVE ControlInv'
  BY <1>2 DEF ControlInv, Agree, C!Register, C!Move
<1>3. ASSUME NEW u \in Handling, C!Store(u)  PROVE ControlInv'
  BY <1>3 DEF ControlInv, Agree, C!Store, C!Move
<1>4. ASSUME NEW u \in Handling, C!Uninstall(u)  PROVE ControlInv'
  <2>1. Agree
    BY <1>4 DEF ControlInv, C!Uninstall, C!Move
  <2>2. registered' = 0 /\ ~event'.sure
    BY <1>4, <2>1 DEF ControlInv, Agree, C!Uninstall
  <2>3. at' = [at EXCEPT ![u] = "clear"]
    BY <1>4 DEF C!Uninstall, C!Move
  <2>4. \A v \in Handling : at'[v] = "clear"
    BY <2>3 DEF ControlInv
  <2>5. UNCHANGED <<Ada_Handler, sigint_intercepted>>
    BY <1>4 DEF C!Uninstall
  <2>6. /\ event' \in [at : {"none", "test", "call", "called", "default"},
                      called : Procs \cup {Nobody}, may : SUBSET Procs, sure : BOOLEAN]
        /\ Ada_Handler' \in Procs \cup {Nobody}
    BY <1>4, <2>5 DEF ControlInv, C!Uninstall
  <2>7. at' \in [Handling -> {"idle", "install", "store", "clear"}]
    BY <2>3 DEF ControlInv
  <2>8. sigint_intercepted' => Ada_Handler' \in Procs
    BY <2>5 DEF ControlInv
  <2> QED BY <2>2, <2>4, <2>5, <2>6, <2>7, <2>8 DEF ControlInv
<1>5. ASSUME NEW u \in Handling, C!Clear(u)  PROVE ControlInv'
  BY <1>5 DEF ControlInv, Agree, C!Clear, C!Move
<1>6. ASSUME C!Interrupt  PROVE ControlInv'
  <2>1. UNCHANGED <<Ada_Handler, sigint_intercepted, registered, at, calls>>
    BY <1>6 DEF C!Interrupt
  <2>2. C!Installed => /\ sigint_intercepted /\ registered = 1 /\ Ada_Handler \in Procs
                       /\ \A u \in Handling : at[u] # "clear"
    BY DEF ControlInv, Agree, C!Installed
  <2>3. C!Installed \in BOOLEAN
    BY DEF ControlInv, C!Installed
  <2>4. /\ event'.at = IF registered = 0 THEN "default" ELSE "test"
        /\ event'.called = Nobody /\ event'.may = {Ada_Handler} \ {Nobody}
        /\ event'.sure = C!Installed
        /\ event' \in [at : {"none", "test", "call", "called", "default"},
                       called : Procs \cup {Nobody}, may : SUBSET Procs, sure : BOOLEAN]
    BY <1>6, <2>3 DEF ControlInv, C!Interrupt
  <2>5. event'.sure => event'.at = "test" /\ Ada_Handler \in event'.may
    BY <2>2, <2>4
  <2> QED BY <2>1, <2>2, <2>4, <2>5 DEF ControlInv, Agree
<1>7. ASSUME C!TestHandler  PROVE ControlInv'
  BY <1>7 DEF ControlInv, Agree, C!TestHandler
<1>8. ASSUME C!CallHandler  PROVE ControlInv'
  BY <1>8 DEF ControlInv, Agree, C!CallHandler
<1>9. ASSUME UNCHANGED C!vars  PROVE ControlInv'
  BY <1>9 DEF ControlInv, Agree, C!vars
<1> QED BY <1>1, <1>2, <1>3, <1>4, <1>5, <1>6, <1>7, <1>8, <1>9 DEF C!Next

(***************************************************************************)
(* Where one task installs handlers and uninstalls them, a Control-C that  *)
(* comes while one is installed and none is uninstalled calls a handler    *)
(* that was installed meanwhile, however often it is replaced.             *)
(***************************************************************************)
THEOREM InterruptsHandledHolds ==
  ASSUME \A u, v \in Handling : u = v, Nobody \notin Procs
  PROVE  C!Spec => []C!InterruptsHandled
<1>1. C!Init => ControlInv
  <2> SUFFICES ASSUME C!Init  PROVE ControlInv
    OBVIOUS
  <2>1. event \in [at : {"none", "test", "call", "called", "default"},
                  called : Procs \cup {Nobody}, may : SUBSET Procs, sure : BOOLEAN]
    BY DEF C!Init, C!NoEvent
  <2>2. at \in [Handling -> {"idle", "install", "store", "clear"}] /\ \A u \in Handling : at[u] = "idle"
    BY DEF C!Init
  <2> QED BY <2>1, <2>2 DEF C!Init, ControlInv, Agree, C!NoEvent
<1>2. ControlInv => C!InterruptsHandled
  BY DEF ControlInv, Agree, C!InterruptsHandled, C!Installed
<1> QED BY <1>1, <1>2, ControlStep, PTL DEF C!Spec

-----------------------------------------------------------------------------
(***************************************************************************)
(* The environment.                                                        *)
(***************************************************************************)
Shape(c) == {"at", "copy", "i"} \subseteq DOMAIN c

\* What a call still has to delete is behind its place in the copy.
Ahead(t, n) == \E k \in DOMAIN envcall[t].copy : k > envcall[t].i /\ envcall[t].copy[k].name = n

ClearInv ==
  /\ env \in [E!Names -> Lengths \cup {E!NoValue}]
  /\ DOMAIN envcall = Tasks /\ DOMAIN deleted = Tasks
  /\ \A t \in Tasks :
       /\ Shape(envcall[t])
       /\ envcall[t].at = "clear" =>
            /\ envcall[t].i \in Nat
            /\ \E m \in Nat : DOMAIN envcall[t].copy = 1 .. m /\ Len(envcall[t].copy) = m
            /\ deleted[t] \cap Drives = {}
            /\ \A n \in deleted[t] \cap E!Variables : Ahead(t, n)
  /\ E!ClearDeletes

\* The module's instance of Cardinality.
LEMMA SameCardinality == \A S : E!Cardinality(S) = Cardinality(S)
  BY DEF E!Cardinality, Cardinality, E!IsFiniteSet, IsFiniteSet

\* The block has m variables, of which the copy lacks the last.
BlockOf(m) ==
  /\ DOMAIN E!Block = 1 .. m /\ Len(E!Block) = m
  /\ DOMAIN E!environ = 1 .. m - 1 /\ Len(E!environ) = (IF m = 0 THEN 0 ELSE m - 1)
  /\ \A k \in 1 .. m - 1 : E!environ[k] = E!Block[k]

LEMMA BlockLength ==
  ASSUME NumVariables \in Nat, ClearInv
  PROVE  \E m \in Nat : BlockOf(m)
<1> DEFINE m == Cardinality(E!Variables)
<1> HIDE DEF m
<1>1. m \in Nat
  <2>1. E!Variables \subseteq 1 .. NumVariables
    BY DEF E!Variables, E!Names
  <2>2. IsFiniteSet(1 .. NumVariables)
    BY FS_Interval
  <2>3. IsFiniteSet(E!Variables)
    BY <2>1, <2>2, FS_Subset
  <2> QED BY <2>3, FS_CardinalityType DEF m
<1>2. DOMAIN E!Block = 1 .. m
  <2>1. DOMAIN E!Block = 1 .. E!Cardinality(E!Variables)
    BY DEF E!Block
  <2> QED BY <2>1, SameCardinality DEF m
<1> DEFINE S == {E!Block[k] : k \in 1 .. m}
<1>3. E!Block \in [1 .. m -> S]
  BY <1>2 DEF E!Block, m
<1> HIDE DEF S
<1>4. E!Block \in Seq(S) /\ Len(E!Block) = m
  BY <1>1, <1>2, <1>3, SeqDef
<1>5. /\ DOMAIN E!environ = 1 .. m - 1
      /\ \A k \in 1 .. m - 1 : E!environ[k] = E!Block[k]
  BY <1>1, <1>2, <1>4 DEF E!environ
<1>6. Len(E!environ) = IF m = 0 THEN 0 ELSE m - 1
  BY <1>1, <1>4 DEF E!environ
<1> QED BY <1>1, <1>2, <1>4, <1>5, <1>6 DEF BlockOf

\* A deletion takes one variable away, if it is not the system's.
LEMMA DeleteStep ==
  ASSUME ClearInv, NEW n, E!Delete(n)
  PROVE  /\ env' \in [E!Names -> Lengths \cup {E!NoValue}]
         /\ E!Variables' \subseteq E!Variables
         /\ n \notin Drives => n \notin E!Variables'
BY DEF ClearInv, E!Delete, E!Variables

\* A call whose place, copy and duties stay has no more to do when variables go.
LEMMA ClearKept ==
  ASSUME ClearInv, NEW t \in Tasks, envcall'[t] = envcall[t], deleted'[t] \subseteq deleted[t],
         deleted'[t] \cap E!Variables' \subseteq E!Variables
  PROVE  /\ Shape(envcall'[t])
         /\ envcall'[t].at = "clear" =>
              /\ envcall'[t].i \in Nat
              /\ \E m \in Nat : DOMAIN envcall'[t].copy = 1 .. m /\ Len(envcall'[t].copy) = m
              /\ deleted'[t] \cap Drives = {}
              /\ \A n \in deleted'[t] \cap E!Variables' : Ahead(t, n)'
         /\ envcall'[t].at = "cleared" => deleted'[t] \cap E!Variables' = {}
BY DEF ClearInv, Ahead, Shape, E!ClearDeletes

LEMMA ClearStep ==
  ASSUME NumVariables \in Nat, ClearInv, [E!Next]_E!vars
  PROVE  ClearInv'
<1> DEFINE Good(t) ==
      /\ Shape(envcall'[t])
      /\ envcall'[t].at = "clear" =>
           /\ envcall'[t].i \in Nat
           /\ \E m \in Nat : DOMAIN envcall'[t].copy = 1 .. m /\ Len(envcall'[t].copy) = m
           /\ deleted'[t] \cap Drives = {}
           /\ \A n \in deleted'[t] \cap E!Variables' : Ahead(t, n)'
      /\ envcall'[t].at = "cleared" => deleted'[t] \cap E!Variables' = {}
<1>0. ASSUME env' \in [E!Names -> Lengths \cup {E!NoValue}], DOMAIN envcall' = Tasks,
             DOMAIN deleted' = Tasks, \A t \in Tasks : Good(t)
      PROVE  ClearInv'
  BY <1>0 DEF ClearInv, E!ClearDeletes
<1>00. ASSUME NEW t \in Tasks, envcall'[t] = envcall[t], deleted'[t] \subseteq deleted[t],
              deleted'[t] \cap E!Variables' \subseteq E!Variables
       PROVE  Good(t)
  BY <1>00, ClearKept
<1>T. /\ env \in [E!Names -> Lengths \cup {E!NoValue}] /\ DOMAIN envcall = Tasks /\ DOMAIN deleted = Tasks
  BY DEF ClearInv
<1> HIDE DEF Good
<1>1. ASSUME UNCHANGED E!vars  PROVE ClearInv'
  BY <1>1, <1>0, <1>00, <1>T DEF E!vars, E!Variables
<1>2. ASSUME NEW t \in Tasks, E!clearenv(t)  PROVE ClearInv'
  <2>1. /\ UNCHANGED <<env, sets, told>>
        /\ envcall' = [envcall EXCEPT ![t] = [E!Idle EXCEPT !.at = "clear", !.copy = E!environ, !.i = 1]]
        /\ deleted' = [deleted EXCEPT ![t] = {E!Block[k].name : k \in 2 .. Len(E!Block) - 1} \ Drives]
    BY <1>2 DEF E!clearenv
  <2>2. PICK m \in Nat : BlockOf(m)
    BY BlockLength
  <2>3. /\ envcall'[t] = [at |-> "clear", copy |-> E!environ, i |-> 1, len |-> 0]
        /\ deleted'[t] = {E!Block[k].name : k \in 2 .. m - 1} \ Drives
    BY <1>T, <2>1, <2>2 DEF E!Idle, BlockOf
  <2>4. \A n \in deleted'[t] : Ahead(t, n)'
    BY <2>2, <2>3 DEF Ahead, BlockOf
  <2>5. Good(t)
    BY <2>2, <2>3, <2>4 DEF Good, Shape, BlockOf
  <2>6. \A u \in Tasks \ {t} : Good(u)
    BY <1>00, <1>T, <2>1 DEF E!Variables
  <2> QED BY <1>0, <1>T, <2>1, <2>5, <2>6
<1>3. ASSUME NEW t \in Tasks, E!ClearNext(t)  PROVE ClearInv'
  <2> DEFINE n == envcall[t].copy[envcall[t].i + 1].name
  <2>1. /\ envcall[t].at = "clear" /\ envcall[t].i < Len(envcall[t].copy) /\ E!Delete(n)
        /\ envcall' = [envcall EXCEPT ![t].i = @ + 1] /\ UNCHANGED <<sets, told, deleted>>
    BY <1>3 DEF E!ClearNext
  <2>2. /\ env' \in [E!Names -> Lengths \cup {E!NoValue}] /\ E!Variables' \subseteq E!Variables
        /\ n \notin Drives => n \notin E!Variables'
    BY <2>1, DeleteStep
  <2> HIDE DEF n
  <2>3. /\ Shape(envcall'[t]) /\ envcall'[t].at = "clear"
        /\ envcall'[t].copy = envcall[t].copy /\ envcall'[t].i = envcall[t].i + 1
    BY <1>T, <2>1 DEF ClearInv, Shape
  <2>4. ASSUME NEW k \in deleted'[t] \cap E!Variables'  PROVE Ahead(t, k)'
    <3>1. k \in deleted[t] \cap E!Variables /\ k # n
      BY <2>1, <2>2, <2>4 DEF ClearInv
    <3>2. PICK j \in DOMAIN envcall[t].copy : j > envcall[t].i /\ envcall[t].copy[j].name = k
      BY <2>1, <3>1 DEF ClearInv, Ahead
    <3>3. j \in Nat /\ envcall[t].i \in Nat /\ j # envcall[t].i + 1
      BY <2>1, <3>1, <3>2 DEF ClearInv, n
    <3> QED BY <2>3, <3>2, <3>3 DEF Ahead
  <2>5. Good(t)
    BY <2>1, <2>3, <2>4 DEF Good, Shape, ClearInv
  <2>6. \A u \in Tasks \ {t} : Good(u)
    BY <1>00, <1>T, <2>1, <2>2
  <2> QED BY <1>0, <1>T, <2>1, <2>2, <2>5, <2>6
<1>4. ASSUME NEW t \in Tasks, E!Cleared(t)  PROVE ClearInv'
  <2>1. /\ envcall[t].at = "clear" /\ envcall[t].i >= Len(envcall[t].copy)
        /\ envcall' = [envcall EXCEPT ![t] = [E!Idle EXCEPT !.at = "cleared"]]
        /\ UNCHANGED <<env, sets, told, deleted>>
    BY <1>4 DEF E!Cleared
  <2>2. envcall'[t] = [at |-> "cleared", copy |-> <<>>, i |-> 0, len |-> 0]
    BY <1>T, <2>1 DEF E!Idle
  <2>3. deleted[t] \cap E!Variables = {}
    BY <2>1 DEF ClearInv, Ahead
  <2>4. Good(t)
    BY <2>1, <2>2, <2>3 DEF Good, Shape, E!Variables
  <2>5. \A u \in Tasks \ {t} : Good(u)
    BY <1>00, <1>T, <2>1 DEF E!Variables
  <2> QED BY <1>0, <1>T, <2>1, <2>4, <2>5
\* The calls that do not clear.
<1>5. ASSUME NEW t \in Tasks, NEW c, envcall' = [envcall EXCEPT ![t] = c], Shape(c),
             c.at \notin {"clear", "cleared"},
             DOMAIN deleted' = Tasks, \A u \in Tasks : deleted'[u] \subseteq deleted[u], UNCHANGED env
      PROVE  ClearInv'
  <2>1. envcall'[t] = c
    BY <1>T, <1>5
  <2>2. Good(t)
    BY <1>5, <2>1 DEF Good
  <2>3. \A u \in Tasks \ {t} : Good(u)
    BY <1>00, <1>T, <1>5 DEF E!Variables
  <2> QED BY <1>0, <1>T, <1>5, <2>2, <2>3
<1>6. ASSUME NEW t \in Tasks, E!GoOn(t)  PROVE ClearInv'
  <2>1. /\ deleted' = [deleted EXCEPT ![t] = {}]
        /\ envcall' = [envcall EXCEPT ![t] = E!Idle] /\ UNCHANGED env
    BY <1>6 DEF E!GoOn
  <2>2. DOMAIN deleted' = Tasks /\ \A u \in Tasks : deleted'[u] \subseteq deleted[u]
    BY <1>T, <2>1
  <2>3. Shape(E!Idle) /\ E!Idle.at \notin {"clear", "cleared"}
    BY DEF Shape, E!Idle
  <2> QED BY <1>5, <2>1, <2>2, <2>3
<1>7. ASSUME NEW t \in Tasks, E!Environment_Value(t)  PROVE ClearInv'
  <2>1. PICK i : envcall' = [envcall EXCEPT ![t] = [E!Idle EXCEPT !.at = "len", !.i = i]]
    BY <1>7 DEF E!Environment_Value
  <2> DEFINE c == [E!Idle EXCEPT !.at = "len", !.i = i]
  <2>2. Shape(c) /\ c.at \notin {"clear", "cleared"}
    BY DEF E!Idle, Shape
  <2>3. UNCHANGED <<env, deleted>> /\ envcall' = [envcall EXCEPT ![t] = c]
    BY <1>7, <2>1 DEF E!Environment_Value
  <2> HIDE DEF c
  <2> QED BY <1>T, <1>5, <2>2, <2>3
<1>8. ASSUME NEW t \in Tasks, E!len_env(t)  PROVE ClearInv'
  <2>1. UNCHANGED <<env, deleted>>
    BY <1>8 DEF E!len_env
  <2> DEFINE c == IF envcall[t].i <= Len(E!environ)
                  THEN [envcall[t] EXCEPT !.at = "fill", !.len = E!environ[envcall[t].i].len]
                  ELSE E!Idle
  <2>2. envcall' = [envcall EXCEPT ![t] = c]
    BY <1>8 DEF E!len_env
  <2>3. Shape(envcall[t])
    BY DEF ClearInv
  <2>4. Shape(c) /\ c.at \notin {"clear", "cleared"}
    BY <2>3 DEF Shape, E!Idle
  <2> HIDE DEF c
  <2> QED BY <1>T, <1>5, <2>1, <2>2, <2>4
<1>9. ASSUME NEW t \in Tasks, E!fill_env(t)  PROVE ClearInv'
  <2>1. UNCHANGED <<env, deleted>>
    BY <1>9 DEF E!fill_env
  <2>2. PICK copy : envcall' = [envcall EXCEPT ![t].at = "filled", ![t].copy = copy]
    BY <1>9 DEF E!fill_env
  <2> DEFINE c == [envcall[t] EXCEPT !.at = "filled", !.copy = copy]
  <2>3. Shape(envcall[t])
    BY DEF ClearInv
  <2>4. Shape(c) /\ c.at \notin {"clear", "cleared"}
    BY <2>3 DEF Shape
  <2>5. envcall' = [envcall EXCEPT ![t] = c]
    BY <1>T, <2>2
  <2> HIDE DEF c
  <2> QED BY <1>T, <1>5, <2>1, <2>4, <2>5
<1>10. ASSUME NEW t \in Tasks, NEW n \in E!Names, E!unsetenv(t, n) \/ E!ClearPast(t, n)
       PROVE  ClearInv'
  <2>1. E!Delete(n) /\ UNCHANGED <<envcall, deleted>>
    BY <1>10 DEF E!unsetenv, E!ClearPast
  <2> QED BY <1>0, <1>00, <1>T, <2>1, DeleteStep
<1>11. ASSUME NEW t \in Tasks, NEW n \in E!Names, E!getenv(t, n)  PROVE ClearInv'
  BY <1>11, <1>0, <1>00, <1>T DEF E!getenv, E!Variables
<1>12. ASSUME NEW t \in Tasks, NEW n \in E!Names, NEW len \in Lengths, E!setenv(t, n, len)
       PROVE  ClearInv'
  <2>1. /\ env' = [env EXCEPT ![n] = len] /\ deleted' = [u \in Tasks |-> deleted[u] \ {n}]
        /\ UNCHANGED envcall
    BY <1>12 DEF E!setenv
  <2>2. /\ env' \in [E!Names -> Lengths \cup {E!NoValue}] /\ E!Variables' \ {n} \subseteq E!Variables
    BY <1>T, <2>1 DEF E!Variables
  <2>3. \A u \in Tasks : Good(u)
    BY <1>00, <2>1, <2>2
  <2> QED BY <1>0, <1>T, <2>1, <2>2, <2>3
<1> QED BY <1>1, <1>2, <1>3, <1>4, <1>6, <1>7, <1>8, <1>9, <1>10, <1>11, <1>12 DEF E!Next

(***************************************************************************)
(* What a call of __gnat_clearenv had to delete is gone when it returns,   *)
(* unless another task has set it since, for any variables and tasks.      *)
(***************************************************************************)
THEOREM ClearDeletesHolds ==
  ASSUME NumVariables \in Nat
  PROVE  E!Spec => []E!ClearDeletes
<1>1. E!Init => ClearInv
  BY DEF E!Init, ClearInv, Shape, E!Idle, E!ClearDeletes
<1>2. ClearInv => E!ClearDeletes
  BY DEF ClearInv
<1> QED BY <1>1, <1>2, ClearStep, PTL DEF E!Spec

-----------------------------------------------------------------------------
(***************************************************************************)
(* Directory streams.                                                      *)
(***************************************************************************)
DirectoryAssumption == D!NAssumption /\ D!HandleAssumption /\ D!ScanAssumption

Stream == [state : {"none", "open", "ended"}, wide : BOOLEAN,
           handle : Handles \cup {D!INVALID_HANDLE_VALUE}, cached : {0, 1}, data : 0 .. N]
Slot == [block : 1 .. N + 1, e : D!Entry]
ScanType == [at : {"idle", "enlarge", "tmp", "read", "cleanup", "returned"}, files : Seq(Slot),
             allocated : Nat, tmp : 0 .. N + 1, result : Int]

DirectoryTyped ==
  /\ present \subseteq D!Names
  /\ search \in [Handles -> D!Names \cup {D!Unused}]
  /\ fault = FALSE
  /\ dirp \in [D!Users -> Stream]
  /\ scan \in ScanType
  /\ given \in [D!Users -> Seq(D!Entry)]
  /\ stable \in [D!Users -> SUBSET D!Names]

\* Who has a search handle: a stream's is open, and its own.
HandlesOwned ==
  /\ \A h \in Handles : search[h] # D!Unused <=> \E s \in D!Users : dirp[s].handle = h
  /\ \A s, r \in D!Users : dirp[s].handle = dirp[r].handle /\ s # r => dirp[s].handle = 0
  /\ \A s \in D!Users : dirp[s].handle # 0 => search[dirp[s].handle] = dirp[s].data

\* What stream d has given and what it must give: the entries come in the
\* order of their names, the one in memory is the first, and those that were
\* there all the time are given or come later; none does without a search.
Progress(d, g, st) ==
  /\ d.cached # 0 => d.handle # 0
  /\ d.state \in {"none", "ended"} => d.handle = 0
  /\ d.handle # 0 => d.data \in D!Names
  /\ \A j, k \in DOMAIN g : j < k => g[j].file < g[k].file
  /\ d.cached # 0 => g = <<>> /\ \A n \in st : n >= d.data
  /\ d.handle # 0 /\ d.cached = 0 =>
       /\ \A k \in DOMAIN g : g[k].file <= d.data
       /\ \A n \in st : n > d.data \/ n \in D!Files(g)
  /\ d.state # "none" /\ d.handle = 0 => st \subseteq D!Files(g)

StreamsInv ==
  \A s \in D!Users : stable[s] \subseteq present /\ Progress(dirp[s], given[s], stable[s])

\* The table of scandir: its blocks are its own, and it has the files given
\* that the filter keeps.
Kept == {scan.files[k].e.file : k \in DOMAIN scan.files}
OwnSlots ==
  /\ \A j, k \in DOMAIN scan.files : j # k => scan.files[j].block # scan.files[k].block
  /\ scan.tmp # 0 => \A k \in DOMAIN scan.files : scan.files[k].block # scan.tmp

ScanInv ==
  /\ OwnSlots
  /\ dirp[Scan].state # "none" => ~dirp[Scan].wide
  /\ scan.at = "idle" => scan = D!NoScan
  /\ scan.at \in {"idle", "returned"} => dirp[Scan].state = "none"
  /\ scan.at = "returned" => scan.tmp = 0
  /\ scan.at \in {"enlarge", "tmp", "read"} =>
       /\ dirp[Scan].state = "open"
       /\ scan.result = Len(scan.files) /\ scan.result <= scan.allocated
       /\ \A j, k \in DOMAIN scan.files : j # k => scan.files[j].e.file # scan.files[k].e.file
       /\ Kept \subseteq D!Files(given[Scan]) /\ D!Files(given[Scan]) \cap Passing \subseteq Kept
  /\ scan.at \in {"tmp", "read"} => scan.result < scan.allocated
  /\ scan.at = "read" => scan.tmp # 0
  /\ scan.at \in {"cleanup", "returned"} /\ scan.result >= 0 =>
       /\ scan.result = Len(scan.files) /\ scan.result <= scan.allocated
       /\ \A j, k \in DOMAIN scan.files : j < k => D!InOrder(scan.files[j], scan.files[k])
       /\ stable[Scan] \cap Passing \subseteq Kept
  /\ scan.at = "returned" /\ scan.result < 0 => scan.files = <<>>

\* The blocks of streams and those of scandir.
StreamBlocks(s) == IF dirp[s].state = "none" THEN {} ELSE D!Blocks(s, dirp[s].wide)
TableBlocks == IF scan.allocated # 0 /\ ~(scan.at = "returned" /\ scan.result < 0)
               THEN {<<"files", Scan>>} ELSE {}
ScanBlocks == (IF scan.tmp # 0 THEN {<<"tmp", scan.tmp>>} ELSE {})
                \cup {<<"tmp", scan.files[k].block>> : k \in DOMAIN scan.files} \cup TableBlocks

HeapInv == \A b : b \in heap <=> b \in ScanBlocks \/ \E s \in D!Users : b \in StreamBlocks(s)

DInv == DirectoryTyped /\ HandlesOwned /\ StreamsInv /\ ScanInv /\ HeapInv

-----------------------------------------------------------------------------
\* A nonempty set of naturals has a first element.
LEMMA LeastOf ==
  ASSUME NEW S, S \subseteq Nat, S # {}
  PROVE  D!Least(S) \in S /\ \A j \in S : D!Least(S) <= j
<1>1. PICK k \in S : \A j \in S : ~(<<j, k>> \in OpToRel(<, Nat))
  BY NatLessThanWellFounded, WFMin
<1>2. \A j \in S : ~(j < k)
  BY <1>1 DEF OpToRel
<1>3. \A j \in S : k <= j
  BY <1>2
<1> QED BY <1>3 DEF D!Least

\* An entry names its file, whether or not its name can be converted.
LEMMA EntryNames ==
  ASSUME NEW n \in D!Names, NEW wide \in BOOLEAN
  PROVE  D!EntryOf(n, wide) \in D!Entry /\ D!EntryOf(n, wide).file = n
<1>1. D!d_type(n) \in {"DT_CHR", "DT_DIR", "DT_REG", "DT_UNKNOWN"}
  BY DEF D!d_type
<1>2. CASE wide \/ n \in Convertible
  BY <1>1, <1>2 DEF D!EntryOf, D!Entry
<1>3. CASE ~wide /\ n \in HasShort \ Convertible
  BY <1>1, <1>3 DEF D!EntryOf, D!Entry
<1>4. CASE ~wide /\ n \notin HasShort \cup Convertible
  BY <1>1, <1>4 DEF D!EntryOf, D!Entry
<1> QED BY <1>2, <1>3, <1>4

\* A stream gets another handle, keeps its own or gives it back; no other
\* stream's search moves.
LEMMA HandleStep ==
  ASSUME DirectoryAssumption, DirectoryTyped, HandlesOwned, NEW s \in D!Users,
         NEW d, d.handle = dirp[s].handle, NEW e \in Stream,
         dirp' = [dirp EXCEPT ![s] = e], search' = D!Searches(d, e),
         e.handle # 0 => /\ e.data # 0
                         /\ e.handle = dirp[s].handle \/ search[e.handle] = D!Unused
  PROVE  search' \in [Handles -> D!Names \cup {D!Unused}] /\ dirp' \in [D!Users -> Stream] /\ HandlesOwned'
<1>1. /\ dirp' \in [D!Users -> Stream] /\ dirp'[s] = e
      /\ \A r \in D!Users \ {s} : dirp'[r] = dirp[r]
  BY DEF DirectoryTyped
<1>2. /\ search' \in [Handles -> D!Names \cup {D!Unused}]
      /\ \A h \in Handles : search'[h] = IF h = e.handle /\ e.data # 0 THEN e.data
                                        ELSE IF h = d.handle THEN D!Unused ELSE search[h]
  BY DEF DirectoryTyped, D!Searches, Stream, D!Names, DirectoryAssumption, D!NAssumption
<1>3. 0 \notin Handles /\ D!Unused \notin 1 .. N
  BY DEF DirectoryAssumption, D!HandleAssumption, D!Unused
<1>4. \A r \in D!Users : dirp[r].handle \in Handles \cup {0} /\ dirp'[r].handle \in Handles \cup {0}
  BY <1>1 DEF DirectoryTyped, Stream, D!INVALID_HANDLE_VALUE
<1>5. \A r \in D!Users \ {s} : dirp[r].handle # 0 =>
        /\ dirp[r].handle # e.handle /\ dirp[r].handle # d.handle
        /\ search'[dirp[r].handle] = search[dirp[r].handle]
  <2> SUFFICES ASSUME NEW r \in D!Users \ {s}, dirp[r].handle # 0
               PROVE  /\ dirp[r].handle # e.handle /\ dirp[r].handle # d.handle
                      /\ search'[dirp[r].handle] = search[dirp[r].handle]
    OBVIOUS
  <2>1. dirp[r].handle \in Handles /\ search[dirp[r].handle] # D!Unused
    BY <1>4 DEF HandlesOwned
  <2>2. dirp[r].handle # d.handle
    BY DEF HandlesOwned
  <2> QED BY <1>2, <2>1, <2>2
<1>6. ASSUME NEW h \in Handles
      PROVE  search'[h] # D!Unused <=> \E r \in D!Users : dirp'[r].handle = h
  <2>1. CASE h = e.handle
    BY <1>1, <1>2, <1>3, <2>1 DEF Stream
  <2>2. CASE h # e.handle /\ h = d.handle
    BY <1>1, <1>2, <1>3, <1>5, <2>2
  <2>3. CASE h # e.handle /\ h # d.handle
    BY <1>1, <1>2, <1>3, <2>3 DEF HandlesOwned
  <2> QED BY <2>1, <2>2, <2>3
<1>7. ASSUME NEW r \in D!Users, NEW q \in D!Users, dirp'[r].handle = dirp'[q].handle, r # q
      PROVE  dirp'[r].handle = 0
  <2>1. CASE r # s /\ q # s
    BY <1>1, <1>7, <2>1 DEF HandlesOwned
  <2>2. CASE r = s
    BY <1>1, <1>5, <1>7, <2>2
  <2>3. CASE q = s
    BY <1>1, <1>5, <1>7, <2>3
  <2> QED BY <2>1, <2>2, <2>3
<1>8. ASSUME NEW r \in D!Users, dirp'[r].handle # 0
      PROVE  search'[dirp'[r].handle] = dirp'[r].data
  <2>1. CASE r = s
    BY <1>1, <1>2, <1>4, <1>8, <2>1
  <2>2. CASE r # s
    BY <1>1, <1>5, <1>8, <2>2 DEF HandlesOwned
  <2> QED BY <2>1, <2>2
<1> QED BY <1>1, <1>2, <1>6, <1>7, <1>8 DEF HandlesOwned

\* The first entry of a search waits in memory.
LEMMA FirstStep ==
  ASSUME DirectoryAssumption, DirectoryTyped, HandlesOwned, NEW d \in Stream,
         \E h \in Handles : search[h] = D!Unused
  PROVE  LET e == [D!dirent_first(d) EXCEPT !.state = "open"]
         IN  /\ e \in Stream /\ e.wide = d.wide /\ e.state = "open"
             /\ e.handle # 0 => e.data # 0 /\ search[e.handle] = D!Unused
             /\ Progress(e, <<>>, present)
<1> DEFINE f == D!dirent_first(d)
           e == [f EXCEPT !.state = "open"]
<1>1. 0 \notin Handles /\ present \subseteq 1 .. N /\ N \in Nat
  BY DEF DirectoryAssumption, D!HandleAssumption, D!NAssumption, DirectoryTyped, D!Names
<1>2. D!FreeHandle \in Handles /\ search[D!FreeHandle] = D!Unused
  BY DEF D!FreeHandle
<1>3. CASE present = {}
  <2>1. f = [d EXCEPT !.handle = 0, !.cached = 0]
    BY <1>3 DEF D!dirent_first, D!INVALID_HANDLE_VALUE
  <2>2. /\ e \in Stream /\ e.wide = d.wide /\ e.state = "open" /\ e.handle = 0 /\ e.cached = 0
    BY <2>1 DEF Stream, D!INVALID_HANDLE_VALUE
  <2> HIDE DEF e
  <2> QED BY <1>3, <2>2 DEF Progress, e
<1>4. CASE present # {}
  <2>1. D!Least(present) \in present /\ \A n \in present : D!Least(present) <= n
    <3>1. present \subseteq Nat
      BY <1>1
    <3> QED BY <1>4, <3>1, LeastOf
  <2>2. f = [d EXCEPT !.handle = D!FreeHandle, !.cached = 1, !.data = D!Least(present)]
    BY <1>4 DEF D!dirent_first
  <2>3. D!Least(present) \in 1 .. N
    BY <1>1, <2>1
  <2>4. /\ f \in Stream /\ f.wide = d.wide /\ f.handle = D!FreeHandle
        /\ f.cached = 1 /\ f.data = D!Least(present)
    <3> DEFINE l == D!Least(present)
               h == D!FreeHandle
    <3>1. f = [d EXCEPT !.handle = h, !.cached = 1, !.data = l]
      BY <2>2
    <3>2. l \in 0 .. N /\ h \in Handles
      BY <1>1, <1>2, <2>3
    <3> HIDE DEF l, h, f
    <3>3. /\ f \in Stream /\ f.wide = d.wide /\ f.handle = h /\ f.cached = 1 /\ f.data = l
      BY <3>1, <3>2 DEF Stream
    <3> QED BY <3>3 DEF l, h
  <2> HIDE DEF f
  <2>5. /\ e \in Stream /\ e.wide = d.wide /\ e.state = "open" /\ e.handle = D!FreeHandle
        /\ e.cached = 1 /\ e.data = D!Least(present)
    BY <2>4 DEF Stream
  <2> HIDE DEF e
  <2>6. e.handle # 0 /\ e.data \in 1 .. N /\ e.data # 0
    BY <1>1, <1>2, <2>3, <2>5
  <2>7. DOMAIN <<>> = {}
    OBVIOUS
  <2>8. Progress(e, <<>>, present)
    BY <1>1, <2>1, <2>5, <2>6, <2>7 DEF Progress, D!Names
  <2> QED BY <1>2, <2>5, <2>6, <2>8 DEF e, f
<1> QED BY <1>3, <1>4

\* Reading gives the next entry, or none at the end, where the search closes.
LEMMA NextStep ==
  ASSUME DirectoryAssumption, DirectoryTyped, HandlesOwned, StreamsInv,
         NEW s \in D!Users, dirp[s].state # "none"
  PROVE  LET d == D!dirent_next(dirp[s])
             e == [d EXCEPT !.state = IF d.data = 0 THEN "ended" ELSE "open"]
             g == IF d.data = 0 THEN given[s] ELSE Append(given[s], D!EntryOf(d.data, d.wide))
         IN  /\ e \in Stream /\ e.wide = dirp[s].wide /\ e.data = d.data
             /\ e.state = IF d.data = 0 THEN "ended" ELSE "open"
             /\ e.handle # 0 => e.data # 0 /\ e.handle = dirp[s].handle
             /\ e.handle = d.handle /\ d.wide = dirp[s].wide
             /\ e.data # 0 => /\ e.data \in D!Names
                              /\ \A k \in DOMAIN given[s] : given[s][k].file < e.data
             /\ g \in Seq(D!Entry) /\ Progress(e, g, stable[s])
<1> DEFINE c == dirp[s]
           g0 == given[s]
           st == stable[s]
           d == D!dirent_next(c)
           e == [d EXCEPT !.state = IF d.data = 0 THEN "ended" ELSE "open"]
           g == IF d.data = 0 THEN g0 ELSE Append(g0, D!EntryOf(d.data, d.wide))
<1>1. /\ c \in Stream /\ g0 \in Seq(D!Entry) /\ st \subseteq 1 .. N /\ st \subseteq present
      /\ N \in Nat /\ 0 \notin Handles /\ present \subseteq 1 .. N /\ c.state # "none"
  BY DEF DirectoryAssumption, D!HandleAssumption, D!NAssumption, DirectoryTyped, D!Names, StreamsInv
<1>2. Progress(c, g0, st)
  BY DEF StreamsInv
<1>3. c.handle # 0 => search[c.handle] = c.data
  BY DEF HandlesOwned
<1>8. \A k \in DOMAIN g0 : g0[k].file \in 1 .. N
  <2>1. \A k \in DOMAIN g0 : g0[k] \in D!Entry
    BY <1>1
  <2> QED BY <2>1 DEF D!Entry, D!Names
<1>4. ASSUME NEW n \in 1 .. N, \A k \in DOMAIN g0 : g0[k].file < n
      PROVE  LET h == Append(g0, D!EntryOf(n, c.wide))
             IN  /\ h \in Seq(D!Entry) /\ D!Files(h) = D!Files(g0) \cup {n}
                 /\ \A k \in DOMAIN h : h[k].file <= n
                 /\ \A j, k \in DOMAIN h : j < k => h[j].file < h[k].file
  <2> DEFINE x == D!EntryOf(n, c.wide)
             h == Append(g0, x)
  <2>1. x \in D!Entry /\ x.file = n
    BY <1>1, EntryNames DEF Stream, D!Names
  <2> HIDE DEF x
  <2>2. /\ h \in Seq(D!Entry) /\ DOMAIN h = 1 .. Len(g0) + 1 /\ DOMAIN g0 = 1 .. Len(g0)
        /\ Len(g0) \in Nat /\ h[Len(g0) + 1] = x /\ \A k \in DOMAIN g0 : h[k] = g0[k]
    BY <1>1, <2>1
  <2> HIDE DEF h
  <2>3. \A k \in DOMAIN h : h[k].file <= n
    <3>1. ASSUME NEW k \in DOMAIN h  PROVE h[k].file <= n
      <4>1. CASE k = Len(g0) + 1
        BY <2>1, <2>2, <4>1
      <4>2. CASE k \in DOMAIN g0
        BY <1>4, <1>8, <2>2, <4>2
      <4> QED BY <2>2, <3>1, <4>1, <4>2
    <3> QED BY <3>1
  <2>5. \A j, k \in DOMAIN h : j < k => h[j].file < h[k].file
    BY <1>2, <1>4, <2>1, <2>2 DEF Progress
  <2>6. D!Files(h) = D!Files(g0) \cup {n}
    <3>1. DOMAIN h = DOMAIN g0 \cup {Len(g0) + 1}
      BY <2>2
    <3> QED BY <2>1, <2>2, <3>1 DEF D!Files
  <2> QED BY <2>2, <2>3, <2>5, <2>6 DEF h, x
<1> HIDE DEF c, g0, st
<1>5. CASE c.cached # 0
  <2>1. d = [c EXCEPT !.cached = 0]
    BY <1>5 DEF D!dirent_next
  <2>2. c.handle # 0 /\ c.data \in 1 .. N /\ g0 = <<>> /\ \A n \in st : n >= c.data
    BY <1>2, <1>5 DEF Progress, D!Names
  <2>3. d.data = c.data /\ d.wide = c.wide /\ d.handle = c.handle /\ d.cached = 0 /\ d.data # 0 /\ d \in Stream
    BY <1>1, <2>1, <2>2 DEF Stream
  <2> HIDE DEF d
  <2>4. /\ e \in Stream /\ e.data = c.data /\ e.wide = c.wide /\ e.handle = c.handle /\ e.cached = 0
        /\ e.state = "open"
    BY <1>1, <2>3 DEF Stream
  <2>5. g = Append(g0, D!EntryOf(c.data, c.wide))
    BY <2>3
  <2> HIDE DEF e, g
  <2>6. /\ g \in Seq(D!Entry) /\ D!Files(g) = D!Files(g0) \cup {c.data}
        /\ \A k \in DOMAIN g : g[k].file <= c.data
        /\ \A j, k \in DOMAIN g : j < k => g[j].file < g[k].file
    <3>1. \A k \in DOMAIN g0 : g0[k].file < c.data
      BY <2>2
    <3> HIDE DEF D!Files
    <3> QED BY <1>4, <2>2, <2>5, <3>1
  <2>7. Progress(e, g, st)
    BY <1>1, <2>2, <2>4, <2>6 DEF Progress, D!Names
  <2> QED BY <2>2, <2>3, <2>4, <2>6, <2>7 DEF c, g0, st, d, e, g, D!Names
<1>6. CASE c.cached = 0 /\ c.handle # 0 /\ D!After(search[c.handle]) # {}
  <2> DEFINE n == D!Least(D!After(search[c.handle]))
  <2>1. d = [c EXCEPT !.data = n]
    BY <1>6 DEF D!dirent_next, D!INVALID_HANDLE_VALUE
  <2>2. /\ n \in D!After(search[c.handle])
        /\ \A m \in D!After(search[c.handle]) : n <= m
    <3>0. present \subseteq Nat
      BY <1>1
    <3>1. D!After(search[c.handle]) \subseteq Nat
      BY <3>0 DEF D!After
    <3> QED BY <1>6, <3>1, LeastOf
  <2> HIDE DEF n
  <2>3. /\ n \in present /\ n \in 1 .. N /\ n > c.data /\ \A m \in present : m > c.data => n <= m
        /\ c.data \in 1 .. N
    BY <1>1, <1>2, <1>3, <1>6, <2>2 DEF D!After, Progress, D!Names
  <2>4. d.data = n /\ d.wide = c.wide /\ d.handle = c.handle /\ d.cached = 0 /\ d.data # 0 /\ d \in Stream
    BY <1>1, <1>6, <2>1, <2>3 DEF Stream
  <2> HIDE DEF d
  <2>5. /\ e \in Stream /\ e.data = n /\ e.wide = c.wide /\ e.handle = c.handle /\ e.cached = 0
        /\ e.state = "open"
    BY <1>1, <2>4 DEF Stream
  <2>6. g = Append(g0, D!EntryOf(n, c.wide))
    BY <2>4
  <2>7. \A k \in DOMAIN g0 : g0[k].file < n
    <3>1. \A k \in DOMAIN g0 : g0[k].file <= c.data /\ g0[k].file \in 1 .. N
      BY <1>2, <1>6, <1>8 DEF Progress
    <3> QED BY <2>3, <3>1
  <2> HIDE DEF e, g
  <2>8. /\ g \in Seq(D!Entry) /\ D!Files(g) = D!Files(g0) \cup {n}
        /\ \A k \in DOMAIN g : g[k].file <= n
        /\ \A j, k \in DOMAIN g : j < k => g[j].file < g[k].file
    BY <1>4, <2>3, <2>6, <2>7
  <2>9. ASSUME NEW m \in st  PROVE m > n \/ m \in D!Files(g)
    <3>1. m > c.data \/ m \in D!Files(g0)
      BY <1>2, <1>6, <2>9 DEF Progress
    <3>2. m \in 1 .. N /\ m \in present
      BY <1>1, <2>9
    <3> QED BY <2>3, <2>8, <3>1, <3>2
  <2>10. Progress(e, g, st)
    BY <1>6, <2>3, <2>5, <2>8, <2>9 DEF Progress, D!Names
  <2> QED BY <2>3, <2>4, <2>5, <2>7, <2>8, <2>10 DEF c, g0, st, d, e, g, D!Names
<1>7. CASE c.cached = 0 /\ (c.handle = 0 \/ D!After(search[c.handle]) = {})
  <2>1. d = [c EXCEPT !.handle = 0, !.data = 0]
    BY <1>7 DEF D!dirent_next, D!INVALID_HANDLE_VALUE
  <2>2. d.data = 0 /\ d.wide = c.wide /\ d.handle = 0 /\ d.cached = 0 /\ d \in Stream
    <3>1. 0 \in 0 .. N /\ 0 \in Handles \cup {D!INVALID_HANDLE_VALUE}
      BY <1>1 DEF D!INVALID_HANDLE_VALUE
    <3> QED BY <1>1, <1>7, <2>1, <3>1 DEF Stream
  <2> HIDE DEF d
  <2>3. /\ e \in Stream /\ e.data = 0 /\ e.wide = c.wide /\ e.handle = 0 /\ e.cached = 0
        /\ e.state = "ended"
    BY <1>1, <2>2 DEF Stream
  <2>4. g = g0
    BY <2>2
  <2> HIDE DEF e, g
  <2>5. ASSUME NEW m \in st  PROVE m \in D!Files(g0)
    <3>1. CASE c.handle = 0
      BY <1>1, <1>2, <2>5, <3>1 DEF Progress
    <3>2. CASE c.handle # 0
      <4>1. m > c.data \/ m \in D!Files(g0)
        BY <1>2, <1>7, <2>5, <3>2 DEF Progress
      <4>2. ~(m > c.data)
        BY <1>1, <1>3, <1>7, <2>5, <3>2 DEF D!After
      <4> QED BY <4>1, <4>2
    <3> QED BY <3>1, <3>2
  <2>6. Progress(e, g, st)
    BY <1>2, <2>3, <2>4, <2>5 DEF Progress
  <2> QED BY <1>1, <2>2, <2>3, <2>4, <2>6 DEF c, g0, st, d, e, g
<1> QED
  <2>1. c.cached \in {0, 1}
    BY <1>1 DEF Stream
  <2> QED BY <1>5, <1>6, <1>7, <2>1 DEF c, g0, st

-----------------------------------------------------------------------------
\* A stream's blocks are nobody else's.
LEMMA BlocksApart ==
  ASSUME NEW s, NEW r, NEW v, NEW w, NEW b \in D!Blocks(s, v)
  PROVE  /\ b \in D!Blocks(r, w) => s = r
         /\ \A k : b # <<"tmp", k>> /\ b # <<"files", k>>
<1>1. b = <<"_WDIR", s>> \/ b = <<"patt", s>> \/ b = <<"DIR", s>>
  BY DEF D!Blocks
<1>2. b \in D!Blocks(r, w) => b = <<"_WDIR", r>> \/ b = <<"patt", r>> \/ b = <<"DIR", r>>
  BY DEF D!Blocks
<1> QED BY <1>1, <1>2

\* One stream is opened, moved or closed.
LEMMA StreamHeap ==
  ASSUME HeapInv, NEW s \in D!Users,
         \A r \in D!Users \ {s} : StreamBlocks(r)' = StreamBlocks(r), ScanBlocks' = ScanBlocks,
         heap' = (heap \ StreamBlocks(s)) \cup StreamBlocks(s)'
  PROVE  HeapInv'
<1>1. ASSUME NEW b \in StreamBlocks(s)
      PROVE  b \notin ScanBlocks /\ \A r \in D!Users \ {s} : b \notin StreamBlocks(r)
  <2>1. b \in D!Blocks(s, dirp[s].wide)
    BY <1>1 DEF StreamBlocks
  <2>2. \A r \in D!Users \ {s} : b \notin StreamBlocks(r)
    BY <2>1, BlocksApart DEF StreamBlocks
  <2>3. \A k : b # <<"tmp", k>> /\ b # <<"files", k>>
    BY <2>1, BlocksApart
  <2> QED BY <2>2, <2>3 DEF ScanBlocks, TableBlocks
<1>2. \A b : b \in heap' <=> b \in ScanBlocks' \/ \E r \in D!Users : b \in StreamBlocks(r)'
  BY <1>1 DEF HeapInv
<1> QED BY <1>2 DEF HeapInv

\* The invariant of a stream's step, put together.
LEMMA StreamStep ==
  ASSUME DirectoryAssumption, DirectoryTyped, HandlesOwned, StreamsInv, NEW s \in D!Users,
         NEW d, d.handle = dirp[s].handle, NEW e \in Stream, NEW g \in Seq(D!Entry), NEW st,
         dirp' = [dirp EXCEPT ![s] = e], search' = D!Searches(d, e),
         e.handle # 0 => /\ e.data # 0
                         /\ e.handle = dirp[s].handle \/ search[e.handle] = D!Unused,
         given' = [given EXCEPT ![s] = g], stable' = [stable EXCEPT ![s] = st],
         st \subseteq present, Progress(e, g, st), UNCHANGED <<present, fault>>, scan' \in ScanType
  PROVE  DirectoryTyped' /\ HandlesOwned' /\ StreamsInv'
<1>1. search' \in [Handles -> D!Names \cup {D!Unused}] /\ dirp' \in [D!Users -> Stream] /\ HandlesOwned'
  BY HandleStep
<1>2. /\ given' \in [D!Users -> Seq(D!Entry)] /\ stable' \in [D!Users -> SUBSET D!Names]
      /\ present' \subseteq D!Names /\ fault' = FALSE
  BY DEF DirectoryTyped
<1>3. ASSUME NEW r \in D!Users
      PROVE  stable'[r] \subseteq present' /\ Progress(dirp'[r], given'[r], stable'[r])
  <2>1. CASE r = s
    <3>1. dirp'[r] = e /\ given'[r] = g /\ stable'[r] = st
      BY <2>1 DEF DirectoryTyped
    <3> QED BY <3>1
  <2>2. CASE r # s
    <3>1. dirp'[r] = dirp[r] /\ given'[r] = given[r] /\ stable'[r] = stable[r]
      BY <2>2 DEF DirectoryTyped
    <3> QED BY <3>1 DEF StreamsInv
  <2> QED BY <2>1, <2>2
<1>4. StreamsInv'
  BY <1>3 DEF StreamsInv
<1> QED BY <1>1, <1>2, <1>4 DEF DirectoryTyped

\* Nothing of scandir's changes.
LEMMA ScanKept ==
  ASSUME ScanInv, UNCHANGED scan, dirp'[Scan] = dirp[Scan], given'[Scan] = given[Scan],
         stable'[Scan] \subseteq stable[Scan]
  PROVE  ScanInv'
BY DEF ScanInv, OwnSlots, Kept

\* No handle is closed that is not open.
LEMMA NotClosedTwice ==
  ASSUME DirectoryAssumption, DirectoryTyped, HandlesOwned, NEW s \in D!Users
  PROVE  ~D!ClosedTwice(s)
<1>1. dirp[s].handle # 0 => dirp[s].handle \in Handles
  BY DEF DirectoryTyped, Stream, D!INVALID_HANDLE_VALUE
<1> QED BY <1>1 DEF D!ClosedTwice, D!Open, D!INVALID_HANDLE_VALUE, HandlesOwned

LEMMA UsersAre == DirectoryAssumption => /\ Scan \in D!Users
                                         /\ \A s \in Streams : s \in D!Users /\ s # Scan
  BY DEF DirectoryAssumption, D!ScanAssumption, D!Users

\* A stream that has nothing is like one that was never opened.
LEMMA NothingToGive ==
  ASSUME DirectoryAssumption
  PROVE  /\ D!NoStream \in Stream /\ D!NoStream.handle = 0 /\ D!NoStream.state = "none"
         /\ <<>> \in Seq(D!Entry)
         /\ \A g, st : (\A j, k \in DOMAIN g : j < k => g[j].file < g[k].file)
                         => Progress(D!NoStream, g, st)
         /\ \A st : Progress(D!NoStream, <<>>, st)
<1>1. /\ D!NoStream \in Stream /\ D!NoStream.handle = 0 /\ D!NoStream.state = "none"
      /\ D!NoStream.cached = 0
  BY DEF D!NoStream, Stream, DirectoryAssumption, D!NAssumption, D!INVALID_HANDLE_VALUE
<1>2. \A g, st : (\A j, k \in DOMAIN g : j < k => g[j].file < g[k].file)
                  => Progress(D!NoStream, g, st)
  BY <1>1 DEF Progress
<1>3. DOMAIN <<>> = {}
  OBVIOUS
<1>4. \A st : Progress(D!NoStream, <<>>, st)
  BY <1>2, <1>3
<1> QED BY <1>1, <1>2, <1>4

-----------------------------------------------------------------------------
\* opendir, also that of scandir.
LEMMA OpenStep ==
  ASSUME DirectoryAssumption, DInv, NEW s \in D!Users, NEW wide \in BOOLEAN, NEW fail \in D!Failures,
         D!_wopendir(s, wide, fail), scan' \in ScanType, UNCHANGED <<present, fault>>
  PROVE  /\ DirectoryTyped' /\ HandlesOwned' /\ StreamsInv'
         /\ ScanBlocks' = ScanBlocks => HeapInv'
         /\ \A r \in D!Users \ {s} : UNCHANGED <<dirp[r], given[r], stable[r]>>
         /\ \/ dirp'[s].state = "open" /\ dirp'[s].wide = wide /\ given'[s] = <<>>
            \/ dirp'[s].state = "none" /\ UNCHANGED <<dirp, given, stable>>
<1>1. CASE UNCHANGED <<dirp, search, heap, given, stable>>
  <2>1. DirectoryTyped' /\ HandlesOwned' /\ StreamsInv'
    BY <1>1 DEF DInv, DirectoryTyped, HandlesOwned, StreamsInv
  <2>2. \A r \in D!Users : StreamBlocks(r)' = StreamBlocks(r)
    BY <1>1 DEF StreamBlocks
  <2>3. ScanBlocks' = ScanBlocks => HeapInv'
    BY <1>1, <2>2 DEF DInv, HeapInv
  <2>4. dirp'[s].state = "none"
    BY <1>1 DEF D!_wopendir
  <2> QED BY <1>1, <2>1, <2>3, <2>4
<1>2. CASE ~UNCHANGED <<dirp, search, heap, given, stable>>
  <2> DEFINE d0 == [D!NoStream EXCEPT !.state = "open", !.wide = wide]
             d == D!dirent_first(d0)
             e == [d EXCEPT !.state = "open"]
  <2>1. /\ dirp[s].state = "none" /\ \E h \in Handles : search[h] = D!Unused
        /\ dirp' = [dirp EXCEPT ![s] = d] /\ search' = D!Searches(D!NoStream, d)
        /\ heap' = heap \cup D!Blocks(s, wide) /\ given' = [given EXCEPT ![s] = <<>>]
        /\ stable' = [stable EXCEPT ![s] = present]
    BY <1>2 DEF D!_wopendir
  <2>2. d0 \in Stream /\ d0.wide = wide /\ d0.state = "open"
    BY NothingToGive DEF Stream
  <2> HIDE DEF d0
  <2>3. d = e
    BY <2>2 DEF D!dirent_first, Stream
  <2>4. /\ e \in Stream /\ e.wide = wide /\ e.state = "open"
        /\ e.handle # 0 => e.data # 0 /\ search[e.handle] = D!Unused
        /\ Progress(e, <<>>, present)
    BY <2>1, <2>2, FirstStep DEF DInv
  <2> HIDE DEF d, e
  <2>5. dirp[s].handle = 0
    BY <2>1 DEF DInv, StreamsInv, Progress
  <2>6. DirectoryTyped' /\ HandlesOwned' /\ StreamsInv'
    <3>1. D!NoStream.handle = dirp[s].handle /\ <<>> \in Seq(D!Entry)
      BY <2>5, NothingToGive
    <3> QED BY <2>1, <2>3, <2>4, <3>1, StreamStep DEF DInv
  <2>7. /\ dirp'[s] = e /\ given'[s] = <<>>
        /\ \A r \in D!Users \ {s} : UNCHANGED <<dirp[r], given[r], stable[r]>>
    BY <2>1, <2>3 DEF DInv, DirectoryTyped
  <2>8. ASSUME ScanBlocks' = ScanBlocks  PROVE HeapInv'
    <3>1. StreamBlocks(s) = {} /\ StreamBlocks(s)' = D!Blocks(s, wide)
      BY <2>1, <2>4, <2>7 DEF StreamBlocks
    <3>2. \A r \in D!Users \ {s} : StreamBlocks(r)' = StreamBlocks(r)
      BY <2>7 DEF StreamBlocks
    <3>3. heap' = (heap \ StreamBlocks(s)) \cup StreamBlocks(s)'
      BY <2>1, <3>1
    <3> QED BY <2>8, <3>2, <3>3, StreamHeap DEF DInv
  <2> QED BY <2>4, <2>6, <2>7, <2>8
<1> QED BY <1>1, <1>2

\* What scandir does not touch leaves its blocks.
LEMMA SameScanBlocks == UNCHANGED scan => ScanBlocks' = ScanBlocks
  BY DEF ScanBlocks, TableBlocks

LEMMA opendirStep ==
  ASSUME DirectoryAssumption, DInv, NEW s \in Streams, D!opendir(s)
  PROVE  DInv'
<1>1. PICK wide \in BOOLEAN, fail \in D!Failures : D!_wopendir(s, wide, fail)
  BY DEF D!opendir
<1>2. UNCHANGED <<present, changes, fault, scan>> /\ scan' \in ScanType
  BY DEF D!opendir, DInv, DirectoryTyped
<1>3. s \in D!Users /\ s # Scan /\ Scan \in D!Users
  BY UsersAre
<1>4. /\ DirectoryTyped' /\ HandlesOwned' /\ StreamsInv' /\ HeapInv'
      /\ UNCHANGED <<dirp[Scan], given[Scan], stable[Scan]>>
  BY <1>1, <1>2, <1>3, OpenStep, SameScanBlocks
<1>5. ScanInv'
  BY <1>2, <1>4, ScanKept DEF DInv
<1> QED BY <1>4, <1>5 DEF DInv

\* readdir_r, also that of scandir.
LEMMA ReadStep ==
  ASSUME DirectoryAssumption, DInv, NEW s \in D!Users, dirp[s].state # "none", D!readdir_r(s),
         scan' \in ScanType, UNCHANGED <<present, fault, heap, stable>>
  PROVE  /\ DirectoryTyped' /\ HandlesOwned' /\ StreamsInv'
         /\ ScanBlocks' = ScanBlocks => HeapInv'
         /\ \A r \in D!Users : StreamBlocks(r)' = StreamBlocks(r)
         /\ \A r \in D!Users \ {s} : UNCHANGED <<dirp[r], given[r]>>
         /\ dirp'[s].wide = dirp[s].wide
         /\ IF dirp'[s].data = 0 THEN dirp'[s].state = "ended" /\ given'[s] = given[s]
            ELSE /\ dirp'[s].state = "open" /\ dirp'[s].data \in D!Names
                 /\ \A k \in DOMAIN given[s] : given[s][k].file < dirp'[s].data
                 /\ D!Files(given'[s]) = D!Files(given[s]) \cup {dirp'[s].data}
<1> DEFINE d == D!dirent_next(dirp[s])
           e == [d EXCEPT !.state = IF d.data = 0 THEN "ended" ELSE "open"]
           g == IF d.data = 0 THEN given[s] ELSE Append(given[s], D!EntryOf(d.data, d.wide))
<1>1. /\ dirp' = [dirp EXCEPT ![s] = e] /\ search' = D!Searches(dirp[s], d)
      /\ given' = IF d.data = 0 THEN given
                  ELSE [given EXCEPT ![s] = Append(@, D!EntryOf(d.data, d.wide))]
  BY DEF D!readdir_r
<1>2. /\ e \in Stream /\ e.wide = dirp[s].wide /\ e.data = d.data
      /\ e.state = IF d.data = 0 THEN "ended" ELSE "open"
      /\ e.handle # 0 => e.data # 0 /\ e.handle = dirp[s].handle
      /\ e.handle = d.handle /\ d.wide = dirp[s].wide
      /\ e.data # 0 => /\ e.data \in D!Names
                       /\ \A k \in DOMAIN given[s] : given[s][k].file < e.data
      /\ g \in Seq(D!Entry) /\ Progress(e, g, stable[s])
  BY NextStep DEF DInv
<1> HIDE DEF d, e
<1>3. given' = [given EXCEPT ![s] = g] /\ stable' = [stable EXCEPT ![s] = stable[s]]
  BY <1>1 DEF DInv, DirectoryTyped
<1>4. search' = D!Searches(dirp[s], e)
  BY <1>1, <1>2 DEF D!Searches
<1>5. d.data # 0 => D!Files(g) = D!Files(given[s]) \cup {d.data}
  <2> SUFFICES ASSUME d.data # 0  PROVE D!Files(g) = D!Files(given[s]) \cup {d.data}
    OBVIOUS
  <2> DEFINE x == D!EntryOf(d.data, d.wide)
             q == given[s]
  <2>1. x \in D!Entry /\ x.file = d.data
    <3>1. d.data \in D!Names /\ d.wide \in BOOLEAN
      BY <1>2 DEF Stream
    <3> QED BY <3>1, EntryNames
  <2>2. q \in Seq(D!Entry) /\ g = Append(q, x)
    BY DEF DInv, DirectoryTyped
  <2> HIDE DEF x, q, g
  <2>3. /\ DOMAIN g = DOMAIN q \cup {Len(q) + 1} /\ g[Len(q) + 1] = x
        /\ \A k \in DOMAIN q : g[k] = q[k]
    BY <2>1, <2>2
  <2> QED BY <2>1, <2>3 DEF D!Files, q
<1> HIDE DEF g
<1>6. DirectoryTyped' /\ HandlesOwned' /\ StreamsInv'
  <2> DEFINE c == dirp[s]
             st == stable[s]
  <2>1. /\ st \subseteq present /\ DirectoryTyped /\ HandlesOwned /\ StreamsInv
        /\ UNCHANGED <<present, fault>>
    BY DEF DInv, StreamsInv
  <2>2. /\ dirp' = [dirp EXCEPT ![s] = e] /\ given' = [given EXCEPT ![s] = g]
        /\ stable' = [stable EXCEPT ![s] = st]
        /\ e.handle # 0 => /\ e.data # 0
                           /\ e.handle = dirp[s].handle \/ search[e.handle] = D!Unused
    BY <1>1, <1>2, <1>3
  <2>3. c.handle = dirp[s].handle /\ search' = D!Searches(c, e)
    BY <1>4
  <2>4. e \in Stream /\ g \in Seq(D!Entry) /\ Progress(e, g, st)
    BY <1>2
  <2> HIDE DEF c, st
  <2> QED BY <2>1, <2>2, <2>3, <2>4, StreamStep
<1>7. /\ dirp'[s] = e /\ given'[s] = g
      /\ \A r \in D!Users \ {s} : UNCHANGED <<dirp[r], given[r]>>
  BY <1>1, <1>3 DEF DInv, DirectoryTyped
<1>8. \A r \in D!Users : StreamBlocks(r)' = StreamBlocks(r)
  <2>1. StreamBlocks(s)' = StreamBlocks(s)
    BY <1>2, <1>7 DEF StreamBlocks
  <2> QED BY <1>7, <2>1 DEF StreamBlocks
<1>9. ScanBlocks' = ScanBlocks => HeapInv'
  BY <1>8 DEF DInv, HeapInv
<1>10. d.data = 0 => g = given[s]
  BY DEF g
<1> QED BY <1>2, <1>5, <1>6, <1>7, <1>8, <1>9, <1>10

LEMMA readdirStep ==
  ASSUME DirectoryAssumption, DInv, NEW s \in Streams, D!readdir(s)
  PROVE  DInv'
<1>1. /\ dirp[s].state # "none" /\ D!readdir_r(s)
      /\ UNCHANGED <<present, changes, heap, fault, scan, stable>> /\ scan' \in ScanType
  BY DEF D!readdir, DInv, DirectoryTyped
<1>2. s \in D!Users /\ s # Scan /\ Scan \in D!Users
  BY UsersAre
<1>3. /\ DirectoryTyped' /\ HandlesOwned' /\ StreamsInv' /\ HeapInv'
      /\ UNCHANGED <<dirp[Scan], given[Scan]>>
  BY <1>1, <1>2, ReadStep, SameScanBlocks
<1>4. ScanInv'
  BY <1>1, <1>3, ScanKept DEF DInv
<1> QED BY <1>3, <1>4 DEF DInv

LEMMA rewinddirStep ==
  ASSUME DirectoryAssumption, DInv, NEW s \in Streams, D!rewinddir(s)
  PROVE  DInv'
<1> DEFINE d == D!dirent_first(dirp[s])
           e == [d EXCEPT !.state = "open"]
<1>1. /\ dirp[s].state # "none" /\ \E h \in Handles : search[h] = D!Unused
      /\ dirp' = [dirp EXCEPT ![s] = e] /\ search' = D!Searches(dirp[s], d)
      /\ fault' = (fault \/ D!ClosedTwice(s)) /\ given' = [given EXCEPT ![s] = <<>>]
      /\ stable' = [stable EXCEPT ![s] = present] /\ UNCHANGED <<present, changes, heap, scan>>
  BY DEF D!rewinddir
<1>2. s \in D!Users /\ s # Scan /\ Scan \in D!Users
  BY UsersAre
<1>3. dirp[s] \in Stream
  BY <1>2 DEF DInv, DirectoryTyped
<1>4. /\ e \in Stream /\ e.wide = dirp[s].wide /\ e.state = "open"
      /\ e.handle # 0 => e.data # 0 /\ search[e.handle] = D!Unused
      /\ Progress(e, <<>>, present)
  BY <1>1, <1>3, FirstStep DEF DInv
<1>5. e.handle = d.handle /\ e.data = d.data
  <2>1. \/ d = [dirp[s] EXCEPT !.handle = 0, !.cached = 0]
        \/ \E h, n : d = [dirp[s] EXCEPT !.handle = h, !.cached = 1, !.data = n]
    BY DEF D!dirent_first, D!INVALID_HANDLE_VALUE
  <2> HIDE DEF d
  <2> QED BY <1>3, <2>1 DEF Stream
<1> HIDE DEF d, e
<1>6. search' = D!Searches(dirp[s], e)
  BY <1>1, <1>5 DEF D!Searches
<1>7. UNCHANGED fault
  BY <1>1, <1>2, NotClosedTwice DEF DInv, DirectoryTyped
<1>8. DirectoryTyped' /\ HandlesOwned' /\ StreamsInv'
  <2>1. /\ scan' \in ScanType /\ <<>> \in Seq(D!Entry) /\ present \subseteq present
        /\ UNCHANGED <<present, fault>>
    BY <1>1, <1>7 DEF DInv, DirectoryTyped
  <2>2. DirectoryTyped /\ HandlesOwned /\ StreamsInv
    BY DEF DInv
  <2>3. /\ dirp' = [dirp EXCEPT ![s] = e] /\ given' = [given EXCEPT ![s] = <<>>]
        /\ stable' = [stable EXCEPT ![s] = present]
        /\ e.handle # 0 => /\ e.data # 0
                           /\ e.handle = dirp[s].handle \/ search[e.handle] = D!Unused
    BY <1>1, <1>4
  <2> DEFINE c == dirp[s]
  <2>4. c.handle = dirp[s].handle /\ search' = D!Searches(c, e)
    BY <1>6
  <2> HIDE DEF c
  <2> QED BY <1>2, <1>4, <2>1, <2>2, <2>3, <2>4, StreamStep
<1>9. /\ dirp'[s] = e /\ \A r \in D!Users \ {s} : UNCHANGED <<dirp[r], given[r], stable[r]>>
  BY <1>1, <1>2 DEF DInv, DirectoryTyped
<1>10. HeapInv'
  <2>1. StreamBlocks(s)' = StreamBlocks(s)
    BY <1>1, <1>4, <1>9 DEF StreamBlocks
  <2>2. \A r \in D!Users : StreamBlocks(r)' = StreamBlocks(r)
    BY <1>9, <2>1 DEF StreamBlocks
  <2> QED BY <1>1, <2>2, SameScanBlocks DEF DInv, HeapInv
<1>11. ScanInv'
  BY <1>1, <1>2, <1>9, ScanKept DEF DInv
<1> QED BY <1>8, <1>10, <1>11 DEF DInv

LEMMA closedirStep ==
  ASSUME DirectoryAssumption, DInv, NEW s \in Streams, D!closedir(s)
  PROVE  DInv'
<1>1. /\ dirp[s].state # "none" /\ search' = D!Searches(dirp[s], D!NoStream)
      /\ dirp' = [dirp EXCEPT ![s] = D!NoStream] /\ heap' = heap \ D!Blocks(s, dirp[s].wide)
      /\ fault' = (fault \/ D!ClosedTwice(s)) /\ given' = [given EXCEPT ![s] = <<>>]
      /\ stable' = [stable EXCEPT ![s] = {}] /\ UNCHANGED <<present, changes, scan>>
  BY DEF D!closedir
<1>2. s \in D!Users /\ s # Scan /\ Scan \in D!Users
  BY UsersAre
<1>3. UNCHANGED fault
  BY <1>1, <1>2, NotClosedTwice DEF DInv, DirectoryTyped
<1>4. DirectoryTyped' /\ HandlesOwned' /\ StreamsInv'
  <2>1. /\ scan' \in ScanType /\ <<>> \in Seq(D!Entry) /\ D!NoStream \in Stream
        /\ D!NoStream.handle = 0 /\ Progress(D!NoStream, <<>>, {})
    BY <1>1, NothingToGive DEF DInv, DirectoryTyped
  <2> QED BY <1>1, <1>2, <1>3, <2>1, StreamStep DEF DInv
<1>5. /\ dirp'[s] = D!NoStream
      /\ \A r \in D!Users \ {s} : UNCHANGED <<dirp[r], given[r], stable[r]>>
  BY <1>1, <1>2 DEF DInv, DirectoryTyped
<1>6. HeapInv'
  <2>1. StreamBlocks(s) = D!Blocks(s, dirp[s].wide) /\ StreamBlocks(s)' = {}
    BY <1>1, <1>5, NothingToGive DEF StreamBlocks
  <2>2. \A r \in D!Users \ {s} : StreamBlocks(r)' = StreamBlocks(r)
    BY <1>5 DEF StreamBlocks
  <2>3. heap' = (heap \ StreamBlocks(s)) \cup StreamBlocks(s)'
    BY <1>1, <2>1
  <2> QED BY <1>1, <1>2, <2>2, <2>3, StreamHeap, SameScanBlocks DEF DInv
<1>7. ScanInv'
  BY <1>1, <1>2, <1>5, ScanKept DEF DInv
<1> QED BY <1>4, <1>6, <1>7 DEF DInv

\* A file comes or goes: fewer files are there all the time.
LEMMA ChangeStep ==
  ASSUME DirectoryAssumption, DInv, D!ChangeDirectory
  PROVE  DInv'
<1>1. /\ \E n \in D!Names : present' = IF n \in present THEN present \ {n} ELSE present \cup {n}
      /\ stable' = [s \in D!Users |-> stable[s] \cap present']
      /\ UNCHANGED <<search, heap, fault, dirp, scan, given>>
  BY DEF D!ChangeDirectory
<1>2. DirectoryTyped'
  BY <1>1 DEF DInv, DirectoryTyped
<1>3. HandlesOwned'
  BY <1>1 DEF DInv, HandlesOwned
<1>4. \A s \in D!Users : stable'[s] \subseteq stable[s] /\ stable'[s] \subseteq present'
  BY <1>1
<1>5. \A d, g, st, less : Progress(d, g, st) /\ less \subseteq st => Progress(d, g, less)
  BY DEF Progress
<1>6. StreamsInv'
  BY <1>1, <1>4, <1>5 DEF DInv, StreamsInv
<1>7. ScanInv'
  <2>1. Scan \in D!Users
    BY UsersAre
  <2> QED BY <1>1, <1>4, <2>1, ScanKept DEF DInv
<1>8. HeapInv'
  <2>1. \A r \in D!Users : StreamBlocks(r)' = StreamBlocks(r)
    BY <1>1 DEF StreamBlocks
  <2> QED BY <1>1, <2>1, SameScanBlocks DEF DInv, HeapInv
<1> QED BY <1>2, <1>3, <1>6, <1>7, <1>8 DEF DInv

-----------------------------------------------------------------------------
\* scandir allocates.
LEMMA ScanHeap ==
  ASSUME HeapInv, UNCHANGED dirp, NEW A, ScanBlocks' = ScanBlocks \cup A, heap' = heap \cup A
  PROVE  HeapInv'
<1>1. \A r \in D!Users : StreamBlocks(r)' = StreamBlocks(r)
  BY DEF StreamBlocks
<1>2. \A b : b \in heap' <=> b \in ScanBlocks' \/ \E r \in D!Users : b \in StreamBlocks(r)'
  BY <1>1 DEF HeapInv
<1> QED BY <1>2 DEF HeapInv

\* The locals of scandir change and no stream does.
LEMMA ScanOnly ==
  ASSUME DInv, scan' \in ScanType,
         UNCHANGED <<present, changes, search, fault, dirp, given, stable>>
  PROVE  DirectoryTyped' /\ HandlesOwned' /\ StreamsInv'
BY DEF DInv, DirectoryTyped, HandlesOwned, StreamsInv

\* After a failure scandir only has to release what it has.
LEMMA ScanFails ==
  ASSUME DInv, UNCHANGED <<dirp, heap>>, scan.at \notin {"idle", "returned"},
         scan' = [scan EXCEPT !.at = "cleanup", !.result = -1]
  PROVE  scan' \in ScanType /\ ScanInv' /\ HeapInv'
<1>1. scan \in ScanType
  BY DEF DInv, DirectoryTyped
<1>2. /\ scan' \in ScanType /\ scan'.at = "cleanup" /\ scan'.result = -1
      /\ scan'.files = scan.files /\ scan'.allocated = scan.allocated /\ scan'.tmp = scan.tmp
  <2> DEFINE r == -1
  <2>1. r \in Int /\ scan' = [scan EXCEPT !.at = "cleanup", !.result = r]
    OBVIOUS
  <2> HIDE DEF r
  <2>2. /\ scan' \in ScanType /\ scan'.at = "cleanup" /\ scan'.result = r
        /\ scan'.files = scan.files /\ scan'.allocated = scan.allocated /\ scan'.tmp = scan.tmp
    BY <1>1, <2>1 DEF ScanType
  <2> QED BY <2>2 DEF r
<1>3. ScanInv'
  BY <1>2 DEF DInv, ScanInv, OwnSlots
<1>4. ScanBlocks' = ScanBlocks
  BY <1>2 DEF ScanBlocks, TableBlocks
<1>5. \A r \in D!Users : StreamBlocks(r)' = StreamBlocks(r)
  BY DEF StreamBlocks
<1> QED BY <1>2, <1>3, <1>4, <1>5 DEF DInv, HeapInv

LEMMA ScanOpenStep ==
  ASSUME DirectoryAssumption, DInv, D!ScanOpen
  PROVE  DInv'
<1>1. PICK fail \in D!Failures : D!_wopendir(Scan, FALSE, fail)
  BY DEF D!ScanOpen
<1>2. /\ scan = D!NoScan /\ UNCHANGED <<present, changes, fault>>
      /\ scan' = IF dirp'[Scan].state = "open" THEN [scan EXCEPT !.at = "enlarge"]
                 ELSE [scan EXCEPT !.at = "cleanup", !.result = -1]
  BY DEF D!ScanOpen, DInv, ScanInv
<1>3. /\ scan.files = <<>> /\ scan.allocated = 0 /\ scan.tmp = 0 /\ scan.result = 0
      /\ scan \in ScanType /\ DOMAIN <<>> = {} /\ Len(<<>>) = 0
  BY <1>2 DEF D!NoScan, DInv, DirectoryTyped
<1>4. /\ scan' \in ScanType /\ scan'.files = <<>> /\ scan'.allocated = 0 /\ scan'.tmp = 0
      /\ IF dirp'[Scan].state = "open" THEN scan'.at = "enlarge" /\ scan'.result = 0
         ELSE scan'.at = "cleanup" /\ scan'.result = -1
  <2> DEFINE r == -1
  <2>1. r \in Int
    OBVIOUS
  <2>2. scan' = IF dirp'[Scan].state = "open" THEN [scan EXCEPT !.at = "enlarge"]
                ELSE [scan EXCEPT !.at = "cleanup", !.result = r]
    BY <1>2
  <2> HIDE DEF r
  <2>3. /\ scan' \in ScanType /\ scan'.files = <<>> /\ scan'.allocated = 0 /\ scan'.tmp = 0
        /\ IF dirp'[Scan].state = "open" THEN scan'.at = "enlarge" /\ scan'.result = 0
           ELSE scan'.at = "cleanup" /\ scan'.result = r
    BY <1>3, <2>1, <2>2 DEF ScanType
  <2> QED BY <2>3 DEF r
<1>5. ScanBlocks = {} /\ ScanBlocks' = {}
  BY <1>3, <1>4 DEF ScanBlocks, TableBlocks
<1>6. /\ DirectoryTyped' /\ HandlesOwned' /\ StreamsInv' /\ HeapInv'
      /\ \/ dirp'[Scan].state = "open" /\ dirp'[Scan].wide = FALSE /\ given'[Scan] = <<>>
         \/ dirp'[Scan].state = "none" /\ UNCHANGED <<dirp, given, stable>>
  <2>1. FALSE \in BOOLEAN /\ Scan \in D!Users
    BY UsersAre
  <2> QED BY <1>1, <1>2, <1>4, <1>5, <2>1, OpenStep
<1>7. ScanInv'
  BY <1>3, <1>4, <1>6 DEF ScanInv, OwnSlots, Kept, D!Files
<1> QED BY <1>6, <1>7 DEF DInv

LEMMA ScanEnlargeStep ==
  ASSUME DirectoryAssumption, DInv, D!ScanEnlarge
  PROVE  DInv'
<1>1. /\ scan.at = "enlarge" /\ UNCHANGED <<present, changes, search, fault, dirp, given, stable>>
      /\ scan \in ScanType /\ Len(scan.files) \in Nat
  BY DEF D!ScanEnlarge, DInv, DirectoryTyped, ScanType
<1>2. CASE scan' = [scan EXCEPT !.at = "tmp"] /\ UNCHANGED heap /\ Len(scan.files) < scan.allocated
  <2>1. /\ scan' \in ScanType /\ scan'.at = "tmp" /\ scan'.result = scan.result
        /\ scan'.files = scan.files /\ scan'.allocated = scan.allocated /\ scan'.tmp = scan.tmp
    BY <1>1, <1>2 DEF ScanType
  <2>2. ScanInv'
    BY <1>1, <1>2, <2>1 DEF DInv, ScanInv, OwnSlots, Kept
  <2>3. ScanBlocks' = ScanBlocks \cup {} /\ heap' = heap \cup {}
    BY <1>1, <1>2, <2>1 DEF ScanBlocks, TableBlocks
  <2>4. HeapInv'
    BY <1>1, <2>3, ScanHeap DEF DInv
  <2> QED BY <1>1, <2>1, <2>2, <2>4, ScanOnly DEF DInv
<1>3. CASE /\ scan' = [scan EXCEPT !.at = "tmp",
                                   !.allocated = IF Len(scan.files) < D!init_size THEN D!init_size
                                                 ELSE Len(scan.files) * 2]
           /\ heap' = heap \cup {<<"files", Scan>>}
  <2> DEFINE a == IF Len(scan.files) < D!init_size THEN D!init_size ELSE Len(scan.files) * 2
  <2>1. a \in Nat /\ a # 0 /\ Len(scan.files) < a
    BY <1>1 DEF D!init_size
  <2>2. scan' = [scan EXCEPT !.at = "tmp", !.allocated = a]
    BY <1>3
  <2> HIDE DEF a
  <2>3. /\ scan' \in ScanType /\ scan'.at = "tmp" /\ scan'.result = scan.result
        /\ scan'.files = scan.files /\ scan'.allocated = a /\ scan'.tmp = scan.tmp
    BY <1>1, <2>1, <2>2 DEF ScanType
  <2>4. ScanInv'
    BY <1>1, <2>1, <2>3 DEF DInv, ScanInv, OwnSlots, Kept
  <2>5. ScanBlocks' = ScanBlocks \cup {<<"files", Scan>>}
    BY <1>1, <2>1, <2>3 DEF ScanBlocks, TableBlocks
  <2>6. HeapInv'
    BY <1>1, <1>3, <2>5, ScanHeap DEF DInv
  <2> QED BY <1>1, <2>3, <2>4, <2>6, ScanOnly DEF DInv
<1>4. CASE scan' = D!OutOfMemory /\ UNCHANGED heap
  BY <1>1, <1>4, ScanFails, ScanOnly DEF DInv, D!OutOfMemory
<1> QED BY <1>2, <1>3, <1>4 DEF D!ScanEnlarge

\* The table has at most one block for a name, so one of N + 1 is left.
LEMMA FreshBlock ==
  ASSUME DirectoryAssumption, DInv, scan.at = "tmp", scan.tmp = 0
  PROVE  D!FreshTmp \in 1 .. N + 1 /\ <<"tmp", D!FreshTmp>> \notin heap
<1> SUFFICES ASSUME \A k \in 1 .. N + 1 : <<"tmp", k>> \in heap  PROVE FALSE
  BY DEF D!FreshTmp
<1>1. N \in Nat /\ scan \in ScanType
  BY DEF DInv, DirectoryTyped, DirectoryAssumption, D!NAssumption
<1>2. \A k \in DOMAIN scan.files : scan.files[k] \in Slot
  BY <1>1 DEF ScanType
<1>3. ASSUME NEW k \in 1 .. N + 1  PROVE \E j \in DOMAIN scan.files : scan.files[j].block = k
  <2>1. \A s \in D!Users : <<"tmp", k>> \notin StreamBlocks(s)
    BY BlocksApart DEF StreamBlocks
  <2>2. <<"tmp", k>> \in ScanBlocks
    BY <1>3, <2>1 DEF DInv, HeapInv
  <2> QED BY <2>2 DEF ScanBlocks, TableBlocks
<1> DEFINE slot(k) == CHOOSE j \in DOMAIN scan.files : scan.files[j].block = k
           f == [k \in 1 .. N + 1 |-> scan.files[slot(k)].e.file]
<1>4. \A k \in 1 .. N + 1 : slot(k) \in DOMAIN scan.files /\ scan.files[slot(k)].block = k
  BY <1>3
<1> HIDE DEF slot
<1>5. f \in [1 .. N + 1 -> 1 .. N]
  BY <1>2, <1>4 DEF Slot, D!Entry, D!Names
<1>6. \A j, k \in 1 .. N + 1 : j # k => f[j] # f[k]
  <2>1. \A j, k \in DOMAIN scan.files : j # k => scan.files[j].e.file # scan.files[k].e.file
    BY DEF DInv, ScanInv
  <2> QED BY <1>4, <2>1
<1> HIDE DEF f
<1>7. IsFiniteSet(1 .. N + 1) /\ Cardinality(1 .. N + 1) = N + 1
  <2>1. 1 \in Int /\ N + 1 \in Int /\ N + 1 >= 1
    BY <1>1
  <2>2. IsFiniteSet(1 .. N + 1) /\ Cardinality(1 .. N + 1) = (N + 1) - 1 + 1
    BY <2>1, FS_Interval
  <2> QED BY <1>1, <2>2
<1>8. IsFiniteSet(1 .. N) /\ Cardinality(1 .. N) = N
  <2>1. 1 \in Int /\ N \in Int
    BY <1>1
  <2>2. IsFiniteSet(1 .. N) /\ Cardinality(1 .. N) = IF 1 > N THEN 0 ELSE N - 1 + 1
    BY <2>1, FS_Interval
  <2> QED BY <1>1, <2>2
<1>9. \E j, k \in 1 .. N + 1 : j # k /\ f[j] = f[k]
  <2> DEFINE S == 1 .. N + 1
             T == 1 .. N
  <2>1. IsFiniteSet(S) /\ IsFiniteSet(T) /\ Cardinality(T) < Cardinality(S) /\ f \in [S -> T]
    BY <1>1, <1>5, <1>7, <1>8
  <2> HIDE DEF S, T
  <2>2. \E j, k \in S : j # k /\ f[j] = f[k]
    BY <2>1, FS_PigeonHole
  <2> QED BY <2>2 DEF S
<1> QED BY <1>6, <1>9

LEMMA ScanTmpStep ==
  ASSUME DirectoryAssumption, DInv, D!ScanTmp
  PROVE  DInv'
<1>1. /\ scan.at = "tmp" /\ UNCHANGED <<present, changes, search, fault, dirp, given, stable>>
      /\ scan \in ScanType
  BY DEF D!ScanTmp, DInv, DirectoryTyped
<1>2. CASE scan.tmp # 0 /\ scan' = [scan EXCEPT !.at = "read"] /\ UNCHANGED heap
  <2>1. /\ scan' \in ScanType /\ scan'.at = "read" /\ scan'.result = scan.result
        /\ scan'.files = scan.files /\ scan'.allocated = scan.allocated /\ scan'.tmp = scan.tmp
    BY <1>1, <1>2 DEF ScanType
  <2>2. ScanInv'
    BY <1>1, <1>2, <2>1 DEF DInv, ScanInv, OwnSlots, Kept
  <2>3. ScanBlocks' = ScanBlocks \cup {} /\ heap' = heap \cup {}
    BY <1>1, <1>2, <2>1 DEF ScanBlocks, TableBlocks
  <2>4. HeapInv'
    BY <1>1, <2>3, ScanHeap DEF DInv
  <2> QED BY <1>1, <2>1, <2>2, <2>4, ScanOnly DEF DInv
<1>3. CASE /\ scan.tmp = 0 /\ scan' = [scan EXCEPT !.at = "read", !.tmp = D!FreshTmp]
           /\ heap' = heap \cup {<<"tmp", D!FreshTmp>>}
  <2> DEFINE k == D!FreshTmp
  <2>1. k \in 1 .. N + 1 /\ <<"tmp", k>> \notin heap
    BY <1>1, <1>3, FreshBlock
  <2>2. scan' = [scan EXCEPT !.at = "read", !.tmp = k] /\ heap' = heap \cup {<<"tmp", k>>}
    BY <1>3
  <2> HIDE DEF k
  <2>3. k \in 0 .. N + 1 /\ k # 0
    BY <2>1 DEF DirectoryAssumption, D!NAssumption
  <2>4. /\ scan' \in ScanType /\ scan'.at = "read" /\ scan'.result = scan.result
        /\ scan'.files = scan.files /\ scan'.allocated = scan.allocated /\ scan'.tmp = k
    BY <1>1, <2>2, <2>3 DEF ScanType
  <2>5. \A j \in DOMAIN scan.files : scan.files[j].block # k
    BY <2>1 DEF DInv, HeapInv, ScanBlocks
  <2>6. ScanInv'
    BY <1>1, <2>3, <2>4, <2>5 DEF DInv, ScanInv, OwnSlots, Kept
  <2>7. ScanBlocks' = ScanBlocks \cup {<<"tmp", k>>}
    BY <1>1, <1>3, <2>3, <2>4 DEF ScanBlocks, TableBlocks
  <2>8. HeapInv'
    BY <1>1, <2>2, <2>7, ScanHeap DEF DInv
  <2> QED BY <1>1, <2>4, <2>6, <2>8, ScanOnly DEF DInv
<1>4. CASE scan' = D!OutOfMemory /\ UNCHANGED heap
  BY <1>1, <1>4, ScanFails, ScanOnly DEF DInv, D!OutOfMemory
<1> QED BY <1>2, <1>3, <1>4 DEF D!ScanTmp

\* Sorting puts the same slots into another order.
LEMMA SortingOf ==
  ASSUME NEW q \in Seq(Slot), NEW r \in D!Sortings(q)
  PROVE  /\ r \in Seq(Slot) /\ Len(r) = Len(q) /\ DOMAIN r = DOMAIN q
         /\ {r[k] : k \in DOMAIN r} = {q[k] : k \in DOMAIN q}
         /\ \E p : /\ \A k \in DOMAIN q : p[k] \in DOMAIN q /\ r[k] = q[p[k]]
                   /\ \A j, k \in DOMAIN q : j # k => p[j] # p[k]
         /\ \A j, k \in DOMAIN r : j < k => D!InOrder(r[j], r[k])
<1>1. PICK p \in D!Bijection(DOMAIN q, DOMAIN q) : r = [k \in DOMAIN q |-> q[p[k]]]
  BY DEF D!Sortings
<1>2. \A j, k \in DOMAIN r : j < k => D!InOrder(r[j], r[k])
  BY DEF D!Sortings
<1> DEFINE S == DOMAIN q
<1>3. S = 1 .. Len(q) /\ Len(q) \in Nat /\ \A k \in S : q[k] \in Slot
  OBVIOUS
<1> HIDE DEF S
<1>4. /\ p \in [S -> S] /\ \A j, k \in S : j # k => p[j] # p[k]
      /\ \A k \in S : \E j \in S : p[j] = k
  BY <1>1 DEF D!Bijection, D!Injection, D!Surjection, D!IsInjective, S
<1>5. DOMAIN r = S /\ \A k \in S : r[k] = q[p[k]] /\ r[k] \in Slot
  BY <1>1, <1>3, <1>4 DEF S
<1>6. r \in Seq(Slot) /\ Len(r) = Len(q)
  <2>1. r \in [1 .. Len(q) -> Slot]
    BY <1>1, <1>3, <1>5 DEF S
  <2> QED BY <1>3, <2>1, SeqDef
<1>7. {r[k] : k \in DOMAIN r} = {q[k] : k \in DOMAIN q}
  BY <1>4, <1>5 DEF S
<1> QED BY <1>2, <1>4, <1>5, <1>6, <1>7 DEF S

LEMMA ScanReadStep ==
  ASSUME DirectoryAssumption, DInv, D!ScanRead
  PROVE  DInv'
<1> DEFINE q == scan.files
           n == dirp'[Scan].data
           e == D!EntryOf(n, FALSE)
<1>1. /\ scan.at = "read" /\ D!readdir_r(Scan) /\ UNCHANGED <<present, changes, heap, fault, stable>>
      /\ IF n = 0 THEN \E r \in D!Sortings(q) : scan' = [scan EXCEPT !.at = "cleanup", !.files = r]
         ELSE scan' = IF e.file \in Passing THEN D!Store(e) ELSE [scan EXCEPT !.at = "enlarge"]
  BY DEF D!ScanRead
<1>2. /\ scan \in ScanType /\ Scan \in D!Users /\ q \in Seq(Slot) /\ Len(q) \in Nat /\ DOMAIN q = 1 .. Len(q)
      /\ DirectoryAssumption
  BY UsersAre DEF DInv, DirectoryTyped, ScanType
<1>3. /\ dirp[Scan].state = "open" /\ ~dirp[Scan].wide /\ scan.tmp # 0 /\ OwnSlots
      /\ scan.result = Len(q) /\ scan.result < scan.allocated
      /\ \A j, k \in DOMAIN q : j # k => q[j].e.file # q[k].e.file
      /\ Kept \subseteq D!Files(given[Scan]) /\ D!Files(given[Scan]) \cap Passing \subseteq Kept
  BY <1>1 DEF DInv, ScanInv
<1>4. scan' \in ScanType =>
        /\ DirectoryTyped' /\ HandlesOwned' /\ StreamsInv'
        /\ ScanBlocks' = ScanBlocks => HeapInv'
        /\ dirp'[Scan].wide = dirp[Scan].wide
        /\ IF n = 0 THEN dirp'[Scan].state = "ended" /\ given'[Scan] = given[Scan]
           ELSE /\ dirp'[Scan].state = "open" /\ n \in D!Names
                /\ \A k \in DOMAIN given[Scan] : given[Scan][k].file < n
                /\ D!Files(given'[Scan]) = D!Files(given[Scan]) \cup {n}
  BY <1>1, <1>2, <1>3, ReadStep
<1> HIDE DEF n
<1>5. CASE n = 0
  <2>1. PICK r \in D!Sortings(q) : scan' = [scan EXCEPT !.at = "cleanup", !.files = r]
    BY <1>1, <1>5
  <2>2. /\ r \in Seq(Slot) /\ Len(r) = Len(q) /\ DOMAIN r = DOMAIN q
        /\ {r[k] : k \in DOMAIN r} = {q[k] : k \in DOMAIN q}
        /\ \E p : /\ \A k \in DOMAIN q : p[k] \in DOMAIN q /\ r[k] = q[p[k]]
                  /\ \A j, k \in DOMAIN q : j # k => p[j] # p[k]
        /\ \A j, k \in DOMAIN r : j < k => D!InOrder(r[j], r[k])
    BY <1>2, SortingOf
  <2>3. /\ scan' \in ScanType /\ scan'.at = "cleanup" /\ scan'.files = r /\ scan'.result = scan.result
        /\ scan'.allocated = scan.allocated /\ scan'.tmp = scan.tmp
    BY <1>2, <2>1, <2>2 DEF ScanType
  <2>4. /\ \A k \in DOMAIN r : \E j \in DOMAIN q : r[k] = q[j]
        /\ \A k \in DOMAIN q : \E j \in DOMAIN r : q[k] = r[j]
    <3>1. ASSUME NEW k \in DOMAIN r  PROVE \E j \in DOMAIN q : r[k] = q[j]
      <4>1. r[k] \in {q[j] : j \in DOMAIN q}
        BY <2>2, <3>1
      <4> QED BY <4>1
    <3>2. ASSUME NEW k \in DOMAIN q  PROVE \E j \in DOMAIN r : q[k] = r[j]
      <4>1. q[k] \in {r[j] : j \in DOMAIN r}
        BY <2>2, <3>2
      <4> QED BY <4>1
    <3> QED BY <3>1, <3>2
  <2>5. OwnSlots'
    <3>1. \A j, k \in DOMAIN r : j # k => r[j].block # r[k].block
      <4>1. PICK p : /\ \A k \in DOMAIN q : p[k] \in DOMAIN q /\ r[k] = q[p[k]]
                     /\ \A j, k \in DOMAIN q : j # k => p[j] # p[k]
        BY <2>2
      <4>2. \A j, k \in DOMAIN q : j # k => q[j].block # q[k].block
        BY <1>3 DEF OwnSlots
      <4> HIDE DEF q
      <4> QED BY <2>2, <4>1, <4>2
    <3>2. scan.tmp # 0 => \A k \in DOMAIN r : r[k].block # scan.tmp
      BY <1>3, <2>4 DEF OwnSlots
    <3> QED BY <2>3, <3>1, <3>2 DEF OwnSlots
  <2>6. Kept' = Kept
    BY <2>3, <2>4 DEF Kept
  <2>7. ScanBlocks' = ScanBlocks
    <3>1. TableBlocks' = TableBlocks
      BY <1>1, <2>3 DEF TableBlocks
    <3> QED BY <2>3, <2>4, <3>1 DEF ScanBlocks
  <2>8. stable'[Scan] \cap Passing \subseteq Kept'
    <3>1. dirp'[Scan].state = "ended" /\ given'[Scan] = given[Scan] /\ StreamsInv'
      BY <1>4, <1>5, <2>3
    <3>2. stable'[Scan] \subseteq D!Files(given[Scan])
      BY <1>2, <3>1 DEF StreamsInv, Progress
    <3> QED BY <1>3, <2>6, <3>2
  <2>9. ScanInv'
    <3>1. ~dirp'[Scan].wide
      BY <1>3, <1>4, <2>3
    <3>2. scan'.result = Len(scan'.files) /\ scan'.result <= scan'.allocated /\ ~(scan'.result < 0)
      BY <1>2, <1>3, <2>2, <2>3 DEF ScanType
    <3>3. \A j, k \in DOMAIN scan'.files :
            j < k => Rank[scan'.files[j].e.file] <= Rank[scan'.files[k].e.file]
      BY <2>2, <2>3 DEF D!InOrder
    <3> QED BY <2>3, <2>5, <2>8, <3>1, <3>2, <3>3 DEF ScanInv, D!InOrder
  <2> QED BY <1>4, <2>3, <2>7, <2>9 DEF DInv
<1>6. CASE n # 0 /\ n \in Passing /\ n \in D!Names
  <2>1. e \in D!Entry /\ e.file = n
    BY <1>6, EntryNames
  <2> DEFINE r == Append(q, [block |-> scan.tmp, e |-> e])
             res == scan.result + 1
  <2>2. scan' = [scan EXCEPT !.at = "enlarge", !.files = r, !.tmp = 0, !.result = res]
    BY <1>1, <1>6, <2>1 DEF D!Store
  <2> HIDE DEF e
  <2>3. [block |-> scan.tmp, e |-> e] \in Slot
    BY <1>2, <1>3, <2>1 DEF Slot, ScanType, DirectoryAssumption, D!NAssumption
  <2>4. /\ r \in Seq(Slot) /\ Len(r) = Len(q) + 1 /\ DOMAIN r = DOMAIN q \cup {Len(q) + 1}
        /\ r[Len(q) + 1].block = scan.tmp /\ r[Len(q) + 1].e.file = n
        /\ \A k \in DOMAIN q : r[k] = q[k]
    <3> DEFINE x == [block |-> scan.tmp, e |-> e]
    <3>1. x \in Slot /\ x.block = scan.tmp /\ x.e.file = n /\ r = Append(q, x)
      BY <2>1, <2>3
    <3> HIDE DEF x, r
    <3> QED BY <1>2, <3>1
  <2>5. res \in Int /\ res = Len(r) /\ res <= scan.allocated /\ 0 \in 0 .. N + 1 /\ scan.allocated \in Nat
    BY <1>2, <1>3, <2>4 DEF ScanType, DirectoryAssumption, D!NAssumption
  <2> HIDE DEF r, res
  <2>6. /\ scan' \in ScanType /\ scan'.at = "enlarge" /\ scan'.files = r /\ scan'.result = res
        /\ scan'.allocated = scan.allocated /\ scan'.tmp = 0
    BY <1>2, <2>2, <2>4, <2>5 DEF ScanType
  <2>7. OwnSlots'
    <3>1. \A k \in DOMAIN q : q[k].block # scan.tmp
      BY <1>3 DEF OwnSlots
    <3> QED BY <1>3, <2>4, <2>6, <3>1 DEF OwnSlots
  <2>8. Kept' = Kept \cup {n}
    BY <2>4, <2>6 DEF Kept
  <2>9. ScanBlocks' = ScanBlocks
    <3>1. TableBlocks' = TableBlocks
      BY <1>1, <2>6 DEF TableBlocks
    <3>2. {<<"tmp", r[k].block>> : k \in DOMAIN r}
            = {<<"tmp", q[k].block>> : k \in DOMAIN q} \cup {<<"tmp", scan.tmp>>}
      BY <2>4
    <3> QED BY <1>3, <2>6, <3>1, <3>2 DEF ScanBlocks
  <2>10. /\ dirp'[Scan].state = "open" /\ ~dirp'[Scan].wide
         /\ D!Files(given'[Scan]) = D!Files(given[Scan]) \cup {n}
         /\ \A k \in DOMAIN given[Scan] : given[Scan][k].file < n
    BY <1>3, <1>4, <1>6, <2>6
  <2>11. n \notin Kept
    <3>1. n \notin D!Files(given[Scan])
      <4>1. \A k \in DOMAIN given[Scan] : given[Scan][k].file # n
        <5>1. n \in Int
          BY <1>6 DEF D!Names
        <5> QED BY <2>10, <5>1
      <4> QED BY <4>1 DEF D!Files
    <3> QED BY <1>3, <3>1
  <2>12. \A j, k \in DOMAIN r : j # k => r[j].e.file # r[k].e.file
    <3>1. \A k \in DOMAIN q : q[k].e.file # n
      BY <2>11 DEF Kept
    <3> QED BY <1>3, <2>4, <3>1
  <2>13. ScanInv'
    <3>1. Kept' \subseteq D!Files(given'[Scan]) /\ D!Files(given'[Scan]) \cap Passing \subseteq Kept'
      BY <1>3, <2>8, <2>10
    <3>2. D!Files(given'[Scan]) = D!Files(given[Scan])'
      OBVIOUS
    <3> QED BY <2>5, <2>6, <2>7, <2>10, <2>12, <3>1, <3>2 DEF ScanInv
  <2> QED BY <1>4, <2>6, <2>9, <2>13 DEF DInv
<1>7. CASE n # 0 /\ n \notin Passing /\ n \in D!Names
  <2>1. e.file = n
    BY <1>7, EntryNames
  <2>2. scan' = [scan EXCEPT !.at = "enlarge"]
    BY <1>1, <1>7, <2>1
  <2>3. /\ scan' \in ScanType /\ scan'.at = "enlarge" /\ scan'.files = scan.files
        /\ scan'.result = scan.result /\ scan'.allocated = scan.allocated /\ scan'.tmp = scan.tmp
    BY <1>2, <2>2 DEF ScanType
  <2>4. ScanBlocks' = ScanBlocks /\ Kept' = Kept /\ OwnSlots'
    <3>1. TableBlocks' = TableBlocks
      BY <1>1, <2>3 DEF TableBlocks
    <3>2. ScanBlocks' = ScanBlocks
      BY <2>3, <3>1 DEF ScanBlocks
    <3>3. Kept' = Kept
      BY <2>3 DEF Kept
    <3>4. OwnSlots'
      BY <1>3, <2>3 DEF OwnSlots
    <3> QED BY <3>2, <3>3, <3>4
  <2>5. /\ dirp'[Scan].state = "open" /\ ~dirp'[Scan].wide
        /\ D!Files(given'[Scan]) = D!Files(given[Scan]) \cup {n}
    BY <1>3, <1>4, <1>7, <2>3
  <2>6. ScanInv'
    <3>1. Kept' \subseteq D!Files(given'[Scan]) /\ D!Files(given'[Scan]) \cap Passing \subseteq Kept'
      BY <1>3, <1>7, <2>4, <2>5
    <3>2. scan.result <= scan.allocated
      BY <1>2, <1>3 DEF ScanType
    <3> QED BY <1>3, <2>3, <2>4, <2>5, <3>1, <3>2 DEF ScanInv
  <2> QED BY <1>4, <2>3, <2>4, <2>6 DEF DInv
<1> QED
  <2>1. n # 0 => n \in D!Names
    <3> DEFINE d == D!dirent_next(dirp[Scan])
               f == [d EXCEPT !.state = IF d.data = 0 THEN "ended" ELSE "open"]
    <3>1. dirp' = [dirp EXCEPT ![Scan] = f]
      BY <1>1 DEF D!readdir_r
    <3>2. f.data # 0 => f.data \in D!Names
      BY <1>2, <1>3, NextStep DEF DInv
    <3> HIDE DEF f
    <3>3. dirp'[Scan] = f
      BY <1>2, <3>1 DEF DInv, DirectoryTyped
    <3> QED BY <3>2, <3>3 DEF n
  <2> QED BY <1>5, <1>6, <1>7, <2>1

-----------------------------------------------------------------------------
\* What is released at the end: the temporary block and, after a failure,
\* those of the table; each once, and each is there.
LEMMA ReleasedOnce ==
  ASSUME DirectoryAssumption, DInv
  PROVE  /\ D!IsInjective(D!Released)
         /\ D!Range(D!Released) = (IF scan.tmp # 0 THEN {<<"tmp", scan.tmp>>} ELSE {})
              \cup (IF scan.result < 0 THEN {<<"tmp", scan.files[k].block>> : k \in DOMAIN scan.files} ELSE {})
<1> DEFINE q == scan.files
           t == scan.tmp
           A == IF t # 0 THEN <<<<"tmp", t>>>> ELSE <<>>
           B == IF scan.result < 0 THEN [k \in DOMAIN q |-> <<"tmp", q[k].block>>] ELSE <<>>
           both == A \o B
           E1 == IF t # 0 THEN {<<"tmp", t>>} ELSE {}
           E2 == IF scan.result < 0 THEN {<<"tmp", q[k].block>> : k \in DOMAIN q} ELSE {}
           Any == E1 \cup E2
<1>1. D!Released = both
  BY DEF D!Released
<1>2. q \in Seq(Slot) /\ DOMAIN q = 1 .. Len(q) /\ Len(q) \in Nat
  BY DEF DInv, DirectoryTyped, ScanType
<1>3. /\ \A j, k \in DOMAIN q : j # k => q[j].block # q[k].block
      /\ t # 0 => \A k \in DOMAIN q : q[k].block # t
  BY DEF DInv, ScanInv, OwnSlots
<1> HIDE DEF q, t
<1>4. A \in Seq(Any) /\ Len(A) = (IF t # 0 THEN 1 ELSE 0) /\ (t # 0 => A[1] = <<"tmp", t>>)
  <2>1. CASE t # 0
    <3> DEFINE a == <<"tmp", t>>
    <3>1. A = <<a>> /\ a \in Any
      BY <2>1
    <3> HIDE DEF a, Any, A
    <3>2. A \in Seq(Any) /\ Len(A) = 1 /\ A[1] = a
      BY <3>1
    <3> QED BY <2>1, <3>2 DEF a
  <2>2. CASE t = 0
    <3>1. A = <<>>
      BY <2>2
    <3> HIDE DEF A, Any
    <3> QED BY <2>2, <3>1
  <2> QED BY <2>1, <2>2
<1>5. /\ B \in Seq(Any) /\ Len(B) = (IF scan.result < 0 THEN Len(q) ELSE 0)
      /\ scan.result < 0 => \A k \in DOMAIN q : B[k] = <<"tmp", q[k].block>>
  <2>1. CASE scan.result < 0
    <3>1. B = [k \in 1 .. Len(q) |-> <<"tmp", q[k].block>>]
      BY <1>2, <2>1
    <3>2. \A k \in 1 .. Len(q) : <<"tmp", q[k].block>> \in Any
      BY <1>2, <2>1
    <3> HIDE DEF B, Any
    <3>3. B \in [1 .. Len(q) -> Any]
      BY <3>1, <3>2
    <3>4. B \in Seq(Any) /\ Len(B) = Len(q)
      BY <1>2, <3>3, SeqDef
    <3> QED BY <1>2, <2>1, <3>1, <3>4
  <2>2. CASE ~(scan.result < 0)
    <3>1. B = <<>>
      BY <2>2
    <3> HIDE DEF B, Any
    <3> QED BY <2>2, <3>1
  <2> QED BY <2>1, <2>2
<1> HIDE DEF A, B
<1> DEFINE a == IF t # 0 THEN 1 ELSE 0
           b == IF scan.result < 0 THEN Len(q) ELSE 0
<1>6. /\ DOMAIN both = 1 .. a + b /\ a \in 0 .. 1 /\ b \in Nat
      /\ \A i \in 1 .. a : both[i] = A[i]
      /\ \A i \in 1 .. b : both[a + i] = B[i]
  <2>1. a \in Nat /\ b \in Nat /\ Len(A) = a /\ Len(B) = b
    BY <1>2, <1>4, <1>5
  <2>2. a \in 0 .. 1
    OBVIOUS
  <2> HIDE DEF a, b, Any
  <2>3. /\ both \in Seq(Any) /\ Len(both) = a + b
        /\ \A i \in 1 .. a + b : both[i] = IF i <= a THEN A[i] ELSE B[i - a]
    BY <1>4, <1>5, <2>1, ConcatProperties
  <2> HIDE DEF both
  <2>6. DOMAIN both = 1 .. a + b
    BY <2>1, <2>3
  <2>4. \A i \in 1 .. a : both[i] = A[i]
    BY <2>1, <2>3
  <2>5. \A i \in 1 .. b : both[a + i] = B[i]
    <3> SUFFICES ASSUME NEW i \in 1 .. b  PROVE both[a + i] = B[i]
      OBVIOUS
    <3>1. a + i \in 1 .. a + b /\ ~(a + i <= a) /\ (a + i) - a = i
      BY <2>1
    <3> QED BY <2>3, <3>1
  <2> QED BY <2>1, <2>2, <2>4, <2>5, <2>6
<1> HIDE DEF both
<1>7. /\ \A i \in 1 .. a : t # 0 /\ both[i] = <<"tmp", t>>
      /\ \A i \in 1 .. b : scan.result < 0 /\ i \in DOMAIN q /\ both[a + i] = <<"tmp", q[i].block>>
  <2>1. ASSUME NEW i \in 1 .. a  PROVE t # 0 /\ both[i] = <<"tmp", t>>
    <3>1. t # 0 /\ i = 1
      BY <2>1
    <3> HIDE DEF a
    <3> QED BY <1>4, <1>6, <3>1, <2>1
  <2>2. ASSUME NEW i \in 1 .. b  PROVE scan.result < 0 /\ i \in DOMAIN q /\ both[a + i] = <<"tmp", q[i].block>>
    <3>1. scan.result < 0 /\ i \in DOMAIN q
      BY <1>2, <2>2
    <3> HIDE DEF a, b
    <3> QED BY <1>5, <1>6, <3>1, <2>2
  <2> QED BY <2>1, <2>2
<1>8. \A i \in DOMAIN both : i \in 1 .. a \/ \E j \in 1 .. b : i = a + j
  <2> SUFFICES ASSUME NEW i \in DOMAIN both, i \notin 1 .. a  PROVE \E j \in 1 .. b : i = a + j
    OBVIOUS
  <2> HIDE DEF a, b
  <2>1. i - a \in 1 .. b /\ i = a + (i - a)
    BY <1>6
  <2> QED BY <2>1
<1>9. D!IsInjective(both)
  <2> SUFFICES ASSUME NEW i \in DOMAIN both, NEW j \in DOMAIN both, both[i] = both[j]  PROVE i = j
    BY DEF D!IsInjective
  <2> HIDE DEF b
  <2>1. CASE i \in 1 .. a /\ j \in 1 .. a
    BY <2>1
  <2>2. CASE i \in 1 .. a /\ j \notin 1 .. a
    <3>1. PICK k \in 1 .. b : j = a + k
      BY <1>8, <2>2
    <3> HIDE DEF a
    <3> QED BY <1>3, <1>7, <2>2, <3>1
  <2>3. CASE i \notin 1 .. a /\ j \in 1 .. a
    <3>1. PICK k \in 1 .. b : i = a + k
      BY <1>8, <2>3
    <3> HIDE DEF a
    <3> QED BY <1>3, <1>7, <2>3, <3>1
  <2>4. CASE i \notin 1 .. a /\ j \notin 1 .. a
    <3>1. PICK k \in 1 .. b : i = a + k
      BY <1>8, <2>4
    <3>2. PICK l \in 1 .. b : j = a + l
      BY <1>8, <2>4
    <3> HIDE DEF a
    <3>3. q[k].block = q[l].block /\ k \in DOMAIN q /\ l \in DOMAIN q
      BY <1>7, <3>1, <3>2
    <3> QED BY <1>3, <3>1, <3>2, <3>3
  <2> QED BY <2>1, <2>2, <2>3, <2>4
<1>10. D!Range(both) = Any
  <2>1. ASSUME NEW i \in DOMAIN both  PROVE both[i] \in Any
    <3>1. CASE i \in 1 .. a
      BY <1>7, <3>1
    <3>2. CASE i \notin 1 .. a
      <4>1. PICK k \in 1 .. b : i = a + k
        BY <1>8, <3>2
      <4> HIDE DEF a, b
      <4> QED BY <1>7, <4>1
    <3> QED BY <3>1, <3>2
  <2>2. ASSUME NEW x \in E1  PROVE \E i \in DOMAIN both : both[i] = x
    <3>0. t # 0 /\ x = <<"tmp", t>> /\ a = 1
      BY <2>2
    <3> HIDE DEF a, b
    <3>1. 1 \in 1 .. a /\ x = <<"tmp", t>> /\ 1 \in DOMAIN both
      BY <1>6, <3>0
    <3> QED BY <1>7, <3>1
  <2>3. ASSUME NEW x \in E2  PROVE \E i \in DOMAIN both : both[i] = x
    <3>1. PICK k \in DOMAIN q : scan.result < 0 /\ x = <<"tmp", q[k].block>>
      BY <2>3
    <3>2. k \in 1 .. b
      BY <1>2, <3>1
    <3> HIDE DEF a, b
    <3>3. a + k \in DOMAIN both
      BY <1>6, <3>2
    <3> QED BY <1>7, <3>1, <3>2, <3>3
  <2> HIDE DEF E1, E2
  <2> QED BY <2>1, <2>2, <2>3 DEF D!Range
<1> QED BY <1>1, <1>9, <1>10 DEF q, t

LEMMA ScanCleanupStep ==
  ASSUME DirectoryAssumption, DInv, D!ScanCleanup
  PROVE  DInv'
<1> DEFINE failed == scan.result < 0
           mine == {<<"tmp", scan.files[k].block>> : k \in DOMAIN scan.files}
           opened == dirp[Scan].state # "none"
           gone == D!Range(D!Released) \cup (IF failed THEN {<<"files", Scan>>} ELSE {})
                     \cup (IF opened THEN D!Blocks(Scan, FALSE) ELSE {})
<1>1. /\ scan.at = "cleanup" /\ heap' = heap \ gone
      /\ search' = IF opened THEN D!Searches(dirp[Scan], D!NoStream) ELSE search
      /\ dirp' = [dirp EXCEPT ![Scan] = D!NoStream]
      /\ fault' = (fault \/ (~D!IsInjective(D!Released) \/ ~(D!Range(D!Released) \subseteq heap))
                         \/ D!ClosedTwice(Scan))
      /\ scan' = [scan EXCEPT !.at = "returned", !.tmp = 0, !.files = IF failed THEN <<>> ELSE @]
      /\ UNCHANGED <<present, changes, given, stable>>
  BY DEF D!ScanCleanup
<1>2. /\ scan \in ScanType /\ Scan \in D!Users /\ scan.files \in Seq(Slot) /\ <<>> \in Seq(Slot)
      /\ 0 \in 0 .. N + 1 /\ 0 \notin Handles /\ DOMAIN <<>> = {}
  BY UsersAre DEF DInv, DirectoryTyped, ScanType, DirectoryAssumption, D!NAssumption, D!HandleAssumption
<1>3. /\ scan' \in ScanType /\ scan'.at = "returned" /\ scan'.tmp = 0
      /\ scan'.files = (IF failed THEN <<>> ELSE scan.files)
      /\ scan'.result = scan.result /\ scan'.allocated = scan.allocated
  <2>1. CASE failed
    <3>1. scan' = [scan EXCEPT !.at = "returned", !.tmp = 0, !.files = <<>>]
      BY <1>1, <2>1
    <3> QED BY <1>2, <2>1, <3>1 DEF ScanType
  <2>2. CASE ~failed
    <3>1. scan' = [scan EXCEPT !.at = "returned", !.tmp = 0]
      BY <1>1, <1>2, <2>2 DEF ScanType
    <3> QED BY <1>2, <2>2, <3>1 DEF ScanType
  <2> QED BY <2>1, <2>2
<1>4. /\ D!IsInjective(D!Released)
      /\ D!Range(D!Released) = (IF scan.tmp # 0 THEN {<<"tmp", scan.tmp>>} ELSE {})
                                 \cup (IF failed THEN mine ELSE {})
  BY ReleasedOnce
<1>5. fault' = FALSE
  <2>1. D!Range(D!Released) \subseteq heap
    BY <1>4 DEF DInv, HeapInv, ScanBlocks
  <2> QED BY <1>1, <1>2, <1>4, <2>1, NotClosedTwice DEF DInv, DirectoryTyped
<1>6. search' = D!Searches(dirp[Scan], D!NoStream)
  <2>1. CASE opened
    BY <1>1, <2>1
  <2>2. CASE ~opened
    <3>1. dirp[Scan].handle = 0
      BY <1>2, <2>2 DEF DInv, StreamsInv, Progress
    <3>2. search' = search /\ search \in [Handles -> D!Names \cup {D!Unused}]
      BY <1>1, <2>2 DEF DInv, DirectoryTyped
    <3>3. D!Searches(dirp[Scan], D!NoStream) = [h \in Handles |-> search[h]]
      BY <1>2, <3>1, NothingToGive DEF D!Searches
    <3> QED BY <3>2, <3>3
  <2> QED BY <2>1, <2>2
<1>7. DirectoryTyped' /\ HandlesOwned' /\ StreamsInv'
  <2> DEFINE c == dirp[Scan]
             e == D!NoStream
             g == given[Scan]
             st == stable[Scan]
  <2>1. /\ DirectoryTyped /\ HandlesOwned /\ StreamsInv /\ st \subseteq present
        /\ \A j, k \in DOMAIN g : j < k => g[j].file < g[k].file
    BY <1>2 DEF DInv, StreamsInv, Progress
  <2>2. /\ e \in Stream /\ e.handle = 0 /\ Progress(e, g, st) /\ g \in Seq(D!Entry)
        /\ UNCHANGED <<present, fault>>
    BY <1>1, <1>2, <1>5, <2>1, NothingToGive DEF DirectoryTyped
  <2>3. /\ dirp' = [dirp EXCEPT ![Scan] = e] /\ given' = [given EXCEPT ![Scan] = g]
        /\ stable' = [stable EXCEPT ![Scan] = st]
        /\ e.handle # 0 => /\ e.data # 0
                           /\ e.handle = dirp[Scan].handle \/ search[e.handle] = D!Unused
    BY <1>1, <2>1, <2>2 DEF DirectoryTyped
  <2>4. c.handle = dirp[Scan].handle /\ search' = D!Searches(c, e)
    BY <1>6
  <2> HIDE DEF c, e, g, st
  <2> QED BY <1>2, <1>3, <2>1, <2>2, <2>3, <2>4, StreamStep
<1>8. dirp'[Scan] = D!NoStream /\ \A r \in D!Users \ {Scan} : dirp'[r] = dirp[r]
  BY <1>1, <1>2 DEF DInv, DirectoryTyped
<1>9. HeapInv'
  <2>1. /\ StreamBlocks(Scan) = (IF opened THEN D!Blocks(Scan, FALSE) ELSE {})
        /\ StreamBlocks(Scan)' = {}
    <3>1. opened => dirp[Scan].wide = FALSE
      BY <1>2 DEF DInv, ScanInv, DirectoryTyped, Stream
    <3> QED BY <1>8, <3>1, NothingToGive DEF StreamBlocks
  <2>2. \A r \in D!Users \ {Scan} : StreamBlocks(r)' = StreamBlocks(r)
    BY <1>8 DEF StreamBlocks
  <2>3. TableBlocks = (IF scan.allocated # 0 THEN {<<"files", Scan>>} ELSE {})
    BY <1>1 DEF TableBlocks
  <2>4. TableBlocks' = (IF scan.allocated # 0 /\ ~failed THEN {<<"files", Scan>>} ELSE {})
    BY <1>3 DEF TableBlocks
  <2>5. ScanBlocks' = (IF failed THEN {} ELSE mine) \cup TableBlocks'
    <3>1. {<<"tmp", scan'.files[k].block>> : k \in DOMAIN scan'.files} = IF failed THEN {} ELSE mine
      BY <1>2, <1>3
    <3> QED BY <1>3, <3>1 DEF ScanBlocks
  <2>6. ScanBlocks = (IF scan.tmp # 0 THEN {<<"tmp", scan.tmp>>} ELSE {}) \cup mine \cup TableBlocks
    BY DEF ScanBlocks
  <2>7. scan.tmp # 0 => <<"tmp", scan.tmp>> \notin mine
    BY DEF DInv, ScanInv, OwnSlots
  <2>8. ASSUME NEW r \in D!Users, NEW x \in StreamBlocks(r)
        PROVE  /\ \A k : x # <<"tmp", k>> /\ x # <<"files", k>>
               /\ r # Scan => x \notin D!Blocks(Scan, FALSE)
    <3>1. x \in D!Blocks(r, dirp[r].wide)
      BY <2>8 DEF StreamBlocks
    <3> QED BY <3>1, BlocksApart
  <2>9. \A x \in mine : (\E k : x = <<"tmp", k>>) /\ x # <<"files", Scan>> /\ x \notin D!Blocks(Scan, FALSE)
    <3>1. \A k : <<"tmp", k>> # <<"files", Scan>> /\ <<"tmp", k>> \notin D!Blocks(Scan, FALSE)
      BY DEF D!Blocks
    <3> QED BY <3>1
  <2>10. /\ <<"files", Scan>> \notin D!Blocks(Scan, FALSE)
         /\ \A k : <<"files", Scan>> # <<"tmp", k>>
    BY DEF D!Blocks
  <2>11. gone = (IF scan.tmp # 0 THEN {<<"tmp", scan.tmp>>} ELSE {}) \cup (IF failed THEN mine ELSE {})
                  \cup (IF failed THEN {<<"files", Scan>>} ELSE {})
                  \cup (IF opened THEN D!Blocks(Scan, FALSE) ELSE {})
    BY <1>4
  <2> DEFINE f == <<"files", Scan>>
             t == <<"tmp", scan.tmp>>
  <2> HIDE DEF gone, mine, failed, opened, f, t
  <2>12. ASSUME NEW x
         PROVE  x \in heap' <=> x \in ScanBlocks' \/ \E r \in D!Users : x \in StreamBlocks(r)'
    <3>1. x \in heap' <=> (x \in ScanBlocks \/ \E r \in D!Users : x \in StreamBlocks(r)) /\ x \notin gone
      BY <1>1 DEF DInv, HeapInv
    <3>2. CASE \E r \in D!Users \ {Scan} : x \in StreamBlocks(r)
      <4>1. x \notin gone
        <5>1. \A y \in mine : x # y
          BY <2>8, <2>9, <3>2
        <5> QED BY <2>8, <2>11, <3>2, <5>1
      <4> QED BY <2>2, <3>1, <3>2, <4>1
    <3>3. CASE x \in StreamBlocks(Scan)
      <4>1. x \in gone
        BY <2>1, <2>11, <3>3
      <4>2. x \notin ScanBlocks'
        BY <1>2, <2>4, <2>5, <2>8, <2>9, <3>3
      <4>3. \A r \in D!Users : x \notin StreamBlocks(r)'
        <5>1. \A r \in D!Users \ {Scan} : x \notin StreamBlocks(r)
          BY <2>1, <2>8, <3>3
        <5> QED BY <2>1, <2>2, <5>1
      <4> QED BY <3>1, <4>1, <4>2, <4>3
    <3>4. CASE \A r \in D!Users : x \notin StreamBlocks(r)
      <4>1. \A r \in D!Users : x \notin StreamBlocks(r)'
        BY <2>1, <2>2, <3>4
      <4>2. x \in ScanBlocks /\ x \notin gone <=> x \in ScanBlocks'
        <5>1. opened => x \notin D!Blocks(Scan, FALSE)
          BY <1>2, <2>1, <3>4
        <5>2. x \in gone <=> \/ scan.tmp # 0 /\ x = t
                             \/ failed /\ x \in mine
                             \/ failed /\ x = f
          BY <2>11, <5>1 DEF t, f
        <5>3. x \in ScanBlocks <=> \/ scan.tmp # 0 /\ x = t
                                   \/ x \in mine
                                   \/ scan.allocated # 0 /\ x = f
          BY <2>3, <2>6 DEF t, f
        <5>4. x \in ScanBlocks' <=> \/ ~failed /\ x \in mine
                                    \/ scan.allocated # 0 /\ ~failed /\ x = f
          BY <2>4, <2>5 DEF f
        <5>5. f # t /\ f \notin mine /\ (scan.tmp # 0 => t \notin mine)
          BY <2>7, <2>9, <2>10 DEF f, t
        <5> QED BY <5>2, <5>3, <5>4, <5>5
      <4> QED BY <3>1, <3>4, <4>1, <4>2
    <3> QED BY <3>2, <3>3, <3>4
  <2> QED BY <2>12 DEF HeapInv
<1>10. ScanInv'
  <2>1. dirp'[Scan].state = "none"
    BY <1>8, NothingToGive
  <2>2. OwnSlots'
    BY <1>2, <1>3 DEF DInv, ScanInv, OwnSlots
  <2>3. ~failed => Kept' = Kept
    BY <1>3 DEF Kept
  <2>4. ~failed => /\ scan.result = Len(scan.files) /\ scan.result <= scan.allocated
                   /\ \A j, k \in DOMAIN scan.files : j < k => D!InOrder(scan.files[j], scan.files[k])
                   /\ stable[Scan] \cap Passing \subseteq Kept
    BY <1>1, <1>2 DEF DInv, ScanInv, ScanType
  <2>5. scan.result \in Int
    BY <1>2 DEF ScanType
  <2>6. scan'.result >= 0 <=> ~failed
    BY <1>3, <2>5
  <2>7. ~failed => scan'.files = scan.files
    BY <1>3
  <2>8. failed => scan'.files = <<>>
    BY <1>3
  <2> HIDE DEF failed
  <2> QED BY <1>1, <1>3, <2>1, <2>2, <2>3, <2>4, <2>6, <2>7, <2>8 DEF ScanInv, D!InOrder, failed
<1> QED BY <1>7, <1>9, <1>10 DEF DInv

\* The caller frees the table and has no blocks of scandir any more.
LEMMA FreeListStep ==
  ASSUME DirectoryAssumption, DInv, D!FreeList
  PROVE  DInv'
<1> DEFINE mine == {<<"tmp", scan.files[k].block>> : k \in DOMAIN scan.files}
<1>1. /\ scan.at = "returned" /\ heap' = heap \ (mine \cup {<<"files", Scan>>}) /\ scan' = D!NoScan
      /\ given' = [given EXCEPT ![Scan] = <<>>] /\ stable' = [stable EXCEPT ![Scan] = {}]
      /\ UNCHANGED <<present, changes, search, fault, dirp>>
  BY DEF D!FreeList
<1>2. Scan \in D!Users /\ dirp[Scan].state = "none" /\ scan.tmp = 0 /\ DOMAIN <<>> = {} /\ Len(<<>>) = 0
  BY <1>1, UsersAre DEF DInv, ScanInv
<1>3. /\ scan' \in ScanType /\ scan'.at = "idle" /\ scan'.files = <<>> /\ scan'.tmp = 0
      /\ scan'.allocated = 0 /\ scan'.result = 0
  <2>1. <<>> \in Seq(Slot) /\ 0 \in 0 .. N + 1
    BY DEF DirectoryAssumption, D!NAssumption
  <2> QED BY <1>1, <2>1 DEF D!NoScan, ScanType
<1>4. DirectoryTyped'
  <2>1. <<>> \in Seq(D!Entry)
    OBVIOUS
  <2> QED BY <1>1, <1>3, <2>1 DEF DInv, DirectoryTyped
<1>5. HandlesOwned'
  BY <1>1 DEF DInv, HandlesOwned
<1>6. StreamsInv'
  <2> SUFFICES ASSUME NEW r \in D!Users
               PROVE  stable'[r] \subseteq present' /\ Progress(dirp'[r], given'[r], stable'[r])
    BY DEF StreamsInv
  <2>1. CASE r = Scan
    <3>1. given'[r] = <<>> /\ stable'[r] = {} /\ dirp'[r] = dirp[r]
      BY <1>1, <2>1 DEF DInv, DirectoryTyped
    <3>2. Progress(dirp[r], <<>>, {})
      BY <1>2, <2>1 DEF DInv, StreamsInv, Progress
    <3> QED BY <3>1, <3>2
  <2>2. CASE r # Scan
    <3>1. given'[r] = given[r] /\ stable'[r] = stable[r] /\ dirp'[r] = dirp[r]
      BY <1>1, <2>2 DEF DInv, DirectoryTyped
    <3> QED BY <1>1, <3>1 DEF DInv, StreamsInv
  <2> QED BY <2>1, <2>2
<1>7. ScanInv'
  BY <1>1, <1>2, <1>3 DEF ScanInv, OwnSlots
<1>8. HeapInv'
  <2>1. ScanBlocks' = {}
    BY <1>2, <1>3 DEF ScanBlocks, TableBlocks
  <2>2. ScanBlocks \subseteq mine \cup {<<"files", Scan>>}
    BY <1>2 DEF ScanBlocks, TableBlocks
  <2>3. \A r \in D!Users : StreamBlocks(r)' = StreamBlocks(r)
    BY <1>1 DEF StreamBlocks
  <2>4. ASSUME NEW r \in D!Users, NEW x \in StreamBlocks(r)
        PROVE  x \notin mine \cup {<<"files", Scan>>}
    <3>1. x \in D!Blocks(r, dirp[r].wide)
      BY <2>4 DEF StreamBlocks
    <3>2. \A k : x # <<"tmp", k>> /\ x # <<"files", k>>
      BY <3>1, BlocksApart
    <3> QED BY <3>2
  <2> HIDE DEF mine
  <2>5. \A x : x \in heap' <=> x \in ScanBlocks' \/ \E r \in D!Users : x \in StreamBlocks(r)'
    BY <1>1, <2>1, <2>2, <2>3, <2>4 DEF DInv, HeapInv
  <2> QED BY <2>5 DEF HeapInv
<1> QED BY <1>4, <1>5, <1>6, <1>7, <1>8 DEF DInv

-----------------------------------------------------------------------------
LEMMA DirectoryInit ==
  ASSUME DirectoryAssumption, D!Init
  PROVE  DInv
<1>1. /\ D!NoStream \in Stream /\ D!NoStream.handle = 0 /\ D!NoStream.state = "none"
      /\ Progress(D!NoStream, <<>>, {}) /\ <<>> \in Seq(D!Entry)
      /\ Scan \in D!Users /\ 0 \notin Handles
  BY NothingToGive, UsersAre DEF DirectoryAssumption, D!HandleAssumption
<1>2. /\ scan \in ScanType /\ scan = D!NoScan /\ scan.at = "idle" /\ scan.files = <<>> /\ scan.tmp = 0
      /\ scan.allocated = 0 /\ scan.result = 0 /\ DOMAIN <<>> = {} /\ Len(<<>>) = 0
  <2>1. <<>> \in Seq(Slot) /\ 0 \in 0 .. N + 1
    BY DEF DirectoryAssumption, D!NAssumption
  <2> QED BY <2>1 DEF D!Init, D!NoScan, ScanType
<1>3. /\ dirp = [s \in D!Users |-> D!NoStream] /\ given = [s \in D!Users |-> <<>>]
      /\ stable = [s \in D!Users |-> {}] /\ search = [h \in Handles |-> D!Unused]
      /\ present \subseteq D!Names /\ fault = FALSE /\ heap = {}
  BY DEF D!Init
<1>4. DirectoryTyped
  BY <1>1, <1>2, <1>3 DEF DirectoryTyped
<1>5. HandlesOwned
  BY <1>1, <1>3 DEF HandlesOwned
<1>6. StreamsInv
  BY <1>1, <1>3 DEF StreamsInv
<1>7. ScanInv
  BY <1>1, <1>2, <1>3 DEF ScanInv, OwnSlots
<1>8. HeapInv
  <2>1. ScanBlocks = {} /\ \A r \in D!Users : StreamBlocks(r) = {}
    BY <1>1, <1>2, <1>3 DEF ScanBlocks, TableBlocks, StreamBlocks
  <2> QED BY <1>3, <2>1 DEF HeapInv
<1> QED BY <1>4, <1>5, <1>6, <1>7, <1>8 DEF DInv

LEMMA DirectoryStep ==
  ASSUME DirectoryAssumption, DInv, [D!Next]_D!vars
  PROVE  DInv'
<1>1. CASE D!Next
  <2>1. CASE \E s \in Streams : D!opendir(s) \/ D!readdir(s) \/ D!rewinddir(s) \/ D!closedir(s)
    BY <2>1, opendirStep, readdirStep, rewinddirStep, closedirStep
  <2>2. CASE D!ScanOpen
    BY <2>2, ScanOpenStep
  <2>3. CASE D!ScanEnlarge
    BY <2>3, ScanEnlargeStep
  <2>4. CASE D!ScanTmp
    BY <2>4, ScanTmpStep
  <2>5. CASE D!ScanRead
    BY <2>5, ScanReadStep
  <2>6. CASE D!ScanCleanup
    BY <2>6, ScanCleanupStep
  <2>7. CASE D!FreeList
    BY <2>7, FreeListStep
  <2>8. CASE D!ChangeDirectory
    BY <2>8, ChangeStep
  <2> QED BY <1>1, <2>1, <2>2, <2>3, <2>4, <2>5, <2>6, <2>7, <2>8 DEF D!Next
<1>2. CASE UNCHANGED D!vars
  <2>1. /\ UNCHANGED present /\ UNCHANGED search /\ UNCHANGED heap /\ UNCHANGED fault
        /\ UNCHANGED dirp /\ UNCHANGED scan /\ UNCHANGED given /\ UNCHANGED stable
    BY <1>2 DEF D!vars
  <2>2. DirectoryTyped' /\ HandlesOwned' /\ StreamsInv'
    BY <2>1 DEF DInv, DirectoryTyped, HandlesOwned, StreamsInv
  <2>3. ScanInv'
    BY <2>1, ScanKept DEF DInv
  <2>4. HeapInv'
    <3>1. ScanBlocks' = ScanBlocks /\ \A r \in D!Users : StreamBlocks(r)' = StreamBlocks(r)
      BY <2>1, SameScanBlocks DEF StreamBlocks
    <3> QED BY <2>1, <3>1 DEF DInv, HeapInv
  <2> QED BY <2>2, <2>3, <2>4 DEF DInv
<1> QED BY <1>1, <1>2

LEMMA DirectoryInvariant ==
  ASSUME DirectoryAssumption
  PROVE  D!Spec => []DInv
<1>1. D!Init => DInv
  BY DirectoryInit
<1>2. DInv /\ [D!Next]_D!vars => DInv'
  BY DirectoryStep
<1> QED BY <1>1, <1>2, PTL DEF D!Spec

(***************************************************************************)
(* A search handle is closed once and by its stream, a block freed once,   *)
(* and no block is lost: whatever ends a stream or a scandir (the end of   *)
(* the directory, rewinddir, closedir, memory that runs out) and whatever  *)
(* other processes do to the directory; for any names, streams, handles.   *)
(***************************************************************************)
THEOREM NothingLeakedHolds ==
  ASSUME DirectoryAssumption
  PROVE  D!Spec => []D!NothingLeaked
<1>1. DInv => D!NothingLeaked
  <2> SUFFICES ASSUME DInv  PROVE D!NothingLeaked
    OBVIOUS
  <2>1. /\ fault = FALSE
        /\ \A h \in Handles : search[h] # D!Unused <=> \E s \in D!Users : dirp[s].handle = h
        /\ \A s, r \in D!Users : dirp[s].handle = dirp[r].handle /\ s # r => dirp[s].handle = 0
    BY DEF DInv, DirectoryTyped, HandlesOwned
  <2>2. \A b : b \in D!OwnedBlocks <=> b \in ScanBlocks \/ \E s \in D!Users : b \in StreamBlocks(s)
    <3> DEFINE Of(s) == IF dirp[s].state = "none" THEN {} ELSE D!Blocks(s, dirp[s].wide)
               all == UNION {Of(s) : s \in D!Users}
               tmp == IF scan.tmp # 0 THEN {<<"tmp", scan.tmp>>} ELSE {}
               mine == {<<"tmp", scan.files[k].block>> : k \in DOMAIN scan.files}
    <3>0. D!OwnedBlocks = all \cup tmp \cup mine \cup TableBlocks
      BY DEF D!OwnedBlocks, TableBlocks
    <3>1. ScanBlocks = tmp \cup mine \cup TableBlocks
      BY DEF ScanBlocks
    <3>2. \A s : Of(s) = StreamBlocks(s)
      BY DEF StreamBlocks
    <3> HIDE DEF Of
    <3>3. \A b : b \in all <=> \E s \in D!Users : b \in Of(s)
      OBVIOUS
    <3> HIDE DEF all, tmp, mine
    <3>4. \A b : b \in D!OwnedBlocks <=> b \in ScanBlocks \/ \E s \in D!Users : b \in Of(s)
      BY <3>0, <3>1, <3>3
    <3> QED BY <3>2, <3>4
  <2>3. heap = D!OwnedBlocks
    BY <2>2 DEF DInv, HeapInv
  <2>4. \A h \in Handles : D!Open(h) <=> \E s \in D!Users : dirp[s].handle = h
    BY <2>1 DEF D!Open
  <2> QED BY <2>1, <2>3, <2>4 DEF D!NothingLeaked, D!INVALID_HANDLE_VALUE
<1> QED BY <1>1, DirectoryInvariant, PTL

(***************************************************************************)
(* From opendir or rewinddir on a stream gives no file twice, and at the   *)
(* end it has given every file that was there all the time, whether or not *)
(* its name can be converted.                                              *)
(***************************************************************************)
THEOREM GivenOnceHolds ==
  ASSUME DirectoryAssumption
  PROVE  D!Spec => []D!GivenOnce
<1>1. DInv => D!GivenOnce
  <2> SUFFICES ASSUME DInv, NEW s \in D!Users
               PROVE  /\ \A j, k \in DOMAIN given[s] : given[s][j].file = given[s][k].file => j = k
                      /\ dirp[s].state = "ended" => stable[s] \subseteq D!Files(given[s])
    BY DEF D!GivenOnce
  <2>1. Progress(dirp[s], given[s], stable[s]) /\ given[s] \in Seq(D!Entry)
    BY DEF DInv, StreamsInv, DirectoryTyped
  <2> DEFINE g == given[s]
  <2>2. \A k \in DOMAIN g : k \in Int /\ g[k].file \in Int
    <3>1. \A k \in DOMAIN g : g[k] \in D!Entry /\ k \in Int
      BY <2>1
    <3> QED BY <3>1 DEF D!Entry, D!Names
  <2>3. \A j, k \in DOMAIN g : j < k => g[j].file < g[k].file
    BY <2>1 DEF Progress
  <2> HIDE DEF g
  <2>4. ASSUME NEW j \in DOMAIN g, NEW k \in DOMAIN g, g[j].file = g[k].file  PROVE j = k
    <3>1. ~(j < k) /\ ~(k < j)
      BY <2>2, <2>3, <2>4
    <3> QED BY <2>2, <3>1
  <2>5. dirp[s].state = "ended" => stable[s] \subseteq D!Files(given[s])
    BY <2>1 DEF Progress
  <2> QED BY <2>4, <2>5 DEF g
<1> QED BY <1>1, DirectoryInvariant, PTL

(***************************************************************************)
(* scandir returns the number of the entries in its table, which are in    *)
(* order, each in its own block, with every file that the filter keeps and *)
(* that was there all the time; or -1 and no table.                        *)
(***************************************************************************)
THEOREM ScanReturnsHolds ==
  ASSUME DirectoryAssumption
  PROVE  D!Spec => []D!ScanReturns
<1>1. DInv => D!ScanReturns
  <2> SUFFICES ASSUME DInv, scan.at = "returned"
               PROVE  IF scan.result < 0 THEN scan.files = <<>>
                      ELSE /\ scan.result = Len(scan.files) /\ scan.result <= scan.allocated
                           /\ \A j, k \in DOMAIN scan.files :
                                j < k => /\ scan.files[j].block # scan.files[k].block
                                         /\ D!InOrder(scan.files[j], scan.files[k])
                           /\ stable[Scan] \cap Passing \subseteq {scan.files[k].e.file : k \in DOMAIN scan.files}
    BY DEF D!ScanReturns
  <2>1. scan \in ScanType /\ ScanInv
    BY DEF DInv, DirectoryTyped
  <2>2. scan.result \in Int /\ \A k \in DOMAIN scan.files : k \in Int
    BY <2>1 DEF ScanType
  <2>3. CASE scan.result < 0
    BY <2>1, <2>3 DEF ScanInv
  <2>4. CASE scan.result >= 0
    <3>1. /\ scan.result = Len(scan.files) /\ scan.result <= scan.allocated
          /\ \A j, k \in DOMAIN scan.files : j < k => D!InOrder(scan.files[j], scan.files[k])
          /\ stable[Scan] \cap Passing \subseteq Kept
      BY <2>1, <2>4 DEF ScanInv
    <3>2. \A j, k \in DOMAIN scan.files : j < k => scan.files[j].block # scan.files[k].block
      BY <2>1, <2>2 DEF ScanInv, OwnSlots
    <3> QED BY <2>2, <2>4, <3>1, <3>2 DEF Kept
  <2> QED BY <2>2, <2>3, <2>4
<1> QED BY <1>1, DirectoryInvariant, PTL

-----------------------------------------------------------------------------
(***************************************************************************)
(* The locale.                                                             *)
(***************************************************************************)
\* The one task of the theorem: nobody sets the locale between its setting it
\* and its reading of the name.
LocaleInv ==
  /\ named \in LocaleParts
  /\ pc \in [LocaleTasks -> {"idle", "set", "get", "restore"}]
  /\ DOMAIN asks = LocaleTasks /\ DOMAIN lc_all = LocaleTasks /\ DOMAIN code = LocaleTasks
  /\ \A t \in LocaleTasks :
       /\ pc[t] \in {"get", "restore"} => locale = L!Rendered(named)
       /\ pc[t] = "restore" => lc_all[t] = L!Rendered(named)

LEMMA LocaleStep ==
  ASSUME \A t, u \in LocaleTasks : t = u, LocaleInv, [L!Next]_L!vars
  PROVE  LocaleInv'
<1>1. ASSUME NEW t \in LocaleTasks, L!SaveLocale(t)  PROVE LocaleInv'
  BY <1>1 DEF LocaleInv, L!SaveLocale, L!Go
<1>2. ASSUME NEW t \in LocaleTasks, L!SetEnvironmentLocale(t)  PROVE LocaleInv'
  BY <1>2 DEF LocaleInv, L!SetEnvironmentLocale, L!Go
<1>3. ASSUME NEW t \in LocaleTasks, L!GetLocale(t)  PROVE LocaleInv'
  BY <1>3 DEF LocaleInv, L!GetLocale, L!Go
<1>4. ASSUME NEW t \in LocaleTasks, L!RestoreLocale(t)  PROVE LocaleInv'
  BY <1>4 DEF LocaleInv, L!RestoreLocale, L!Go
<1>5. ASSUME UNCHANGED L!vars  PROVE LocaleInv'
  BY <1>5 DEF LocaleInv, L!vars
<1> QED BY <1>1, <1>2, <1>3, <1>4, <1>5 DEF L!Next

LEMMA LocaleInit == L!Init => LocaleInv
  BY DEF L!Init, LocaleInv

\* Where a search that goes through places i to last - 1 stops.
LEMMA StopAt ==
  ASSUME NEW s, NEW i \in Nat, NEW last \in Nat, NEW stops, NEW m \in i .. last,
         \A k \in i .. m - 1 : L!At(s, k) \notin stops,
         m = last \/ L!At(s, m) \in stops
  PROVE  L!Stop(s, i, last, stops) = m
<1> DEFINE found == {k \in i .. last - 1 : L!At(s, k) \in stops}
<1>1. L!Stop(s, i, last, stops) = IF found = {} THEN last ELSE CHOOSE k \in found : \A j \in found : k <= j
  BY DEF L!Stop
<1>2. CASE m = last
  <2>1. found = {}
    BY <1>2
  <2> QED BY <1>1, <1>2, <2>1
<1>3. CASE m # last
  <2>1. m \in found /\ \A j \in found : j \in Int /\ m <= j
    BY <1>3
  <2> HIDE DEF found
  <2>2. \A k \in found : (\A j \in found : k <= j) => k = m
    BY <2>1
  <2> QED BY <1>1, <2>1, <2>2
<1> QED BY <1>2, <1>3

\* The characters of the names.
Char == STRING \cup {"_", ".", "@", " ", "a", "b"}

\* Places of a joined sequence.
LEMMA Joined ==
  \A x, y \in Seq(Char) :
    /\ x \o y \in Seq(Char) /\ Len(x \o y) = Len(x) + Len(y)
    /\ \A k \in 1 .. Len(x) : (x \o y)[k] = x[k]
    /\ \A k \in 1 .. Len(y) : (x \o y)[Len(x) + k] = y[k]
OBVIOUS

\* Sequences of one and two characters.
LEMMA CharacterSequences ==
  ASSUME NEW S, NEW x \in S, NEW y \in S
  PROVE  /\ <<x>> \in Seq(S) /\ Len(<<x>>) = 1 /\ <<x>>[1] = x
         /\ <<x, y>> \in Seq(S) /\ Len(<<x, y>>) = 2
         /\ <<x, y>>[1] = x /\ <<x, y>>[2] = y
OBVIOUS

\* What there is at each place of a language, a territory behind a bar, and two
\* sequences more. The characters are parameters, which the provers need.
Behind(lang, terr) == Len(lang) + (IF terr = <<>> THEN 0 ELSE 1 + Len(terr))

Laid(o, u, v, lang, terr, c, m, bar) ==
  /\ u \in Nat /\ v \in Nat /\ o \in Seq(Char) /\ u <= v /\ v <= Len(o)
  /\ \A k \in 1 .. u : o[k] = lang[k]
  /\ terr = <<>> => v = u
  /\ terr # <<>> =>
       /\ u < v /\ v = u + 1 + Len(terr) /\ o[u + 1] = bar
       /\ \A k \in 1 .. Len(terr) : o[u + 1 + k] = terr[k]
  /\ v < Len(o) =>
       (Len(c) > 0 /\ o[v + 1] = c[1]) \/ (Len(m) > 0 /\ o[v + 1] = m[1])
  /\ \A k \in v + 1 .. Len(o) :
       (\E l \in 1 .. Len(c) : o[k] = c[l]) \/ (\E l \in 1 .. Len(m) : o[k] = m[l])

LEMMA OnceIs ==
  ASSUME NEW lang \in Seq(Char), NEW terr \in Seq(Char),
         NEW c \in Seq(Char), NEW m \in Seq(Char), NEW bar \in Char
  PROVE  Laid(lang \o (IF terr = <<>> THEN <<>> ELSE <<bar>> \o terr) \o c \o m,
              Len(lang), Behind(lang, terr), lang, terr, c, m, bar)
<1> DEFINE u == Len(lang)
           v == Behind(lang, terr)
           t == IF terr = <<>> THEN <<>> ELSE <<bar>> \o terr
           a == lang \o t
           b == a \o c
           o == b \o m
<1> HIDE DEF t, a, b, o, u, v
<1>1. /\ lang \in Seq(Char) /\ terr \in Seq(Char) /\ c \in Seq(Char) /\ m \in Seq(Char)
      /\ bar \in Char
  OBVIOUS
<1>4. t \in Seq(Char)
  <2>1. CASE terr = <<>>
    BY <2>1 DEF t
  <2>2. CASE terr # <<>>
    <3>1. <<bar>> \in Seq(Char)
      BY <1>1, CharacterSequences, Zenon
    <3>2. t = <<bar>> \o terr
      BY <2>2, Zenon DEF t
    <3> QED BY <1>1, <3>1, <3>2, Joined, Zenon
  <2> QED BY <2>1, <2>2
<1>5. v = u + (IF terr = <<>> THEN 0 ELSE 1 + Len(terr))
  BY Zenon DEF Behind, u, v
<1>6. /\ Len(terr) \in Nat
      /\ terr = <<>> => Len(t) = 0
      /\ terr # <<>> => /\ Len(t) = 1 + Len(terr) /\ t[1] = bar
                        /\ \A k \in 1 .. Len(terr) : t[1 + k] = terr[k]
  <2>1. terr = <<>> => Len(t) = 0
    BY DEF t
  <2>2. Len(terr) \in Nat
    OBVIOUS
  <2>3. ASSUME terr # <<>>
        PROVE  /\ Len(t) = 1 + Len(terr) /\ t[1] = bar
               /\ \A k \in 1 .. Len(terr) : t[1 + k] = terr[k]
    <3>1. t = <<bar>> \o terr
      BY <2>3, Zenon DEF t
    <3>2. <<bar>> \in Seq(Char) /\ Len(<<bar>>) = 1 /\ <<bar>>[1] = bar
      BY <1>1, CharacterSequences, Zenon
    <3>3. /\ Len(t) = Len(<<bar>>) + Len(terr)
          /\ \A k \in 1 .. Len(<<bar>>) : t[k] = <<bar>>[k]
          /\ \A k \in 1 .. Len(terr) : t[Len(<<bar>>) + k] = terr[k]
      BY Zenon, <1>1, <3>1, <3>2, Joined
    <3>4. 1 \in 1 .. 1
      OBVIOUS
    <3> QED BY <3>2, <3>3, <3>4, Zenon
  <2> QED BY <2>1, <2>2, <2>3
<1>b. v = u + Len(t)
  BY <1>5, <1>6
<1>7. Len(c) \in Nat /\ Len(m) \in Nat
  OBVIOUS
<1>8. /\ a \in Seq(Char) /\ Len(a) = v /\ u \in Nat /\ v \in Nat /\ u <= v
      /\ \A k \in 1 .. u : a[k] = lang[k]
      /\ \A k \in 1 .. Len(t) : a[u + k] = t[k]
  <2>1. /\ a \in Seq(Char) /\ Len(a) = Len(lang) + Len(t)
        /\ \A k \in 1 .. Len(lang) : a[k] = lang[k]
        /\ \A k \in 1 .. Len(t) : a[Len(lang) + k] = t[k]
    BY Zenon, <1>1, <1>4, Joined DEF a
  <2>2. Len(lang) \in Nat /\ Len(t) \in Nat
    BY <1>1, <1>4
  <2> QED BY <1>b, <2>1, <2>2 DEF u
<1>9. /\ b \in Seq(Char) /\ Len(b) = v + Len(c)
      /\ \A k \in 1 .. v : b[k] = a[k]
      /\ \A k \in 1 .. Len(c) : b[v + k] = c[k]
  <2>1. /\ b \in Seq(Char) /\ Len(b) = Len(a) + Len(c)
        /\ \A k \in 1 .. Len(a) : b[k] = a[k]
        /\ \A k \in 1 .. Len(c) : b[Len(a) + k] = c[k]
    BY Zenon, <1>4, <1>8, Joined DEF b
  <2> QED BY <1>8, <2>1
<1>10. /\ o \in Seq(Char) /\ Len(o) = v + Len(c) + Len(m)
       /\ \A k \in 1 .. v + Len(c) : o[k] = b[k]
       /\ \A k \in 1 .. Len(m) : o[v + Len(c) + k] = m[k]
  <2>1. /\ o \in Seq(Char) /\ Len(o) = Len(b) + Len(m)
        /\ \A k \in 1 .. Len(b) : o[k] = b[k]
        /\ \A k \in 1 .. Len(m) : o[Len(b) + k] = m[k]
    BY Zenon, <1>4, <1>9, Joined DEF o
  <2> QED BY <1>9, <2>1
<1>11. \A k \in v + 1 .. Len(o) : \/ k - v \in 1 .. Len(c) /\ o[k] = c[k - v]
                                  \/ k - v - Len(c) \in 1 .. Len(m) /\ o[k] = m[k - v - Len(c)]
  <2> SUFFICES ASSUME NEW k \in v + 1 .. Len(o)
               PROVE  \/ k - v \in 1 .. Len(c) /\ o[k] = c[k - v]
                      \/ k - v - Len(c) \in 1 .. Len(m) /\ o[k] = m[k - v - Len(c)]
    OBVIOUS
  <2>1. k \in Int /\ v + 1 <= k /\ k <= v + Len(c) + Len(m)
    BY <1>8, <1>10
  <2>2. CASE k <= v + Len(c)
    <3>1. k - v \in 1 .. Len(c) /\ v + (k - v) = k
      BY <1>7, <1>8, <2>1, <2>2
    <3>2. k \in 1 .. v + Len(c)
      BY <1>7, <1>8, <2>1, <2>2
    <3>3. b[v + (k - v)] = c[k - v]
      BY <1>9, <3>1
    <3> QED BY <1>10, <3>1, <3>2, <3>3
  <2>3. CASE k > v + Len(c)
    <3>1. k - v - Len(c) \in 1 .. Len(m) /\ v + Len(c) + (k - v - Len(c)) = k
      BY <1>7, <1>8, <2>1, <2>3
    <3> QED BY <1>10, <3>1
  <2> QED BY <1>7, <1>8, <2>1, <2>2, <2>3
<1>12. \A k \in v + 1 .. Len(o) : \/ \E l \in 1 .. Len(c) : o[k] = c[l]
                                  \/ \E l \in 1 .. Len(m) : o[k] = m[l]
  BY <1>11, Zenon
<1>13. v < Len(o) => \/ Len(c) > 0 /\ o[v + 1] = c[1]
                     \/ Len(m) > 0 /\ o[v + 1] = m[1]
  <2> SUFFICES ASSUME v < Len(o)  PROVE \/ Len(c) > 0 /\ o[v + 1] = c[1]
                                        \/ Len(m) > 0 /\ o[v + 1] = m[1]
    OBVIOUS
  <2>2. CASE Len(c) > 0
    <3>1. 1 \in 1 .. Len(c) /\ v + 1 \in 1 .. v + Len(c)
      BY <1>7, <1>8, <2>2
    <3> QED BY <1>9, <1>10, <2>2, <3>1
  <2>3. CASE Len(c) = 0
    <3>1. 1 \in 1 .. Len(m) /\ v + Len(c) + 1 = v + 1 /\ Len(m) > 0
      BY <1>7, <1>8, <1>10, <2>3
    <3> QED BY <1>10, <3>1
  <2> QED BY <1>7, <2>2, <2>3
<1>14. \A k \in 1 .. v : o[k] = a[k]
  BY <1>7, <1>8, <1>9, <1>10
<1>15. \A k \in 1 .. u : o[k] = lang[k]
  BY <1>8, <1>14
<1>16. terr = <<>> => v = u
  BY <1>5, <1>6, <1>8
<1>17. terr # <<>> =>
         /\ u < v /\ v = u + 1 + Len(terr) /\ o[u + 1] = bar
         /\ \A k \in 1 .. Len(terr) : o[u + 1 + k] = terr[k]
  <2> SUFFICES ASSUME terr # <<>>
               PROVE  /\ u < v /\ v = u + 1 + Len(terr) /\ o[u + 1] = bar
                      /\ \A k \in 1 .. Len(terr) : o[u + 1 + k] = terr[k]
    OBVIOUS
  <2>1. u < v /\ v = u + 1 + Len(terr) /\ Len(terr) \in Nat /\ Len(t) = 1 + Len(terr)
    BY <1>5, <1>6, <1>8
  <2>2. \A k \in 1 .. Len(t) : o[u + k] = t[k]
    BY <1>b, <1>8, <1>14, <2>1
  <2>3. o[u + 1] = bar
    <3>1. 1 \in 1 .. Len(t)
      BY <2>1
    <3> QED BY <1>6, <2>2, <3>1, Zenon
  <2>4. \A k \in 1 .. Len(terr) : 1 + k \in 1 .. Len(t) /\ u + (1 + k) = u + 1 + k
    BY <1>8, <2>1
  <2> QED BY <1>6, <2>1, <2>2, <2>3, <2>4
<1>18. v <= Len(o)
  BY <1>7, <1>8, <1>10
<1>19. Laid(o, u, v, lang, terr, c, m, bar)
  BY <1>8, <1>10, <1>12, <1>13, <1>15, <1>16, <1>17, <1>18, Zenon DEF Laid
<1> QED BY <1>19, Zenon DEF u, v, o, b, a, t

\* A part of a sequence.
LEMMA Part ==
  \A s \in Seq(Char) : \A i \in 1 .. Len(s) + 1 : \A j \in i - 1 .. Len(s) : \A n \in Nat :
    n = j - i + 1 =>
      /\ SubSeq(s, i, j) \in Seq(Char) /\ Len(SubSeq(s, i, j)) = n
      /\ \A k \in 1 .. n : SubSeq(s, i, j)[k] = s[i - 1 + k]
OBVIOUS

\* Sequences are equal place by place.
LEMMA SameNames ==
  \A x, y \in Seq(Char) : Len(x) = Len(y) /\ (\A k \in 1 .. Len(x) : x[k] = y[k]) => x = y
OBVIOUS

\* Before its end, At is what is there.
LEMMA AtPlace == \A s, k : k <= Len(s) => L!At(s, k) = s[k]
  BY Zenon DEF L!At

\* From place i on there is x, without a character that stops a search, and then
\* one that does or the end of the search.
Begins(s, x, i, last, stops) ==
  /\ i + Len(x) <= last /\ last <= Len(s) + 1
  /\ \A k \in 1 .. Len(x) : s[i - 1 + k] = x[k] /\ x[k] \notin stops
  /\ i + Len(x) < last => s[i + Len(x)] \in stops

LEMMA CutAt ==
  ASSUME NEW s \in Seq(Char), NEW x \in Seq(Char), NEW i \in Nat \ {0}, NEW last \in Nat, NEW stops,
         Begins(s, x, i, last, stops)
  PROVE  L!Stop(s, i, last, stops) = i + Len(x) /\ L!Cut(s, i, i + Len(x)) = x
<1> USE DEF Begins
<1> DEFINE m == i + Len(x)
<1> HIDE DEF m
<1>1. m = i + Len(x) /\ m \in Nat /\ Len(x) \in Nat /\ Len(s) \in Nat /\ i <= m /\ m <= last
  BY DEF m
<1>2. \A k \in i .. m - 1 : L!At(s, k) \notin stops
  <2> SUFFICES ASSUME NEW k \in i .. m - 1  PROVE L!At(s, k) \notin stops
    OBVIOUS
  <2>1. k - i + 1 \in 1 .. Len(x) /\ i - 1 + (k - i + 1) = k /\ k <= Len(s)
    BY <1>1
  <2>2. s[k] \notin stops
    BY <2>1
  <2> QED BY <2>1, <2>2, AtPlace
<1>3. m = last \/ L!At(s, m) \in stops
  <2> SUFFICES ASSUME m # last  PROVE L!At(s, m) \in stops
    OBVIOUS
  <2>1. m < last /\ m <= Len(s)
    BY <1>1
  <2>2. s[m] \in stops
    BY <1>1, <2>1
  <2> QED BY <2>1, <2>2, AtPlace
<1>4. m \in i .. last
  BY <1>1
<1>5. L!Stop(s, i, last, stops) = m
  BY <1>2, <1>3, <1>4, StopAt
<1>6. L!Cut(s, i, m) = x
  <2> DEFINE j == m - 1
  <2>1. i \in 1 .. Len(s) + 1 /\ j \in i - 1 .. Len(s) /\ Len(x) = j - i + 1 /\ Len(x) \in Nat
    BY <1>1
  <2> HIDE DEF j
  <2>2. /\ SubSeq(s, i, j) \in Seq(Char) /\ Len(SubSeq(s, i, j)) = Len(x)
        /\ \A k \in 1 .. Len(x) : SubSeq(s, i, j)[k] = s[i - 1 + k]
    BY <2>1, Part
  <2>3. \A k \in 1 .. Len(x) : s[i - 1 + k] = x[k]
    OBVIOUS
  <2>4. SubSeq(s, i, j) = x
    <3> DEFINE y == SubSeq(s, i, j)
    <3>1. /\ y \in Seq(Char) /\ Len(y) = Len(x)
          /\ \A k \in 1 .. Len(x) : y[k] = s[i - 1 + k]
      BY <2>2
    <3> HIDE DEF y
    <3>2. \A k \in 1 .. Len(y) : y[k] = x[k]
      BY <2>3, <3>1
    <3>3. y = x
      BY <3>1, <3>2, SameNames, Zenon
    <3> QED BY <3>3 DEF y
  <2> QED BY <2>4, Zenon DEF L!Cut, j
<1> QED BY <1>1, <1>5, <1>6, Zenon

\* Places i and j end the same twice.
Repeats(s, i, j) == j = 2 * i /\ \A k \in 1 .. i - 1 : s[k] = s[i + k]

\* The parts of a name before and behind its first space are equal when it
\* repeats there.
LEMMA EqualParts ==
  ASSUME NEW s \in Seq(Char), NEW i \in 1 .. Len(s), NEW j \in 1 .. Len(s), i < j
  PROVE  SubSeq(s, 1, i - 1) = SubSeq(s, i + 1, j - 1) <=> Repeats(s, i, j)
<1>1. /\ 1 \in 1 .. Len(s) + 1 /\ i - 1 \in 1 - 1 .. Len(s) /\ i - 1 = i - 1 - 1 + 1 /\ i - 1 \in Nat
      /\ i + 1 \in 1 .. Len(s) + 1 /\ j - 1 \in i + 1 - 1 .. Len(s) /\ j - 1 - i = j - 1 - (i + 1) + 1
      /\ j - 1 - i \in Nat
  OBVIOUS
<1> DEFINE x == SubSeq(s, 1, i - 1)
           y == SubSeq(s, i + 1, j - 1)
<1>2. /\ x \in Seq(Char) /\ Len(x) = i - 1
      /\ \A k \in 1 .. i - 1 : x[k] = s[1 - 1 + k]
  BY <1>1, Part, Zenon
<1>d. \A n \in Nat : n = j - 1 - (i + 1) + 1 =>
        /\ y \in Seq(Char) /\ Len(y) = n
        /\ \A k \in 1 .. n : y[k] = s[i + 1 - 1 + k]
  BY DEF y
<1>b. /\ y \in Seq(Char) /\ Len(y) = j - 1 - i
      /\ \A k \in 1 .. j - 1 - i : y[k] = s[i + 1 - 1 + k]
  BY <1>1, <1>d, Zenon
<1>a. \A k \in 1 .. Len(s) : 1 - 1 + k = k /\ i + 1 - 1 + k = i + k
  OBVIOUS
<1> HIDE DEF x, y
<1>3. ASSUME x = y  PROVE Repeats(s, i, j)
  <2>1. i - 1 = j - 1 - i
    BY <1>2, <1>b, <1>3, Zenon
  <2>2. j = 2 * i
    BY <2>1
  <2>3. ASSUME NEW k \in 1 .. i - 1  PROVE s[k] = s[i + k]
    <3>1. 1 - 1 + k = k /\ i + 1 - 1 + k = i + k
      OBVIOUS
    <3> QED BY <1>2, <1>b, <1>3, <2>1, <3>1, Zenon
  <2> QED BY <2>2, <2>3 DEF Repeats
<1>4. ASSUME Repeats(s, i, j)  PROVE x = y
  <2>1. j - 1 - i = i - 1
    BY <1>4 DEF Repeats
  <2>2. ASSUME NEW k \in 1 .. i - 1  PROVE x[k] = y[k]
    <3>1. 1 - 1 + k = k /\ i + 1 - 1 + k = i + k
      OBVIOUS
    <3> QED BY <1>2, <1>b, <1>4, <2>1, <3>1, Zenon DEF Repeats
  <2> QED BY <1>2, <1>b, <2>1, <2>2, SameNames, Zenon
<1> QED BY <1>3, <1>4, Zenon DEF x, y

\* What is assumed of the parts of a name.
WellNamed(lang, terr, c, m, bar, sp, stops, ends, twice) ==
  /\ bar # sp /\ bar \in stops /\ bar \notin ends /\ \A x \in ends : x \in stops
  /\ \A k \in 1 .. Len(lang) : lang[k] \notin stops
  /\ \A k \in 1 .. Len(terr) : terr[k] \notin stops
  /\ \A k \in 1 .. Len(c) : c[k] # bar /\ c[k] # sp
  /\ \A k \in 1 .. Len(m) : m[k] # bar /\ m[k] # sp
  /\ Len(c) > 0 => c[1] \in ends
  /\ Len(m) > 0 => m[1] \in ends
  /\ \A a, b \in 1 .. Len(lang) : a < b /\ lang[a] = sp /\ lang[b] = sp => ~Repeats(lang, a, b)
  /\ twice => /\ terr # <<>>
              /\ \A k \in 1 .. Len(lang) : lang[k] # sp
              /\ \A k \in 1 .. Len(terr) : terr[k] # sp

\* No part of a name that is given once is given twice.
LEMMA Unrepeated ==
  ASSUME NEW lang \in Seq(Char), NEW terr \in Seq(Char), NEW c \in Seq(Char), NEW m \in Seq(Char),
         NEW bar, NEW sp, NEW stops, NEW ends, NEW twice,
         WellNamed(lang, terr, c, m, bar, sp, stops, ends, twice),
         NEW o, NEW u, NEW v, u = Len(lang), Laid(o, u, v, lang, terr, c, m, bar),
         NEW i \in 1 .. Len(o), NEW j \in 1 .. Len(o), i < j, o[i] = sp, o[j] = sp
  PROVE  ~Repeats(o, i, j)
<1>b. bar # sp /\ bar \in stops
  BY Zenon DEF WellNamed
<1>c. /\ \A k \in 1 .. Len(lang) : lang[k] # bar
      /\ \A k \in 1 .. Len(terr) : terr[k] # bar
  BY Zenon DEF WellNamed
<1>d. /\ \A k \in 1 .. Len(c) : c[k] # bar /\ c[k] # sp
      /\ \A k \in 1 .. Len(m) : m[k] # bar /\ m[k] # sp
  BY Zenon DEF WellNamed
<1> SUFFICES ASSUME Repeats(o, i, j)  PROVE FALSE
  OBVIOUS
<1>0. /\ u \in Nat /\ v \in Nat /\ u <= v /\ v <= Len(o) /\ Len(o) \in Nat
      /\ i \in Nat \ {0} /\ j \in Nat \ {0} /\ i < j /\ j <= Len(o)
  BY DEF Laid
<1>1. /\ \A k \in 1 .. u : o[k] = lang[k]
      /\ terr = <<>> => v = u
      /\ terr # <<>> =>
           /\ u < v /\ v = u + 1 + Len(terr) /\ o[u + 1] = bar
           /\ \A k \in 1 .. Len(terr) : o[u + 1 + k] = terr[k]
  BY DEF Laid
<1>4. \A k \in v + 1 .. Len(o) : o[k] # bar /\ o[k] # sp
  <2>1. \A k \in v + 1 .. Len(o) :
          (\E l \in 1 .. Len(c) : o[k] = c[l]) \/ (\E l \in 1 .. Len(m) : o[k] = m[l])
    BY Zenon DEF Laid
  <2> QED BY <1>d, <2>1, Zenon
<1>2. j = 2 * i /\ \A k \in 1 .. i - 1 : o[k] = o[i + k]
  BY DEF Repeats
<1>3. j <= v
  BY <1>0, <1>4
<1>5. CASE j <= u
  <2>1. i \in 1 .. Len(lang) /\ j \in 1 .. Len(lang) /\ lang[i] = sp /\ lang[j] = sp
    BY <1>0, <1>1, <1>5
  <2>2. \A k \in 1 .. i - 1 : lang[k] = lang[i + k]
    <3> SUFFICES ASSUME NEW k \in 1 .. i - 1  PROVE lang[k] = lang[i + k]
      OBVIOUS
    <3>1. k \in 1 .. u /\ i + k \in 1 .. u
      BY <1>0, <1>2, <1>5
    <3> QED BY <1>1, <1>2, <3>1
  <2>3. Repeats(lang, i, j)
    BY <1>2, <2>2 DEF Repeats
  <2> QED BY <2>1, <2>3, Zenon DEF WellNamed
<1>6. CASE j > u
  <2>1. terr # <<>> /\ o[u + 1] = bar
    BY <1>0, <1>1, <1>3, <1>6
  <2>a. Len(terr) \in Nat /\ v = u + 1 + Len(terr)
    BY <1>1, <2>1
  <2>2. \A k \in 1 .. Len(o) : o[k] = bar => k = u + 1
    <3> SUFFICES ASSUME NEW k \in 1 .. Len(o), k # u + 1  PROVE o[k] # bar
      OBVIOUS
    <3>1. CASE k <= u
      <4>1. k \in 1 .. u /\ k \in 1 .. Len(lang)
        BY <1>0, <3>1
      <4> QED BY <1>1, <1>c, <4>1
    <3>2. CASE k > u + 1 /\ k <= v
      <4>1. k - u - 1 \in 1 .. Len(terr) /\ u + 1 + (k - u - 1) = k
        BY <1>0, <2>a, <3>2
      <4> QED BY <1>1, <1>c, <2>1, <4>1
    <3>3. CASE k > v
      <4>1. k \in v + 1 .. Len(o)
        BY <1>0, <3>3
      <4> QED BY <1>4, <4>1
    <3> QED BY <1>0, <3>1, <3>2, <3>3
  <2>3. i # u + 1 /\ j # u + 1
    BY <1>b, <2>1
  <2>4. CASE i > u + 1
    <3>1. u + 1 \in 1 .. i - 1 /\ i + (u + 1) \in 1 .. Len(o) /\ i + (u + 1) # u + 1
      BY <1>0, <1>2, <2>4
    <3> QED BY <1>2, <2>1, <2>2, <3>1
  <2>5. CASE i <= u
    <3>0. j = 2 * i
      BY <1>2
    <3>a. j > u + 1
      <4>1. \A x, y \in Nat : x > y /\ x # y + 1 => x > y + 1
        OBVIOUS
      <4>2. j \in Nat /\ u \in Nat
        BY <1>0
      <4> QED BY <1>6, <2>3, <4>1, <4>2, Zenon
    <3>1. u + 1 - i \in 1 .. i - 1 /\ i + (u + 1 - i) = u + 1 /\ u + 1 - i \in 1 .. Len(o)
          /\ u + 1 - i # u + 1
      BY <1>0, <2>5, <3>0, <3>a
    <3> QED BY <1>2, <2>1, <2>2, <3>1
  <2> QED BY <1>0, <2>3, <2>4, <2>5
<1> QED BY <1>0, <1>5, <1>6

-----------------------------------------------------------------------------
\* The operators of Locales with the characters they look for as parameters.
LastByte(s, sp) ==
  LET first == L!Stop(s, 1, L!End(s), {sp})
      second == L!Stop(s, first + 1, L!End(s), {sp})
  IN  IF second < L!End(s) /\ L!Cut(s, 1, first) = L!Cut(s, first + 1, second)
      THEN first ELSE L!End(s)

CountryBy(s, last, bar, stops, ends) ==
  LET s1 == L!Stop(s, 1, last, stops)
  IN  IF L!At(s, s1) = bar THEN L!Cut(s, s1 + 1, L!Stop(s, s1 + 1, last, ends)) ELSE <<>>

\* A search goes on to the end or to a place that stops it.
LEMMA StopIs ==
  ASSUME NEW s, NEW i \in Nat, NEW last \in Nat, i <= last, NEW stops
  PROVE  LET m == L!Stop(s, i, last, stops)
         IN  /\ m \in i .. last
             /\ m # last => L!At(s, m) \in stops
<1> DEFINE found == {k \in i .. last - 1 : L!At(s, k) \in stops}
<1>1. CASE found = {}
  BY <1>1 DEF L!Stop
<1>2. CASE found # {}
  <2>1. found \subseteq Nat
    OBVIOUS
  <2>2. D!Least(found) \in found /\ \A j \in found : D!Least(found) <= j
    BY <1>2, <2>1, LeastOf
  <2>3. L!Stop(s, i, last, stops) = CHOOSE k \in found : \A j \in found : k <= j
    BY <1>2, Zenon DEF L!Stop
  <2>4. L!Stop(s, i, last, stops) \in found
    BY <2>2, <2>3
  <2> QED BY <2>4
<1> QED BY <1>1, <1>2

\* A name that is given once ends where it ends.
LEMMA OnceEnds ==
  ASSUME NEW o \in Seq(Char), NEW sp \in Char,
         \A a, b \in 1 .. Len(o) : a < b /\ o[a] = sp /\ o[b] = sp => ~Repeats(o, a, b)
  PROVE  LastByte(o, sp) = Len(o) + 1
<1> DEFINE first == L!Stop(o, 1, L!End(o), {sp})
           second == L!Stop(o, first + 1, L!End(o), {sp})
<1>1. LastByte(o, sp) = IF second < L!End(o) /\ L!Cut(o, 1, first) = L!Cut(o, first + 1, second)
                        THEN first ELSE L!End(o)
  BY Zenon DEF LastByte
<1>2. L!End(o) = Len(o) + 1 /\ Len(o) \in Nat
  BY DEF L!End
<1> HIDE DEF first, second
<1>3. first \in 1 .. Len(o) + 1 /\ (first # Len(o) + 1 => L!At(o, first) \in {sp})
  BY <1>2, StopIs DEF first
<1>4. CASE second < L!End(o) /\ first < L!End(o) /\ L!Cut(o, 1, first) = L!Cut(o, first + 1, second)
  <2>1. second \in first + 1 .. Len(o) + 1 /\ (second # Len(o) + 1 => L!At(o, second) \in {sp})
    BY <1>2, <1>3, <1>4, StopIs DEF second
  <2>2. /\ first \in 1 .. Len(o) /\ second \in 1 .. Len(o) /\ first < second
        /\ first <= Len(o) /\ second <= Len(o)
    BY <1>2, <1>3, <1>4, <2>1
  <2>3. o[first] = sp /\ o[second] = sp
    BY <1>3, <2>1, <2>2, AtPlace
  <2>4. SubSeq(o, 1, first - 1) = SubSeq(o, first + 1, second - 1)
    BY <1>4, Zenon DEF L!Cut
  <2> QED BY <2>2, <2>3, <2>4, EqualParts
<1>5. CASE first = L!End(o)
  BY <1>1, <1>2, <1>5
<1> QED BY <1>1, <1>2, <1>3, <1>4, <1>5

\* A name that is given twice, with a space behind each, ends at the first.
LEMMA TwiceEnds ==
  ASSUME NEW o \in Seq(Char), NEW sp \in Char, \A k \in 1 .. Len(o) : o[k] # sp
  PROVE  LET s == o \o <<sp>> \o o \o <<sp>>
         IN  /\ s \in Seq(Char) /\ Len(s) = 2 * Len(o) + 2
             /\ \A k \in 1 .. Len(o) : s[k] = o[k]
             /\ LastByte(s, sp) = Len(o) + 1
<1> DEFINE n == Len(o)
           x == o \o <<sp>>
           y == x \o o
           s == y \o <<sp>>
<1> HIDE DEF x, y, s, n
<1>1. o \in Seq(Char) /\ n \in Nat /\ n = Len(o)
  BY DEF n
<1>2. <<sp>> \in Seq(Char) /\ Len(<<sp>>) = 1 /\ <<sp>>[1] = sp
  BY CharacterSequences, Zenon
<1>3. /\ x \in Seq(Char) /\ Len(x) = Len(o) + Len(<<sp>>)
      /\ \A k \in 1 .. Len(o) : x[k] = o[k]
      /\ \A k \in 1 .. Len(<<sp>>) : x[Len(o) + k] = <<sp>>[k]
  BY <1>1, <1>2, Joined, Zenon DEF x
<1>4. /\ y \in Seq(Char) /\ Len(y) = Len(x) + Len(o)
      /\ \A k \in 1 .. Len(x) : y[k] = x[k]
      /\ \A k \in 1 .. Len(o) : y[Len(x) + k] = o[k]
  BY <1>1, <1>3, Joined, Zenon DEF y
<1>5. /\ s \in Seq(Char) /\ Len(s) = Len(y) + Len(<<sp>>)
      /\ \A k \in 1 .. Len(y) : s[k] = y[k]
      /\ \A k \in 1 .. Len(<<sp>>) : s[Len(y) + k] = <<sp>>[k]
  BY <1>2, <1>4, Joined, Zenon DEF s
<1>6. Len(x) = n + 1 /\ Len(y) = 2 * n + 1 /\ Len(s) = 2 * n + 2
  BY <1>1, <1>2, <1>3, <1>4, <1>5
<1>7. \A k \in 1 .. n : s[k] = o[k]
  BY <1>1, <1>3, <1>4, <1>5, <1>6
<1>8. s[n + 1] = sp
  <2>1. 1 \in 1 .. 1 /\ n + 1 \in 1 .. Len(x) /\ n + 1 \in 1 .. Len(y)
    BY <1>1, <1>6
  <2>2. x[n + 1] = sp
    BY <1>1, <1>2, <1>3, <2>1, Zenon
  <2> QED BY <1>4, <1>5, <2>1, <2>2
<1>9. \A k \in 1 .. n : s[n + 1 + k] = o[k]
  <2> SUFFICES ASSUME NEW k \in 1 .. n  PROVE s[n + 1 + k] = o[k]
    OBVIOUS
  <2>1. n + 1 + k \in 1 .. Len(y)
    BY <1>1, <1>6
  <2>2. y[n + 1 + k] = o[k]
    BY <1>1, <1>4, <1>6, Zenon
  <2> QED BY <1>5, <2>1, <2>2
<1>10. s[2 * n + 2] = sp
  <2>1. 1 \in 1 .. 1 /\ 2 * n + 1 + 1 = 2 * n + 2
    BY <1>1
  <2> QED BY <1>2, <1>5, <1>6, <2>1, Zenon
<1>11. L!End(s) = 2 * n + 3
  BY <1>6, <1>1 DEF L!End
<1>12. L!Stop(s, 1, L!End(s), {sp}) = n + 1 /\ L!Cut(s, 1, n + 1) = o
  <2>1. /\ 1 + Len(o) <= L!End(s) /\ L!End(s) <= Len(s) + 1 /\ L!End(s) \in Nat
        /\ 1 + Len(o) < L!End(s) /\ 1 + Len(o) = n + 1
    BY <1>1, <1>6, <1>11
  <2>2. \A k \in 1 .. Len(o) : s[1 - 1 + k] = o[k] /\ o[k] \notin {sp}
    BY <1>1, <1>7
  <2>3. s[1 + Len(o)] \in {sp}
    BY <1>8, <2>1
  <2>4. Begins(s, o, 1, L!End(s), {sp})
    BY <2>1, <2>2, <2>3, Zenon DEF Begins
  <2> QED BY <1>1, <1>5, <2>1, <2>4, CutAt
<1>13. /\ L!Stop(s, n + 2, L!End(s), {sp}) = 2 * n + 2
       /\ L!Cut(s, n + 2, 2 * n + 2) = o
  <2>1. /\ n + 2 + Len(o) <= L!End(s) /\ L!End(s) <= Len(s) + 1 /\ L!End(s) \in Nat
        /\ n + 2 \in Nat \ {0} /\ n + 2 + Len(o) = 2 * n + 2
    BY <1>1, <1>6, <1>11
  <2>2. \A k \in 1 .. Len(o) : s[(n + 2) - 1 + k] = o[k] /\ o[k] \notin {sp}
    <3> SUFFICES ASSUME NEW k \in 1 .. Len(o)  PROVE s[(n + 2) - 1 + k] = o[k]
      OBVIOUS
    <3>1. (n + 2) - 1 + k = n + 1 + k
      BY <1>1
    <3> QED BY <1>1, <1>9, <3>1
  <2>3. s[n + 2 + Len(o)] \in {sp}
    BY <1>10, <2>1
  <2>4. Begins(s, o, n + 2, L!End(s), {sp})
    BY <2>1, <2>2, <2>3, Zenon DEF Begins
  <2> QED BY <1>1, <1>5, <2>1, <2>4, CutAt
<1>14. LastByte(s, sp) = n + 1
  <2>1. n + 1 + 1 = n + 2 /\ 2 * n + 2 < L!End(s)
    BY <1>1, <1>11
  <2> QED BY <1>12, <1>13, <2>1, Zenon DEF LastByte
<1> QED BY <1>1, <1>5, <1>6, <1>7, <1>14, Zenon DEF s, y, x, n

\* In the first n places of s there is lang, behind a bar terr, and then one of
\* the characters ends.
Placed(s, lang, terr, u, v, n, bar, stops, ends) ==
  /\ lang \in Seq(Char) /\ terr \in Seq(Char) /\ s \in Seq(Char)
  /\ u \in Nat /\ v \in Nat /\ n \in Nat
  /\ u = Len(lang) /\ u <= v /\ v <= n /\ n <= Len(s)
  /\ bar \in stops /\ bar \notin ends /\ \A x \in ends : x \in stops
  /\ \A k \in 1 .. u : s[k] = lang[k] /\ lang[k] \notin stops
  /\ \A k \in 1 .. Len(terr) : s[u + 1 + k] = terr[k] /\ terr[k] \notin ends
  /\ Len(terr) = 0 => v = u /\ Len(s) = n
  /\ Len(terr) > 0 => v = u + 1 + Len(terr) /\ s[u + 1] = bar
  /\ v < n => s[v + 1] \in ends
  /\ L!At(s, Len(s) + 1) # bar

LEMMA CountryFound ==
  ASSUME NEW lang, NEW terr, NEW s, NEW u, NEW v, NEW n, NEW bar, NEW stops, NEW ends,
         Placed(s, lang, terr, u, v, n, bar, stops, ends)
  PROVE  /\ CountryBy(s, n + 1, bar, stops, ends) = terr
         /\ L!Cut(s, 1, L!Stop(s, 1, L!End(s), stops)) = lang
<1>t. /\ lang \in Seq(Char) /\ terr \in Seq(Char) /\ s \in Seq(Char)
      /\ u \in Nat /\ v \in Nat /\ n \in Nat
  BY Zenon DEF Placed
<1>0. /\ u \in Nat /\ v \in Nat /\ n \in Nat
      /\ u = Len(lang) /\ u <= v /\ v <= n /\ n <= Len(s) /\ Len(s) \in Nat /\ Len(terr) \in Nat
      /\ L!End(s) = Len(s) + 1
      /\ Len(terr) = 0 => v = u /\ Len(s) = n
      /\ Len(terr) > 0 => v = u + 1 + Len(terr)
  BY <1>t DEF Placed, L!End
<1>1. bar \in stops /\ bar \notin ends /\ \A x \in ends : x \in stops
  BY DEF Placed
<1>2. \A k \in 1 .. Len(lang) : s[1 - 1 + k] = lang[k] /\ lang[k] \notin stops
  <2>1. \A k \in 1 .. u : s[k] = lang[k] /\ lang[k] \notin stops
    BY Zenon DEF Placed
  <2>2. \A k \in 1 .. u : 1 - 1 + k = k
    OBVIOUS
  <2> QED BY <1>0, <2>1, <2>2, Zenon
<1>3. u < n => s[u + 1] \in stops
  <2>1. v < n => s[v + 1] \in ends
    BY Zenon DEF Placed
  <2>2. Len(terr) > 0 => s[u + 1] = bar
    BY Zenon DEF Placed
  <2>3. CASE Len(terr) > 0
    BY <1>1, <2>2, <2>3, Zenon
  <2>4. CASE Len(terr) = 0
    <3>1. v = u
      BY <1>0, <2>4
    <3> QED BY <1>1, <2>1, <3>1, Zenon
  <2> QED BY <1>0, <2>3, <2>4
<1>4. 1 + Len(lang) = u + 1 /\ 1 + Len(lang) <= n + 1 /\ n + 1 <= Len(s) + 1 /\ 1 \in Nat \ {0}
      /\ n + 1 \in Nat /\ 1 + Len(lang) <= L!End(s) /\ L!End(s) \in Nat /\ L!End(s) <= Len(s) + 1
  BY <1>0
<1>5. L!Stop(s, 1, n + 1, stops) = u + 1
  <2>1. 1 + Len(lang) < n + 1 => s[1 + Len(lang)] \in stops
    <3>1. 1 + Len(lang) < n + 1 => u < n
      BY <1>0
    <3> QED BY <1>3, <1>4, <3>1, Zenon
  <2>a. Begins(s, lang, 1, n + 1, stops)
    BY <1>2, <1>4, <2>1, Zenon DEF Begins
  <2>2. L!Stop(s, 1, n + 1, stops) = 1 + Len(lang)
    BY <1>4, <2>a, <1>t, CutAt
  <2> QED BY <1>4, <2>2, Zenon
<1>6. L!Cut(s, 1, L!Stop(s, 1, L!End(s), stops)) = lang
  <2>1. 1 + Len(lang) < L!End(s) => s[1 + Len(lang)] \in stops
    <3>1. ASSUME 1 + Len(lang) < L!End(s)  PROVE u < n
      <4>1. u < Len(s)
        BY <1>0, <3>1
      <4> QED BY <1>0, <4>1
    <3> QED BY <1>3, <1>4, <3>1, Zenon
  <2>a. Begins(s, lang, 1, L!End(s), stops)
    BY <1>2, <1>4, <2>1, Zenon DEF Begins
  <2>2. L!Stop(s, 1, L!End(s), stops) = 1 + Len(lang) /\ L!Cut(s, 1, 1 + Len(lang)) = lang
    BY <1>4, <2>a, <1>t, CutAt
  <2> QED BY <2>2, Zenon
<1>7. CASE Len(terr) = 0
  <2>1. L!At(s, u + 1) # bar
    <3>1. CASE u = n
      <4>1. u + 1 = Len(s) + 1
        BY <1>0, <1>7, <3>1
      <4>2. L!At(s, Len(s) + 1) # bar
        BY Zenon DEF Placed
      <4> QED BY <4>1, <4>2, Zenon
    <3>2. CASE u < n
      <4>1. v = u /\ v < n /\ u + 1 <= Len(s)
        BY <1>0, <1>7, <3>2
      <4>2. s[u + 1] \in ends
        BY <4>1, Zenon DEF Placed
      <4> QED BY <1>1, <4>1, <4>2, AtPlace, Zenon
    <3> QED BY <1>0, <3>1, <3>2
  <2>2. CountryBy(s, n + 1, bar, stops, ends) = <<>>
    BY <1>5, <2>1, Zenon DEF CountryBy
  <2>3. terr = <<>>
    BY <1>t, <1>7, EmptySeq
  <2> QED BY <1>6, <2>2, <2>3, Zenon
<1>8. CASE Len(terr) > 0
  <2>1. L!At(s, u + 1) = bar
    <3>1. s[u + 1] = bar
      BY <1>8, Zenon DEF Placed
    <3>2. u + 1 <= Len(s)
      BY <1>0, <1>8
    <3> QED BY <3>1, <3>2, AtPlace, Zenon
  <2>2. /\ u + 2 + Len(terr) <= n + 1 /\ u + 2 \in Nat \ {0} /\ u + 1 + 1 = u + 2
        /\ u + 2 + Len(terr) = v + 1
    BY <1>0, <1>8
  <2>3. \A k \in 1 .. Len(terr) : s[(u + 2) - 1 + k] = terr[k] /\ terr[k] \notin ends
    <3>1. \A k \in 1 .. Len(terr) : s[u + 1 + k] = terr[k] /\ terr[k] \notin ends
      BY Zenon DEF Placed
    <3>2. \A k \in 1 .. Len(terr) : (u + 2) - 1 + k = u + 1 + k
      BY <1>0
    <3> QED BY <3>1, <3>2, Zenon
  <2>4. u + 2 + Len(terr) < n + 1 => s[u + 2 + Len(terr)] \in ends
    <3>1. u + 2 + Len(terr) < n + 1 => v < n
      BY <1>0, <2>2
    <3>2. v < n => s[v + 1] \in ends
      BY Zenon DEF Placed
    <3> QED BY <2>2, <3>1, <3>2, Zenon
  <2>5. L!Stop(s, u + 2, n + 1, ends) = u + 2 + Len(terr) /\ L!Cut(s, u + 2, u + 2 + Len(terr)) = terr
    <3>1. Begins(s, terr, u + 2, n + 1, ends)
      BY <1>4, <2>2, <2>3, <2>4, Zenon DEF Begins
    <3> QED BY <1>4, <2>2, <3>1, <1>t, CutAt
  <2>6. CountryBy(s, n + 1, bar, stops, ends) = terr
    BY <1>5, <2>1, <2>2, <2>5, Zenon DEF CountryBy
  <2> QED BY <1>6, <2>6
<1> QED BY <1>0, <1>7, <1>8

\* A name, given once or twice.
Given(s, o, lang, terr, c, m, bar, sp, stops, ends, twice) ==
  /\ lang \in Seq(Char) /\ terr \in Seq(Char) /\ c \in Seq(Char) /\ m \in Seq(Char) /\ sp \in Char
  /\ WellNamed(lang, terr, c, m, bar, sp, stops, ends, twice)
  /\ Laid(o, Len(lang), Behind(lang, terr), lang, terr, c, m, bar)
  /\ twice => s = o \o <<sp>> \o o \o <<sp>>
  /\ ~twice => s = o
  /\ L!At(s, Len(s) + 1) # bar

\* Where a name ends and what is in it, given once or twice.
LEMMA NamePlaced ==
  ASSUME NEW lang, NEW terr, NEW c, NEW m, NEW bar, NEW sp, NEW stops, NEW ends, NEW twice,
         NEW o, NEW s, Given(s, o, lang, terr, c, m, bar, sp, stops, ends, twice)
  PROVE  /\ CountryBy(s, LastByte(s, sp), bar, stops, ends) = terr
         /\ L!Cut(s, 1, L!Stop(s, 1, L!End(s), stops)) = lang
<1> DEFINE u == Len(lang)
           v == Behind(lang, terr)
<1> HIDE DEF u, v
<1>a. /\ lang \in Seq(Char) /\ terr \in Seq(Char) /\ c \in Seq(Char) /\ m \in Seq(Char)
      /\ sp \in Char /\ WellNamed(lang, terr, c, m, bar, sp, stops, ends, twice)
  BY Zenon DEF Given
<1>g. /\ twice => s = o \o <<sp>> \o o \o <<sp>>
      /\ ~twice => s = o
      /\ L!At(s, Len(s) + 1) # bar
  BY Zenon DEF Given
<1>0. Laid(o, u, v, lang, terr, c, m, bar) /\ u = Len(lang) /\ Len(terr) \in Nat
  <2>1. Laid(o, u, v, lang, terr, c, m, bar)
    BY Zenon DEF Given, u, v
  <2> QED BY <1>a, <2>1 DEF u
<1>1. /\ u \in Nat /\ v \in Nat /\ o \in Seq(Char) /\ u <= v /\ v <= Len(o) /\ Len(o) \in Nat
  BY <1>0, <1>a DEF Laid
<1>2. \A k \in 1 .. u : o[k] = lang[k]
  BY <1>0, Zenon DEF Laid
<1>3. terr = <<>> => v = u
  BY <1>0, Zenon DEF Laid
<1>4. terr # <<>> =>
        /\ u < v /\ v = u + 1 + Len(terr) /\ o[u + 1] = bar
        /\ \A k \in 1 .. Len(terr) : o[u + 1 + k] = terr[k]
  BY <1>0, Zenon DEF Laid
<1>5. terr = <<>> <=> Len(terr) = 0
  BY <1>a, EmptySeq
<1>6. v < Len(o) => o[v + 1] \in ends
  BY <1>0, <1>a, Zenon DEF Laid, WellNamed
<1>7. /\ s \in Seq(Char) /\ Len(o) <= Len(s) /\ LastByte(s, sp) = Len(o) + 1
      /\ \A k \in 1 .. Len(o) : s[k] = o[k]
      /\ ~twice => Len(s) = Len(o)
  <2>1. CASE twice
    <3>1. ASSUME NEW k \in 1 .. Len(o)  PROVE o[k] # sp
      <4>1. /\ terr # <<>>
            /\ \A l \in 1 .. Len(lang) : lang[l] # sp
            /\ \A l \in 1 .. Len(terr) : terr[l] # sp
            /\ bar # sp
        BY <1>a, <2>1, Zenon DEF WellNamed
      <4>2. CASE k <= u
        <5>1. k \in 1 .. u
          BY <1>1, <4>2
        <5> QED BY <1>0, <1>2, <4>1, <5>1, Zenon
      <4>3. CASE k = u + 1
        BY <1>4, <4>1, <4>3, Zenon
      <4>4. CASE k > u + 1 /\ k <= v
        <5>1. k - u - 1 \in 1 .. Len(terr) /\ u + 1 + (k - u - 1) = k
          BY <1>0, <1>1, <1>4, <4>1, <4>4
        <5> QED BY <1>4, <4>1, <5>1, Zenon
      <4>5. CASE k > v
        <5>1. k \in v + 1 .. Len(o)
          BY <1>1, <4>5
        <5>2. \/ \E l \in 1 .. Len(c) : o[k] = c[l]
              \/ \E l \in 1 .. Len(m) : o[k] = m[l]
          BY <1>0, <5>1, Zenon DEF Laid
        <5> QED BY <1>a, <5>2, Zenon DEF WellNamed
      <4> QED BY <1>1, <4>2, <4>3, <4>4, <4>5
    <3>2. s = o \o <<sp>> \o o \o <<sp>>
      BY <1>g, <2>1, Zenon
    <3>3. /\ s \in Seq(Char) /\ Len(s) = 2 * Len(o) + 2
          /\ \A k \in 1 .. Len(o) : s[k] = o[k]
          /\ LastByte(s, sp) = Len(o) + 1
      BY <1>1, <3>1, <3>2, <1>a, TwiceEnds, Zenon
    <3>4. Len(o) <= Len(s)
      BY <1>1, <3>3
    <3> QED BY <2>1, <3>3, <3>4, Zenon
  <2>2. CASE ~twice
    <3>1. ASSUME NEW a \in 1 .. Len(o), NEW b \in 1 .. Len(o), a < b, o[a] = sp, o[b] = sp
          PROVE  ~Repeats(o, a, b)
      BY <1>0, <1>a, <3>1, Unrepeated, Zenon
    <3>2. LastByte(o, sp) = Len(o) + 1
      BY <1>1, <1>a, <3>1, OnceEnds, Zenon
    <3>3. s = o
      BY <1>g, <2>2, Zenon
    <3>4. Len(o) <= Len(o)
      BY <1>1
    <3> QED BY <1>1, <3>2, <3>3, <3>4, Zenon
  <2> QED BY <2>1, <2>2
<1>8. twice => terr # <<>>
  BY <1>a, Zenon DEF WellNamed
<1>9. Placed(s, lang, terr, u, v, Len(o), bar, stops, ends)
  <2>1. /\ u = Len(lang) /\ u <= v /\ v <= Len(o) /\ Len(o) <= Len(s)
    BY <1>0, <1>1, <1>7
  <2>2. \A k \in 1 .. u : s[k] = lang[k] /\ lang[k] \notin stops
    <3> SUFFICES ASSUME NEW k \in 1 .. u  PROVE s[k] = lang[k] /\ lang[k] \notin stops
      OBVIOUS
    <3>1. k \in 1 .. Len(o)
      BY <1>1
    <3>2. s[k] = lang[k]
      BY <1>2, <1>7, <3>1, Zenon
    <3> QED BY <1>0, <3>2, <1>a, Zenon DEF WellNamed
  <2>3. \A k \in 1 .. Len(terr) : s[u + 1 + k] = terr[k] /\ terr[k] \notin ends
    <3> SUFFICES ASSUME NEW k \in 1 .. Len(terr)  PROVE s[u + 1 + k] = terr[k] /\ terr[k] \notin ends
      OBVIOUS
    <3>1. terr # <<>>
      BY <1>0, <1>5
    <3>2. u + 1 + k \in 1 .. Len(o)
      BY <1>0, <1>1, <1>4, <3>1
    <3>3. s[u + 1 + k] = terr[k]
      BY <1>4, <1>7, <3>1, <3>2, Zenon
    <3> QED BY <3>3, <1>a, Zenon DEF WellNamed
  <2>4. Len(terr) = 0 => v = u /\ Len(s) = Len(o)
    BY <1>3, <1>5, <1>7, <1>8, Zenon
  <2>5. Len(terr) > 0 => v = u + 1 + Len(terr) /\ s[u + 1] = bar
    <3> SUFFICES ASSUME Len(terr) > 0  PROVE v = u + 1 + Len(terr) /\ s[u + 1] = bar
      OBVIOUS
    <3>1. terr # <<>>
      BY <1>0, <1>5
    <3>2. u + 1 \in 1 .. Len(o)
      BY <1>0, <1>1, <1>4, <3>1
    <3> QED BY <1>4, <1>7, <3>1, <3>2, Zenon
  <2>6. v < Len(o) => s[v + 1] \in ends
    <3>1. v < Len(o) => v + 1 \in 1 .. Len(o)
      BY <1>1
    <3> QED BY <1>6, <1>7, <3>1, Zenon
  <2>7. bar \in stops /\ bar \notin ends /\ \A x \in ends : x \in stops
    BY <1>a, Zenon DEF WellNamed
  <2> QED BY <1>1, <1>7, <1>a, <1>g, <2>1, <2>2, <2>3, <2>4, <2>5, <2>6, <2>7, Zenon DEF Placed
<1>10. /\ CountryBy(s, Len(o) + 1, bar, stops, ends) = terr
       /\ L!Cut(s, 1, L!Stop(s, 1, L!End(s), stops)) = lang
  BY <1>9, CountryFound
<1> QED BY <1>7, <1>10, Zenon

\* A sequence of two characters or of none.
TwoOrNone(s, x, y) ==
  /\ s \in Seq(Char) /\ (Len(s) > 0 => s[1] = x)
  /\ \A w : x # w /\ y # w => \A k \in 1 .. Len(s) : s[k] # w

LEMMA TwoOrNoneIs ==
  ASSUME NEW x \in Char, NEW y \in Char, NEW s, s = <<x, y>> \/ s = <<>>
  PROVE  TwoOrNone(s, x, y)
<1>1. CASE s = <<x, y>>
  <2>1. <<x, y>> \in Seq(Char) /\ <<x, y>>[1] = x
    BY CharacterSequences, Zenon
  <2>2. ASSUME NEW w, x # w, y # w, NEW k \in 1 .. Len(<<x, y>>)  PROVE <<x, y>>[k] # w
    BY <2>2
  <2> QED BY <1>1, <2>1, <2>2, Zenon DEF TwoOrNone
<1>2. CASE s = <<>>
  <2>1. s \in Seq(Char) /\ ~(Len(s) > 0)
    BY <1>2, EmptySeq
  <2>2. \A k \in 1 .. Len(s) : FALSE
    BY <1>2
  <2> QED BY <2>1, <2>2, Zenon DEF TwoOrNone
<1> QED BY <1>1, <1>2

\* The characters of a name.
LEMMA PlacesOf ==
  ASSUME NEW s \in Seq(STRING)
  PROVE  s \in Seq(Char) /\ DOMAIN s = 1 .. Len(s) /\ \A k \in 1 .. Len(s) : s[k] \in L!Range(s)
<1>1. STRING \subseteq Char
  BY Zenon DEF Char
<1>2. s \in Seq(Char)
  BY <1>1, SeqMonotonic
<1>3. DOMAIN s = 1 .. Len(s)
  BY LenProperties
<1> QED BY <1>2, <1>3, Zenon DEF L!Range

(***************************************************************************)
(* What the code takes for the language and the country in the name of a   *)
(* locale is the language and the territory that the name was made of.     *)
(***************************************************************************)
LEMMA PartsFound ==
  ASSUME L!NameAssumption, NEW p \in LocaleParts
  PROVE  /\ L!Language(L!Rendered(p)) = p.language
         /\ L!Country(L!Rendered(p)) = p.territory
<1> DEFINE lang == p.language
           terr == p.territory
           c == IF p.codeset THEN <<".", "a">> ELSE <<>>
           m == IF p.modifier THEN <<"@", "b">> ELSE <<>>
           o == lang \o (IF terr = <<>> THEN <<>> ELSE <<"_">> \o terr) \o c \o m
           s == L!Rendered(p)
           ends == {".", "@"}
<1>1. /\ lang \in Seq(STRING) /\ terr \in Seq(STRING)
      /\ L!Stops \cap (L!Range(lang) \cup L!Range(terr)) = {}
  BY DEF L!NameAssumption
<1>2. \A i, j \in DOMAIN lang :
        lang[i] = " " /\ lang[j] = " " => SubSeq(lang, 1, i - 1) # SubSeq(lang, i + 1, j - 1)
  BY Zenon DEF L!NameAssumption
<1>3. p.twice => terr # <<>> /\ " " \notin L!Range(lang) \cup L!Range(terr)
  BY Zenon DEF L!NameAssumption
<1>4. /\ (p.twice => s = o \o <<" ">> \o o \o <<" ">>)
      /\ (~p.twice => s = o)
  BY Zenon DEF L!Rendered
<1>5. (c = <<".", "a">> \/ c = <<>>) /\ (m = <<"@", "b">> \/ m = <<>>)
  BY Zenon
<1> HIDE DEF c, m, o, s, lang, terr, ends
<1>6. /\ "_" \in Char /\ "." \in Char /\ "@" \in Char /\ " " \in Char /\ "a" \in Char /\ "b" \in Char
  BY Zenon DEF Char
<1>a. TwoOrNone(c, ".", "a") /\ TwoOrNone(m, "@", "b")
  BY <1>5, <1>6, TwoOrNoneIs, Zenon
<1>7. /\ c \in Seq(Char) /\ (Len(c) > 0 => c[1] = ".")
      /\ \A w : "." # w /\ "a" # w => \A k \in 1 .. Len(c) : c[k] # w
  BY <1>a, Zenon DEF TwoOrNone
<1>8. /\ m \in Seq(Char) /\ (Len(m) > 0 => m[1] = "@")
      /\ \A w : "@" # w /\ "b" # w => \A k \in 1 .. Len(m) : m[k] # w
  BY <1>a, Zenon DEF TwoOrNone
<1>9. /\ lang \in Seq(Char) /\ DOMAIN lang = 1 .. Len(lang)
      /\ \A k \in 1 .. Len(lang) : lang[k] \in L!Range(lang)
      /\ terr \in Seq(Char) /\ \A k \in 1 .. Len(terr) : terr[k] \in L!Range(terr)
  BY <1>1, PlacesOf, Zenon
<1>10. Laid(o, Len(lang), Behind(lang, terr), lang, terr, c, m, "_")
  BY <1>6, <1>7, <1>8, <1>9, OnceIs, Zenon DEF o
<1>11. WellNamed(lang, terr, c, m, "_", " ", L!Stops, ends, p.twice)
  <2>1. "_" # " " /\ "_" \in L!Stops /\ "_" \notin ends /\ \A x \in ends : x \in L!Stops
    BY Zenon DEF L!Stops, ends
  <2>2. /\ \A k \in 1 .. Len(lang) : lang[k] \notin L!Stops
        /\ \A k \in 1 .. Len(terr) : terr[k] \notin L!Stops
    BY <1>1, <1>9, Zenon
  <2>3. /\ \A k \in 1 .. Len(c) : c[k] # "_" /\ c[k] # " "
        /\ \A k \in 1 .. Len(m) : m[k] # "_" /\ m[k] # " "
    <3>1. "." # "_" /\ "a" # "_" /\ "." # " " /\ "a" # " " /\ "@" # "_" /\ "b" # "_" /\ "@" # " " /\ "b" # " "
      BY Zenon
    <3> QED BY <1>7, <1>8, <3>1, Zenon
  <2>4. (Len(c) > 0 => c[1] \in ends) /\ (Len(m) > 0 => m[1] \in ends)
    BY <1>7, <1>8, Zenon DEF ends
  <2>5. ASSUME NEW a \in 1 .. Len(lang), NEW b \in 1 .. Len(lang), a < b, lang[a] = " ", lang[b] = " "
        PROVE  ~Repeats(lang, a, b)
    <3>1. SubSeq(lang, 1, a - 1) # SubSeq(lang, a + 1, b - 1)
      BY <1>2, <1>9, <2>5, Zenon
    <3> QED BY <1>9, <2>5, <3>1, EqualParts, Zenon
  <2>6. p.twice => /\ terr # <<>>
                   /\ \A k \in 1 .. Len(lang) : lang[k] # " "
                   /\ \A k \in 1 .. Len(terr) : terr[k] # " "
    BY <1>3, <1>9, Zenon
  <2> QED BY <2>1, <2>2, <2>3, <2>4, <2>5, <2>6, Zenon DEF WellNamed
<1>12. L!At(s, Len(s) + 1) # "_"
  <2>1. s \in Seq(Char)
    <3>1. o \in Seq(Char)
      BY <1>10, Zenon DEF Laid
    <3>2. <<" ">> \in Seq(Char)
      BY <1>6, CharacterSequences, Zenon
    <3>3. o \o <<" ">> \in Seq(Char)
      BY <3>1, <3>2, Joined, Zenon
    <3>4. (o \o <<" ">>) \o o \in Seq(Char)
      BY <3>1, <3>3, Joined, Zenon
    <3>5. ((o \o <<" ">>) \o o) \o <<" ">> \in Seq(Char)
      BY <3>2, <3>4, Joined, Zenon
    <3> QED BY <1>4, <3>1, <3>5, Zenon
  <2>2. ~(Len(s) + 1 <= Len(s))
    BY <2>1
  <2>3. "" # "_"
    BY Zenon
  <2> QED BY <2>2, <2>3, Zenon DEF L!At
<1>13. /\ CountryBy(s, LastByte(s, " "), "_", L!Stops, ends) = terr
       /\ L!Cut(s, 1, L!Stop(s, 1, L!End(s), L!Stops)) = lang
  <2> DEFINE bar == "_"
             sp == " "
             twice == p.twice
  <2>1. Given(s, o, lang, terr, c, m, bar, sp, L!Stops, ends, twice)
    BY <1>4, <1>6, <1>7, <1>8, <1>9, <1>10, <1>11, <1>12, Zenon DEF Given
  <2> HIDE DEF bar, sp, twice
  <2>2. /\ CountryBy(s, LastByte(s, sp), bar, L!Stops, ends) = terr
        /\ L!Cut(s, 1, L!Stop(s, 1, L!End(s), L!Stops)) = lang
    BY <2>1, NamePlaced
  <2> QED BY <2>2, Zenon DEF bar, sp
<1>14. L!str_get_last_byte(s) = LastByte(s, " ")
  BY Zenon DEF L!str_get_last_byte, LastByte
<1>15. L!Country(s) = CountryBy(s, L!str_get_last_byte(s), "_", L!Stops, ends)
  BY Zenon DEF L!Country, CountryBy, L!Stops, ends
<1>16. L!Language(s) = L!Cut(s, 1, L!Stop(s, 1, L!End(s), L!Stops))
  BY Zenon DEF L!Language, L!Stops
<1> QED BY <1>13, <1>14, <1>15, <1>16, Zenon DEF s, lang, terr

-----------------------------------------------------------------------------
\* The first row of a table that fits, if there is one.
LEMMA FirstRow ==
  ASSUME NEW I, I \subseteq Nat \ {0}
  PROVE  LET k == IF I # {} THEN L!Min(I) ELSE 0
         IN  /\ I = {} => k = 0
             /\ I # {} => k \in I /\ k # 0
<1>1. CASE I # {}
  <2>1. D!Least(I) \in I /\ \A j \in I : D!Least(I) <= j
    BY <1>1, LeastOf
  <2>2. L!Min(I) \in I
    BY <2>1 DEF L!Min
  <2> QED BY <1>1, <2>2
<1>2. CASE I = {}
  BY <1>2
<1> QED BY <1>1, <1>2

\* Letters of either case: the comparison of names is an equivalence.
LEMMA CaseSame ==
  ASSUME NEW x \in Seq(STRING), NEW y \in Seq(STRING)
  PROVE  /\ L!str_case_equals(x, y) => L!str_case_equals(y, x)
         /\ \A z \in Seq(STRING) :
              L!str_case_equals(x, y) /\ L!str_case_equals(y, z) => L!str_case_equals(x, z)
<1>1. \A s \in Seq(STRING) : DOMAIN s = 1 .. Len(s)
  BY LenProperties
<1> QED BY <1>1 DEF L!str_case_equals

\* A set of one code, or of none.
LEMMA OneCode == \A c, unknown : L!CodeOr({c}, unknown) = c /\ L!CodeOr({}, unknown) = unknown
  BY DEF L!CodeOr

\* The rows of a table are at its places.
LEMMA TableRows ==
  ASSUME L!TableAssumption
  PROVE  /\ DOMAIN iso_639 = 1 .. Len(iso_639)
         /\ \A i \in DOMAIN iso_639 : iso_639[i].name \in Seq(STRING)
         /\ DOMAIN iso_3166 = 1 .. Len(iso_3166)
         /\ \A i \in DOMAIN iso_3166 : iso_3166[i].name \in Seq(STRING)
<1> DEFINE Row == [two : Seq(STRING), three : Seq(STRING), name : Seq(STRING)]
           Country == [two : Seq(STRING), name : Seq(STRING)]
<1>1. iso_639 \in Seq(Row) /\ iso_3166 \in Seq(Country)
  BY Zenon DEF L!TableAssumption
<1>2. \A r \in Row : r.name \in Seq(STRING)
  OBVIOUS
<1>3. \A r \in Country : r.name \in Seq(STRING)
  OBVIOUS
<1> HIDE DEF Row, Country
<1>4. /\ DOMAIN iso_639 = 1 .. Len(iso_639)
      /\ \A i \in 1 .. Len(iso_639) : iso_639[i] \in Row
  BY <1>1
<1>5. /\ DOMAIN iso_3166 = 1 .. Len(iso_3166)
      /\ \A i \in 1 .. Len(iso_3166) : iso_3166[i] \in Country
  BY <1>1
<1> QED BY <1>2, <1>3, <1>4, <1>5, Zenon

\* The code for two letters is that of any row that has them.
LEMMA TwoLetters ==
  ASSUME L!TableAssumption, NEW x \in Seq(STRING), NEW unknown
  PROVE  L!CodeOr(L!iso_639_1_to_639_3(x), unknown)
           = L!CodeOr({row.three : row \in {r \in L!Range(iso_639) : r.two = x}}, unknown)
<1> DEFINE I == {i \in 1 .. Len(iso_639) : iso_639[i].two = x}
           k == IF I # {} THEN L!Min(I) ELSE 0
           codes == {row.three : row \in {r \in L!Range(iso_639) : r.two = x}}
<1>1. L!iso_639_1_to_639_3(x) = IF k = 0 THEN {} ELSE {iso_639[k].three}
  BY Zenon DEF L!iso_639_1_to_639_3, L!SelectInSeq
<1>2. DOMAIN iso_639 = 1 .. Len(iso_639)
  BY DEF L!TableAssumption
<1>3. I \subseteq Nat \ {0}
  OBVIOUS
<1>4. \A r, s \in L!Range(iso_639) : r.two = s.two => r.three = s.three
  BY Zenon DEF L!TableAssumption
<1>5. (I = {} => k = 0) /\ (I # {} => k \in I /\ k # 0)
  BY <1>3, FirstRow, Zenon
<1>6. CASE I = {}
  <2>1. codes = {}
    BY <1>2, <1>6 DEF L!Range
  <2> QED BY <1>1, <1>5, <1>6, <2>1, Zenon
<1>7. CASE I # {}
  <2>1. k \in I /\ k # 0
    BY <1>5, <1>7, Zenon
  <2>2. iso_639[k] \in L!Range(iso_639) /\ iso_639[k].two = x
    <3> HIDE DEF k
    <3> QED BY <1>2, <2>1 DEF L!Range
  <2>3. codes = {iso_639[k].three}
    <3> HIDE DEF k
    <3> QED BY <1>4, <2>2
  <2> QED BY <1>1, <2>1, <2>3, Zenon
<1> QED BY <1>6, <1>7

\* The code for a language's name is that of any row that has it.
LEMMA LanguageName ==
  ASSUME L!TableAssumption, NEW x \in Seq(STRING), NEW unknown
  PROVE  L!CodeOr(L!language_name_to_639_3(x), unknown)
           = L!CodeOr({row.three : row \in {r \in L!Range(iso_639) : L!str_case_equals(r.name, x)}}, unknown)
<1> DEFINE I == {i \in 1 .. Len(iso_639) : L!str_case_equals(x, iso_639[i].name)}
           k == IF I # {} THEN L!Min(I) ELSE 0
           codes == {row.three : row \in {r \in L!Range(iso_639) : L!str_case_equals(r.name, x)}}
<1>1. L!language_name_to_639_3(x) = IF k = 0 THEN {} ELSE {iso_639[k].three}
  BY Zenon DEF L!language_name_to_639_3, L!SelectInSeq
<1>2. DOMAIN iso_639 = 1 .. Len(iso_639) /\ \A i \in DOMAIN iso_639 : iso_639[i].name \in Seq(STRING)
  BY TableRows
<1>3. I \subseteq Nat \ {0}
  OBVIOUS
<1>4. \A r, s \in L!Range(iso_639) : L!str_case_equals(r.name, s.name) => r.three = s.three
  BY Zenon DEF L!TableAssumption
<1>5. (I = {} => k = 0) /\ (I # {} => k \in I /\ k # 0)
  BY <1>3, FirstRow, Zenon
<1>a. \A r \in L!Range(iso_639) : r.name \in Seq(STRING)
  BY <1>2, Zenon DEF L!Range
<1>6. CASE I = {}
  <2>1. ASSUME NEW r \in L!Range(iso_639), L!str_case_equals(r.name, x)  PROVE FALSE
    <3>1. PICK i \in DOMAIN iso_639 : r = iso_639[i]
      BY Zenon DEF L!Range
    <3>2. L!str_case_equals(x, iso_639[i].name)
      BY <1>a, <2>1, <3>1, CaseSame, Zenon
    <3> QED BY <1>2, <1>6, <3>2, Zenon
  <2>2. codes = {}
    BY <2>1, Zenon
  <2> QED BY <1>1, <1>5, <1>6, <2>2, Zenon
<1>7. CASE I # {}
  <2>1. k \in I /\ k # 0
    BY <1>5, <1>7, Zenon
  <2> HIDE DEF k
  <2>2. iso_639[k] \in L!Range(iso_639) /\ L!str_case_equals(x, iso_639[k].name)
    BY <1>2, <2>1, Zenon DEF L!Range
  <2>3. L!str_case_equals(iso_639[k].name, x)
    BY <1>a, <2>2, CaseSame, Zenon
  <2>4. ASSUME NEW r \in L!Range(iso_639), L!str_case_equals(r.name, x)
        PROVE  r.three = iso_639[k].three
    <3>1. L!str_case_equals(r.name, iso_639[k].name)
      BY <1>a, <2>2, <2>4, CaseSame, Zenon
    <3> QED BY <1>4, <2>2, <3>1, Zenon
  <2>5. codes = {iso_639[k].three}
    BY <2>2, <2>3, <2>4
  <2> QED BY <1>1, <2>1, <2>5, Zenon
<1> QED BY <1>6, <1>7

\* The code for a country's name is that of any row that has it.
LEMMA CountryName ==
  ASSUME L!TableAssumption, NEW x \in Seq(STRING), NEW unknown
  PROVE  L!CodeOr(L!country_name_to_3166(x), unknown)
           = L!CodeOr({row.two : row \in {r \in L!Range(iso_3166) : L!str_case_equals(r.name, x)}}, unknown)
<1> DEFINE I == {i \in 1 .. Len(iso_3166) : L!str_case_equals(x, iso_3166[i].name)}
           k == IF I # {} THEN L!Min(I) ELSE 0
           codes == {row.two : row \in {r \in L!Range(iso_3166) : L!str_case_equals(r.name, x)}}
<1>1. L!country_name_to_3166(x) = IF k = 0 THEN {} ELSE {iso_3166[k].two}
  BY Zenon DEF L!country_name_to_3166, L!SelectInSeq
<1>2. DOMAIN iso_3166 = 1 .. Len(iso_3166) /\ \A i \in DOMAIN iso_3166 : iso_3166[i].name \in Seq(STRING)
  BY TableRows
<1>3. I \subseteq Nat \ {0}
  OBVIOUS
<1>4. \A r, s \in L!Range(iso_3166) : L!str_case_equals(r.name, s.name) => r.two = s.two
  BY Zenon DEF L!TableAssumption
<1>5. (I = {} => k = 0) /\ (I # {} => k \in I /\ k # 0)
  BY <1>3, FirstRow, Zenon
<1>a. \A r \in L!Range(iso_3166) : r.name \in Seq(STRING)
  BY <1>2, Zenon DEF L!Range
<1>6. CASE I = {}
  <2>1. ASSUME NEW r \in L!Range(iso_3166), L!str_case_equals(r.name, x)  PROVE FALSE
    <3>1. PICK i \in DOMAIN iso_3166 : r = iso_3166[i]
      BY Zenon DEF L!Range
    <3>2. L!str_case_equals(x, iso_3166[i].name)
      BY <1>a, <2>1, <3>1, CaseSame, Zenon
    <3> QED BY <1>2, <1>6, <3>2, Zenon
  <2>2. codes = {}
    BY <2>1, Zenon
  <2> QED BY <1>1, <1>5, <1>6, <2>2, Zenon
<1>7. CASE I # {}
  <2>1. k \in I /\ k # 0
    BY <1>5, <1>7, Zenon
  <2> HIDE DEF k
  <2>2. iso_3166[k] \in L!Range(iso_3166) /\ L!str_case_equals(x, iso_3166[k].name)
    BY <1>2, <2>1, Zenon DEF L!Range
  <2>3. L!str_case_equals(iso_3166[k].name, x)
    BY <1>a, <2>2, CaseSame, Zenon
  <2>4. ASSUME NEW r \in L!Range(iso_3166), L!str_case_equals(r.name, x)
        PROVE  r.two = iso_3166[k].two
    <3>1. L!str_case_equals(r.name, iso_3166[k].name)
      BY <1>a, <2>2, <2>4, CaseSame, Zenon
    <3> QED BY <1>4, <2>2, <3>1, Zenon
  <2>5. codes = {iso_3166[k].two}
    BY <2>2, <2>3, <2>4
  <2> QED BY <1>1, <2>1, <2>5, Zenon
<1> QED BY <1>6, <1>7

\* The codes that the calls make of a rendered name are those of its parts.
LEMMA LanguageCode ==
  ASSUME L!NameAssumption, L!TableAssumption, NEW p \in LocaleParts
  PROVE  L!c_get_language_code(L!Rendered(p)) = L!LanguageOf(p)
<1> DEFINE x == p.language
           n == Len(x)
           rows == {row \in L!Range(iso_639) : \/ n = 2 /\ row.two = x
                                               \/ n > 3 /\ L!str_case_equals(row.name, x)}
           codes == {row.three : row \in rows}
<1>1. x \in Seq(STRING)
  BY DEF L!NameAssumption
<1> HIDE DEF x
<1>2. n \in Nat
  BY <1>1
<1>3. L!c_get_language_code(L!Rendered(p)) =
        CASE n < 2 -> L!Und
          [] n = 2 -> L!CodeOr(L!iso_639_1_to_639_3(x), L!Und)
          [] n = 3 -> x
          [] OTHER -> L!CodeOr(L!language_name_to_639_3(x), L!Und)
  BY PartsFound, Zenon DEF L!c_get_language_code, x
<1>4. L!LanguageOf(p) = IF n = 3 THEN x ELSE L!CodeOr(codes, L!Und)
  BY Zenon DEF L!LanguageOf, x
<1> HIDE DEF n
<1>5. CASE n < 2
  <2>1. rows = {}
    BY <1>2, <1>5
  <2>2. codes = {}
    BY <2>1, Zenon
  <2>3. n # 3 /\ n # 2
    BY <1>5, <1>2
  <2>4. L!c_get_language_code(L!Rendered(p)) = L!Und
    BY <1>3, <1>5, <2>3
  <2> QED BY <1>4, <2>2, <2>3, <2>4, OneCode, Zenon
<1>6. CASE n = 2
  <2>1. rows = {r \in L!Range(iso_639) : r.two = x}
    BY <1>6
  <2>2. L!c_get_language_code(L!Rendered(p)) = L!CodeOr(L!iso_639_1_to_639_3(x), L!Und)
    BY <1>3, <1>6
  <2>3. n # 3
    BY <1>6
  <2> QED BY <1>1, <1>4, <2>1, <2>2, <2>3, TwoLetters, Zenon
<1>7. CASE n = 3
  BY <1>3, <1>4, <1>7
<1>8. CASE n > 3
  <2>1. rows = {r \in L!Range(iso_639) : L!str_case_equals(r.name, x)}
    BY <1>2, <1>8
  <2>2. L!c_get_language_code(L!Rendered(p)) = L!CodeOr(L!language_name_to_639_3(x), L!Und)
    BY <1>2, <1>3, <1>8
  <2>3. n # 3
    BY <1>2, <1>8
  <2> QED BY <1>1, <1>4, <2>1, <2>2, <2>3, LanguageName, Zenon
<1> QED BY <1>2, <1>5, <1>6, <1>7, <1>8

LEMMA CountryCode ==
  ASSUME L!NameAssumption, L!TableAssumption, NEW p \in LocaleParts
  PROVE  L!c_get_country_code(L!Rendered(p)) = L!CountryOf(p)
<1> DEFINE x == p.territory
           n == Len(x)
           rows == {row \in L!Range(iso_3166) : n > 3 /\ L!str_case_equals(row.name, x)}
           codes == {row.two : row \in rows}
<1>1. x \in Seq(STRING)
  BY DEF L!NameAssumption
<1> HIDE DEF x
<1>2. n \in Nat
  BY <1>1
<1>3. L!c_get_country_code(L!Rendered(p)) =
        CASE n = 2 -> x
          [] n > 3 -> L!CodeOr(L!country_name_to_3166(x), L!ZZ)
          [] OTHER -> L!ZZ
  BY PartsFound, Zenon DEF L!c_get_country_code, x
<1>4. L!CountryOf(p) = IF n = 2 THEN x ELSE L!CodeOr(codes, L!ZZ)
  BY Zenon DEF L!CountryOf, x
<1> HIDE DEF n
<1>5. CASE n = 2
  BY <1>3, <1>4, <1>5
<1>6. CASE n > 3
  <2>1. rows = {r \in L!Range(iso_3166) : L!str_case_equals(r.name, x)}
    BY <1>6
  <2>2. L!c_get_country_code(L!Rendered(p)) = L!CodeOr(L!country_name_to_3166(x), L!ZZ)
    BY <1>2, <1>3, <1>6
  <2>3. n # 2
    BY <1>2, <1>6
  <2> QED BY <1>1, <1>4, <2>1, <2>2, <2>3, CountryName, Zenon
<1>7. CASE n # 2 /\ ~(n > 3)
  <2>1. codes = {}
    BY <1>7
  <2>2. L!c_get_country_code(L!Rendered(p)) = L!ZZ
    BY <1>3, <1>7
  <2> QED BY <1>4, <1>7, <2>1, <2>2, OneCode, Zenon
<1> QED BY <1>5, <1>6, <1>7

\* The code that the one task has is what the code makes of the name.
CodesInv ==
  \A t \in LocaleTasks : pc[t] = "idle" /\ code[t] # <<>> =>
    code[t] = IF asks[t] = "language" THEN L!c_get_language_code(L!Rendered(named))
              ELSE L!c_get_country_code(L!Rendered(named))

LEMMA CodesStep ==
  ASSUME \A t, u \in LocaleTasks : t = u, LocaleInv, CodesInv, [L!Next]_L!vars
  PROVE  CodesInv'
<1>1. ASSUME NEW t \in LocaleTasks, L!SaveLocale(t)  PROVE CodesInv'
  BY <1>1 DEF LocaleInv, CodesInv, L!SaveLocale, L!Go
<1>2. ASSUME NEW t \in LocaleTasks, L!SetEnvironmentLocale(t)  PROVE CodesInv'
  BY <1>2 DEF LocaleInv, CodesInv, L!SetEnvironmentLocale, L!Go
<1>3. ASSUME NEW t \in LocaleTasks, L!GetLocale(t)  PROVE CodesInv'
  BY <1>3 DEF LocaleInv, CodesInv, L!GetLocale, L!Go
<1>4. ASSUME NEW t \in LocaleTasks, L!RestoreLocale(t)  PROVE CodesInv'
  <2>1. /\ lc_all[t] = L!Rendered(named) /\ locale = L!Rendered(named)
        /\ named' = named /\ asks' = asks
    BY <1>4 DEF LocaleInv, L!RestoreLocale, L!Go
  <2>2. code'[t] = IF asks[t] = "language" THEN L!c_get_language_code(L!Rendered(named))
                   ELSE L!c_get_country_code(L!Rendered(named))
    BY <1>4, <2>1 DEF LocaleInv, L!RestoreLocale, L!PointedTo
  <2>3. \A u \in LocaleTasks : u = t
    OBVIOUS
  <2> QED BY <2>1, <2>2, <2>3, Zenon DEF CodesInv
<1>5. ASSUME UNCHANGED L!vars  PROVE CodesInv'
  BY <1>5 DEF LocaleInv, CodesInv, L!vars
<1> QED BY <1>1, <1>2, <1>3, <1>4, <1>5 DEF L!Next

THEOREM CodesOfThePartsHolds ==
  ASSUME \A t, u \in LocaleTasks : t = u, L!NameAssumption, L!TableAssumption
  PROVE  L!Spec => []L!CodesOfTheParts
<1>1. L!Init => CodesInv
  BY DEF L!Init, CodesInv
<1>2. LocaleInv /\ [L!Next]_L!vars => LocaleInv'
  BY LocaleStep
<1>3. LocaleInv /\ CodesInv /\ [L!Next]_L!vars => CodesInv'
  BY CodesStep
<1>4. LocaleInv /\ CodesInv => L!CodesOfTheParts
  <2>1. named \in LocaleParts =>
          /\ L!c_get_language_code(L!Rendered(named)) = L!LanguageOf(named)
          /\ L!c_get_country_code(L!Rendered(named)) = L!CountryOf(named)
    BY LanguageCode, CountryCode, Zenon
  <2> QED BY <2>1, Zenon DEF LocaleInv, CodesInv, L!CodesOfTheParts
<1> QED BY <1>1, <1>2, <1>3, <1>4, LocaleInit, PTL DEF L!Spec

-----------------------------------------------------------------------------
(***************************************************************************)
(* Files and attributes.                                                   *)
(***************************************************************************)
Bits == {"READONLY", "HIDDEN"}
Kinds == {"none", "file", "dir"}
File == [kind : Kinds, bits : SUBSET Bits, time : Int, length : Nat]

\* What a task does, with the files it names: a file is named by a call that
\* has begun, and none of them is the lock file.
FileCall == [at : {"idle", "locked", "set_writable", "set_non_writable", "from", "gettime",
                   "to", "settime", "bits", "setbits", "stat"},
             from : AllFiles \cup {NoName}, to : AllFiles \cup {NoName}, mode : 0 .. 2,
             time : Int, bits : SUBSET Bits, question : F!OfStat \cup {"none"},
             error : {"none", "ENOENT", "EACCES"}]

FileTyped ==
  /\ file \in [AllFiles -> File]
  /\ now \in Nat
  /\ fd \in [Tasks -> AllFiles \cup {NoName}]
  /\ handle \in [Tasks -> AllFiles \cup {NoName}]
  /\ subject \in [Tasks -> AllFiles \cup {NoName}]
  /\ filecall \in [Tasks -> FileCall]
  /\ holds \subseteq Tasks

\* A copy has both of its files, a change of the bits has one.
FilesNamed ==
  \A t \in Tasks :
    /\ filecall[t].at \in {"from", "gettime", "to", "settime"} =>
         filecall[t].from \in AllFiles /\ filecall[t].to \in AllFiles
    /\ filecall[t].at \in {"set_writable", "set_non_writable", "bits", "setbits"} => filecall[t].to \in AllFiles
    /\ filecall[t].at = "bits" => filecall[t].from \in AllFiles

\* Who has the lock, or has opened its file and will have it.
HasLock(t) == t \in holds \/ filecall[t].at = "locked"

OneHasLock ==
  /\ \A t, u \in Tasks : HasLock(t) /\ HasLock(u) => t = u
  /\ \A t \in Tasks : HasLock(t) => F!Exists(LockFile)

FilesInv == FileTyped /\ FilesNamed /\ F!NobodyLockedOut /\ OneHasLock

-----------------------------------------------------------------------------
(***************************************************************************)
(* The operators the calls are built from.                                 *)
(***************************************************************************)

\* A change is of one file.
LEMMA ChangeTyped ==
  ASSUME FileTyped, NEW n \in AllFiles, NEW f \in File, F!Change(n, f)
  PROVE  /\ file' \in [AllFiles -> File] /\ now' \in Nat
         /\ file'[n] = f /\ \A m \in AllFiles : m # n => file'[m] = file[m]
  BY DEF FileTyped, F!Change

LEMMA FileType ==
  ASSUME FileTyped
  PROVE  /\ F!NoFile \in File /\ F!NewFile \in File
         /\ \A n \in AllFiles, b \in SUBSET Bits : [file[n] EXCEPT !.bits = b] \in File
         /\ \A n \in AllFiles, i \in Int : [file[n] EXCEPT !.time = i] \in File
         /\ \A n \in AllFiles : [file[n] EXCEPT !.length = 0, !.time = now + 1] \in File
         /\ \A n \in AllFiles : [file[n] EXCEPT !.length = @ + 1, !.time = now + 1] \in File
<1> /\ now \in Nat /\ \A n \in AllFiles : file[n] \in File
  BY DEF FileTyped
<1>1. F!NoFile \in File /\ F!NewFile \in File
  BY DEF File, F!NoFile, F!NewFile, Kinds
<1>2. ASSUME NEW f \in File, NEW b \in SUBSET Bits  PROVE [f EXCEPT !.bits = b] \in File
  BY <1>2 DEF File
<1>3. ASSUME NEW f \in File, NEW i \in Int  PROVE [f EXCEPT !.time = i] \in File
  BY <1>3 DEF File
<1>4. ASSUME NEW f \in File, NEW l \in Nat, NEW i \in Int
      PROVE  [f EXCEPT !.length = l, !.time = i] \in File
  BY <1>4 DEF File
<1>5. ASSUME NEW n \in AllFiles
      PROVE  /\ [file[n] EXCEPT !.length = 0, !.time = now + 1] \in File
             /\ [file[n] EXCEPT !.length = @ + 1, !.time = now + 1] \in File
  <2>1. /\ file[n] \in File /\ now + 1 \in Int /\ 0 \in Nat
        /\ file[n].length + 1 \in Nat
    BY DEF File
  <2> QED BY <1>4, <2>1, Zenon
<1>6. ASSUME NEW n \in AllFiles, NEW b \in SUBSET Bits  PROVE [file[n] EXCEPT !.bits = b] \in File
  BY <1>2, Zenon
<1>7. ASSUME NEW n \in AllFiles, NEW i \in Int  PROVE [file[n] EXCEPT !.time = i] \in File
  BY <1>3, Zenon
<1> QED BY <1>1, <1>5, <1>6, <1>7, Zenon

\* What no call but one on the lock file does to the files.
Harmless ==
  /\ file' \in [AllFiles -> File] /\ now' \in Nat
  /\ F!Exists(LockFile) => F!Exists(LockFile)'

LEMMA KeepHarmless == FileTyped /\ F!Keep => Harmless
  BY DEF FileTyped, F!Keep, Harmless, F!Exists

LEMMA ChangeHarmless ==
  ASSUME F!NameAssumption, FileTyped, NEW n \in AllFiles, NEW f \in File, F!Change(n, f),
         n # LockFile \/ f.kind # "none" \/ f.kind = file[n].kind
  PROVE  Harmless
<1>1. /\ file' \in [AllFiles -> File] /\ now' \in Nat
      /\ file'[n] = f /\ \A m \in AllFiles : m # n => file'[m] = file[m]
  BY ChangeTyped
<1>2. file'[LockFile].kind = file[LockFile].kind \/ file'[LockFile].kind # "none"
  BY <1>1 DEF F!NameAssumption
<1> QED BY <1>1, <1>2 DEF Harmless, F!Exists

LEMMA SetBitsHarmless ==
  ASSUME F!NameAssumption, FileTyped, NEW n \in AllFiles, NEW b \in SUBSET Bits, F!SetBits(n, b)
  PROVE  Harmless
<1>1. CASE F!Exists(n)
  <2>1. F!Change(n, [file[n] EXCEPT !.bits = b]) /\ [file[n] EXCEPT !.bits = b].kind = file[n].kind
    BY <1>1 DEF F!SetBits, FileTyped, File
  <2> QED BY <1>1, <2>1, ChangeHarmless, FileType DEF F!Exists
<1>2. CASE ~F!Exists(n)
  BY <1>2, KeepHarmless DEF F!SetBits
<1> QED BY <1>1, <1>2

LEMMA TopenHarmless ==
  ASSUME F!NameAssumption, FileTyped, NEW t \in Tasks, NEW n \in AllFiles, NEW flags, F!_topen(t, n, flags)
  PROVE  /\ Harmless
         /\ fd' \in [Tasks -> AllFiles \cup {NoName}]
         /\ \A u \in Tasks : fd'[u] = fd[u] \/ (F!CanOpen(n, flags) /\ fd'[u] = n)
         /\ F!CanOpen(n, flags) => fd'[t] = n /\ F!Exists(n)'
<1>1. CASE ~F!CanOpen(n, flags)
  BY <1>1, KeepHarmless DEF F!_topen, FileTyped
<1>2. CASE F!CanOpen(n, flags)
  <2>1. /\ fd' = [fd EXCEPT ![t] = n]
        /\ \/ F!Keep /\ F!Exists(n)
           \/ F!Exists(n) /\ F!Change(n, [file[n] EXCEPT !.length = 0, !.time = now + 1])
           \/ F!Change(n, F!NewFile)
    BY <1>2 DEF F!_topen
  <2>2. /\ F!Exists(n) => [file[n] EXCEPT !.length = 0, !.time = now + 1].kind # "none"
        /\ F!NewFile.kind # "none"
    BY DEF F!Exists, F!NewFile, FileTyped, File
  <2>3. Harmless /\ F!Exists(n)'
    BY <2>1, <2>2, FileType, ChangeHarmless, ChangeTyped, KeepHarmless DEF F!Exists, F!Keep
  <2> QED BY <1>2, <2>1, <2>3 DEF FileTyped
<1> QED BY <1>1, <1>2

\* What becomes of a call.
LEMMA IdleType == F!Idle \in FileCall /\ F!Idle.at = "idle"
  BY DEF F!Idle, FileCall

LEMMA CallAt ==
  ASSUME NEW c \in FileCall, NEW d \in {"idle", "locked", "from", "gettime", "to", "settime", "bits"}
  PROVE  /\ [c EXCEPT !.at = d] \in FileCall
         /\ [c EXCEPT !.at = d].at = d
         /\ [c EXCEPT !.at = d].from = c.from /\ [c EXCEPT !.at = d].to = c.to
  BY DEF FileCall

LEMMA CallTime ==
  ASSUME NEW c \in FileCall, NEW i \in Int
  PROVE  /\ [c EXCEPT !.at = "to", !.time = i] \in FileCall
         /\ [c EXCEPT !.at = "to", !.time = i].at = "to"
         /\ [c EXCEPT !.at = "to", !.time = i].from = c.from
         /\ [c EXCEPT !.at = "to", !.time = i].to = c.to
  BY DEF FileCall

LEMMA CallBits ==
  ASSUME NEW c \in FileCall, NEW b \in SUBSET Bits
  PROVE  /\ [c EXCEPT !.at = "setbits", !.bits = b] \in FileCall
         /\ [c EXCEPT !.at = "setbits", !.bits = b].at = "setbits"
         /\ [c EXCEPT !.at = "setbits", !.bits = b].to = c.to
  BY DEF FileCall

Setting == {"set_writable", "set_non_writable"}
Copying == {"from", "bits"}
Modes == 0 .. 2

SetCall(c, d, n, b) == [c EXCEPT !.at = d, !.to = n, !.bits = b]
CopyCall(c, d, n, m, i) == [c EXCEPT !.at = d, !.from = n, !.to = m, !.mode = i]

LEMMA CallSet ==
  ASSUME NEW c \in FileCall, NEW d \in Setting, NEW n \in AllFiles, NEW b \in SUBSET Bits
  PROVE  /\ SetCall(c, d, n, b) \in FileCall
         /\ SetCall(c, d, n, b).at = d /\ SetCall(c, d, n, b).to = n
  BY DEF FileCall, Setting, SetCall

LEMMA CallCopy ==
  ASSUME NEW c \in FileCall, NEW d \in Copying, NEW n \in AllFiles, NEW m \in AllFiles, NEW i \in Modes
  PROVE  /\ CopyCall(c, d, n, m, i) \in FileCall
         /\ CopyCall(c, d, n, m, i).at = d
         /\ CopyCall(c, d, n, m, i).from = n /\ CopyCall(c, d, n, m, i).to = m
  BY DEF FileCall, Copying, CopyCall, Modes

StatCall(c, q, e) == [c EXCEPT !.at = "stat", !.question = q, !.error = e]

LEMMA CallStat ==
  ASSUME NEW c \in FileCall, NEW q \in F!OfStat, NEW e \in {"ENOENT", "EACCES"}
  PROVE  /\ StatCall(c, q, e) \in FileCall
         /\ StatCall(c, q, e).at = "stat" /\ StatCall(c, q, e).error = e
  BY DEF FileCall, StatCall

-----------------------------------------------------------------------------
\* Only Unlock_File takes the lock file away.
LEMMA NextFiles ==
  ASSUME F!NameAssumption, FileTyped, FilesNamed, [F!Next]_F!vars
  PROVE  /\ file' \in [AllFiles -> File] /\ now' \in Nat
         /\ Harmless \/ \E t \in Tasks : F!Unlock_File(t)
<1>0. ASSUME Harmless
      PROVE  file' \in [AllFiles -> File] /\ now' \in Nat
  BY <1>0 DEF Harmless
<1>1. ASSUME F!Keep  PROVE Harmless
  BY <1>1, KeepHarmless
<1>2. CASE UNCHANGED F!vars
  BY <1>0, <1>1, <1>2 DEF F!vars, F!Keep
<1>3. ASSUME NEW t \in Tasks,
             \/ F!close(t) \/ F!try_lock(t) \/ F!SetFileAttributes(t) \/ F!CopyOpenFrom(t)
             \/ F!CopyGetTime(t) \/ F!CopyOpenTo(t) \/ F!CopySetTime(t) \/ F!CopyGetBits(t)
             \/ F!CopySetBits(t) \/ F!stat_exists(t)
             \/ \E q \in Questions : F!ask(t, q) \/ F!stat(t, q)
      PROVE  Harmless
  <2>1. CASE F!close(t) \/ F!CopyOpenFrom(t) \/ F!CopyGetTime(t) \/ F!CopyOpenTo(t) \/ F!CopyGetBits(t)
             \/ F!stat_exists(t) \/ \E q \in Questions : F!ask(t, q) \/ F!stat(t, q)
    BY <1>1, <2>1 DEF F!close, F!CopyOpenFrom, F!CopyGetTime, F!CopyOpenTo, F!CopyGetBits, F!ask, F!stat,
       F!stat_exists, F!OpenAlone, F!Keep
  <2>2. CASE F!try_lock(t)
    BY <2>2, TopenHarmless DEF F!try_lock, F!NameAssumption
  <2>3. /\ filecall[t] \in FileCall /\ filecall[t].bits \in SUBSET Bits /\ filecall[t].time \in Int
        /\ filecall[t].bits \ {"READONLY"} \in SUBSET Bits
        /\ filecall[t].bits \cup {"READONLY"} \in SUBSET Bits
    BY DEF FileTyped, FileCall, Bits
  <2>4. CASE F!SetFileAttributes(t)
    <3>1. filecall[t].to \in AllFiles
      BY <2>4 DEF F!SetFileAttributes, FilesNamed
    <3> QED BY <2>3, <2>4, <3>1, SetBitsHarmless DEF F!SetFileAttributes
  <2>5. CASE F!CopySetBits(t)
    <3>1. filecall[t].to \in AllFiles
      BY <2>5 DEF F!CopySetBits, FilesNamed
    <3> QED BY <2>3, <2>5, <3>1, SetBitsHarmless DEF F!CopySetBits
  <2>6. CASE F!CopySetTime(t)
    <3>1. filecall[t].to \in AllFiles
      BY <2>6 DEF F!CopySetTime, FilesNamed
    <3> DEFINE f == [file[filecall[t].to] EXCEPT !.time = filecall[t].time]
    <3>2. f \in File
      BY <2>3, <3>1, FileType
    <3>3. f.kind = file[filecall[t].to].kind
      BY <3>1 DEF FileTyped, File
    <3>4. F!Keep \/ F!Change(filecall[t].to, f)
      BY <2>6 DEF F!CopySetTime
    <3> HIDE DEF f
    <3> QED BY <1>1, <3>1, <3>2, <3>3, <3>4, ChangeHarmless
  <2> QED BY <1>3, <2>1, <2>2, <2>4, <2>5, <2>6
<1>4. ASSUME NEW t \in Tasks, NEW n \in AllFiles,
             \/ F!open(t, n) \/ F!unlink(t, n) \/ F!Elsewhere(t, n) \/ F!reset_attributes(t, n)
             \/ F!GetFileAttributes(t, n) \/ \E m \in AllFiles : F!copy_attribs(t, n, m)
      PROVE  Harmless
  <2>1. CASE \/ F!reset_attributes(t, n) \/ F!GetFileAttributes(t, n)
             \/ \E m \in AllFiles : F!copy_attribs(t, n, m)
    <3>1. file' = file /\ now' = now
      BY <2>1 DEF F!reset_attributes, F!GetFileAttributes, F!copy_attribs
    <3> QED BY <3>1 DEF Harmless, FileTyped, F!Exists
  <2>2. CASE F!open(t, n)
    BY <2>2, TopenHarmless DEF F!open
  <2>3. CASE F!unlink(t, n)
    <3>1. n # LockFile /\ (F!Keep \/ F!Change(n, F!NoFile))
      BY <2>3 DEF F!unlink, F!_tunlink
    <3> QED BY <1>1, <3>1, ChangeHarmless, FileType
  <2>4. CASE F!Elsewhere(t, n)
    <3>1. file[n] \in File /\ file[n].kind = "file" /\ file[n].bits \cup {"HIDDEN"} \in SUBSET Bits
      BY <2>4 DEF F!Elsewhere, FileTyped, File, Bits
    <3>2. /\ [file[n] EXCEPT !.length = @ + 1, !.time = now + 1].kind = "file"
          /\ [file[n] EXCEPT !.bits = @ \cup {"HIDDEN"}].kind = "file"
          /\ [file[n] EXCEPT !.bits = @ \cup {"HIDDEN"}] \in File
      BY <3>1 DEF File
    <3>3. \/ F!Change(n, [file[n] EXCEPT !.length = @ + 1, !.time = now + 1])
          \/ F!Change(n, [file[n] EXCEPT !.bits = @ \cup {"HIDDEN"}])
      BY <2>4 DEF F!Elsewhere
    <3>4. [file[n] EXCEPT !.length = @ + 1, !.time = now + 1] \in File
      BY FileType
    <3> QED BY <3>2, <3>3, <3>4, ChangeHarmless
  <2> QED BY <1>4, <2>1, <2>2, <2>3, <2>4
<1>5. ASSUME NEW t \in Tasks, NEW n \in AllFiles, NEW m \in AllFiles, F!rename(t, n, m)  PROVE Harmless
  <2>1. /\ LockFile \notin {n, m} /\ now' = now + 1
        /\ file' = [file EXCEPT ![n] = F!NoFile, ![m] = file[n]]
    BY <1>5 DEF F!rename
  <2>2. F!NoFile \in File
    BY FileType
  <2> QED BY <2>1, <2>2 DEF Harmless, FileTyped, F!Exists, F!NameAssumption
<1>6. ASSUME NEW t \in Tasks, F!Unlock_File(t)  PROVE file' \in [AllFiles -> File] /\ now' \in Nat
  <2>1. F!Keep \/ F!Change(LockFile, F!NoFile)
    BY <1>6 DEF F!Unlock_File, F!_tunlink
  <2>2. LockFile \in AllFiles
    BY DEF F!NameAssumption
  <2> QED BY <1>0, <1>1, <2>1, <2>2, ChangeTyped, FileType
<1> QED BY <1>0, <1>2, <1>3, <1>4, <1>5, <1>6 DEF F!Next

-----------------------------------------------------------------------------
(***************************************************************************)
(* What a step by t's call may do to calls, descriptors and handles.       *)
(***************************************************************************)
Busy(t) == filecall[t].at \in {"gettime", "settime"}

\* The call that t goes on with is c.
NowIn(t, c) ==
  /\ filecall' = [filecall EXCEPT ![t] = c]
  /\ c \in FileCall
  /\ c.at \in {"from", "gettime", "to", "settime"} => c.from \in AllFiles /\ c.to \in AllFiles
  /\ c.at \in {"set_writable", "set_non_writable", "bits", "setbits"} => c.to \in AllFiles
  /\ c.at = "bits" => c.from \in AllFiles

LEMMA NowInNamed ==
  ASSUME FileTyped, FilesNamed, NEW t \in Tasks, NEW c, NowIn(t, c)
  PROVE  /\ filecall' \in [Tasks -> FileCall] /\ FilesNamed'
         /\ filecall'[t] = c /\ \A u \in Tasks : u # t => filecall'[u] = filecall[u]
  BY DEF FileTyped, FilesNamed, NowIn

\* No handle is opened or closed, and a descriptor only where none is in the way.
Opens(t) ==
  /\ handle' = handle
  /\ \E n \in AllFiles \cup {NoName} :
       /\ n = NoName \/ n = fd[t] \/ F!Unshared(n)
       /\ fd' = [fd EXCEPT ![t] = n]

TakesHandle(t) ==
  /\ fd' = fd
  /\ \E n \in AllFiles : F!Unopened(n) /\ handle' = [handle EXCEPT ![t] = n]

GivesHandle(t) == fd' = fd /\ F!CloseHandle(t)

LEMMA OpensType ==
  ASSUME FileTyped, NEW t \in Tasks, Opens(t) \/ TakesHandle(t) \/ GivesHandle(t)
  PROVE  fd' \in [Tasks -> AllFiles \cup {NoName}] /\ handle' \in [Tasks -> AllFiles \cup {NoName}]
  BY DEF FileTyped, Opens, TakesHandle, GivesHandle, F!CloseHandle

LEMMA OpensKeepOut ==
  ASSUME F!NameAssumption, FileTyped, F!NobodyLockedOut, NEW t \in Tasks,
         \A u \in Tasks : u # t => filecall'[u] = filecall[u],
         \/ Opens(t) /\ (Busy(t)' <=> Busy(t))
         \/ TakesHandle(t) /\ Busy(t)'
         \/ GivesHandle(t) /\ ~Busy(t)'
  PROVE  F!NobodyLockedOut'
<1> USE DEF F!NobodyLockedOut, Busy, F!NameAssumption, FileTyped
<1>1. CASE Opens(t) /\ (Busy(t)' <=> Busy(t))
  BY <1>1 DEF Opens, F!Unshared
<1>2. CASE TakesHandle(t) /\ Busy(t)'
  <2>1. PICK n \in AllFiles : F!Unopened(n) /\ handle' = [handle EXCEPT ![t] = n]
    BY <1>2 DEF TakesHandle
  <2> QED BY <1>2, <2>1 DEF TakesHandle, F!Unopened, F!Unshared
<1>3. CASE GivesHandle(t) /\ ~Busy(t)'
  BY <1>3 DEF GivesHandle, F!CloseHandle
<1> QED BY <1>1, <1>2, <1>3

\* Nobody gets the lock while somebody has it.
LEMMA LockKept ==
  ASSUME OneHasLock, Harmless, \A u \in Tasks : HasLock(u)' => HasLock(u)
  PROVE  OneHasLock'
  BY DEF OneHasLock, Harmless

LEMMA LockTaken ==
  ASSUME OneHasLock, ~F!Exists(LockFile), F!Exists(LockFile)', NEW t \in Tasks,
         \A u \in Tasks : u # t /\ HasLock(u)' => HasLock(u)
  PROVE  OneHasLock'
  BY DEF OneHasLock

\* The last of it: what a step has to keep.
Keeps(t) ==
  /\ \E c : NowIn(t, c)
  /\ \/ Opens(t) /\ (Busy(t)' <=> Busy(t))
     \/ TakesHandle(t) /\ Busy(t)'
     \/ GivesHandle(t) /\ ~Busy(t)'
  /\ \/ \A u \in Tasks : HasLock(u)' => HasLock(u)
     \/ /\ ~F!Exists(LockFile) /\ F!Exists(LockFile)'
        /\ \A u \in Tasks : u # t /\ HasLock(u)' => HasLock(u)

LEMMA KeepsFilesInv ==
  ASSUME F!NameAssumption, FilesInv, Harmless, NEW t \in Tasks, Keeps(t),
         subject' \in [Tasks -> AllFiles \cup {NoName}], holds' \subseteq Tasks
  PROVE  FilesInv'
<1>1. PICK c : NowIn(t, c)
  BY DEF Keeps
<1>2. /\ filecall' \in [Tasks -> FileCall] /\ FilesNamed'
      /\ filecall'[t] = c /\ \A u \in Tasks : u # t => filecall'[u] = filecall[u]
  BY <1>1, NowInNamed DEF FilesInv
<1>3. fd' \in [Tasks -> AllFiles \cup {NoName}] /\ handle' \in [Tasks -> AllFiles \cup {NoName}]
  BY OpensType DEF Keeps, FilesInv
<1>4. FileTyped'
  BY <1>2, <1>3 DEF FileTyped, Harmless
<1>5. F!NobodyLockedOut'
  BY <1>2, OpensKeepOut DEF Keeps, FilesInv
<1>6. OneHasLock'
  BY LockKept, LockTaken DEF Keeps, FilesInv
<1> QED BY <1>2, <1>4, <1>5, <1>6 DEF FilesInv

-----------------------------------------------------------------------------
(***************************************************************************)
(* The steps.                                                              *)
(***************************************************************************)
LEMMA SameCall ==
  ASSUME FileTyped, FilesNamed, NEW t \in Tasks, filecall' = filecall
  PROVE  NowIn(t, filecall[t])
  BY DEF FileTyped, FilesNamed, NowIn

LEMMA SameOpen ==
  ASSUME FileTyped, NEW t \in Tasks, fd' = fd, handle' = handle
  PROVE  Opens(t)
  BY DEF FileTyped, Opens

\* A step that goes on with the same or another call, but opens nothing.
LEMMA QuietKeeps ==
  ASSUME FileTyped, FilesNamed, NEW t \in Tasks, NEW c, NowIn(t, c), fd' = fd, handle' = handle,
         c.at \notin {"gettime", "settime"}, ~Busy(t),
         HasLock(t)' => HasLock(t), \A u \in Tasks : u # t => (u \in holds' <=> u \in holds)
  PROVE  Keeps(t)
<1>1. Opens(t)
  BY SameOpen
<1>2. filecall'[t] = c /\ \A u \in Tasks : u # t => filecall'[u] = filecall[u]
  BY NowInNamed
<1>3. Busy(t)' <=> Busy(t)
  BY <1>2 DEF Busy
<1>4. \A u \in Tasks : HasLock(u)' => HasLock(u)
  BY <1>2 DEF HasLock
<1> QED BY <1>1, <1>3, <1>4 DEF Keeps

\* A step that leaves the calls, the lock and what is open alone.
LEMMA StillKeeps ==
  ASSUME FileTyped, FilesNamed, NEW t \in Tasks, UNCHANGED <<filecall, fd, handle, holds>>
  PROVE  Keeps(t)
<1>1. Opens(t) /\ NowIn(t, filecall[t])
  BY SameOpen, SameCall
<1>2. (Busy(t)' <=> Busy(t)) /\ \A u \in Tasks : HasLock(u)' => HasLock(u)
  BY DEF Busy, HasLock
<1> QED BY <1>1, <1>2 DEF Keeps

LEMMA openKeeps ==
  ASSUME F!NameAssumption, FilesInv, NEW t \in Tasks, NEW n \in AllFiles, F!open(t, n)
  PROVE  Keeps(t)
<1> USE DEF FilesInv
<1>1. PICK c : F!_topen(t, n, F!Flags[c])
  BY DEF F!open
<1>2. UNCHANGED <<filecall, handle, holds>>
  BY DEF F!open
<1>3. \/ fd' = fd
      \/ F!Unshared(n) /\ fd' = [fd EXCEPT ![t] = n]
  BY <1>1 DEF F!_topen, F!CanOpen
<1>4. Opens(t)
  BY <1>2, <1>3, SameOpen DEF Opens
<1>5. NowIn(t, filecall[t]) /\ (Busy(t)' <=> Busy(t)) /\ \A u \in Tasks : HasLock(u)' => HasLock(u)
  BY <1>2, SameCall DEF Busy, HasLock
<1> QED BY <1>4, <1>5 DEF Keeps

LEMMA closeKeeps ==
  ASSUME F!NameAssumption, FilesInv, NEW t \in Tasks, F!close(t)
  PROVE  Keeps(t) /\ holds' \subseteq Tasks
<1> USE DEF FilesInv
<1>1. /\ filecall[t].at \in {"idle", "locked"} /\ handle' = handle
      /\ fd' = [fd EXCEPT ![t] = NoName] /\ filecall' = [filecall EXCEPT ![t] = F!Idle]
      /\ holds' = holds \/ (filecall[t].at = "locked" /\ holds' = holds \cup {t})
  BY DEF F!close
<1>2. Opens(t) /\ NowIn(t, F!Idle)
  BY <1>1, IdleType DEF Opens, NowIn
<1>3. filecall'[t] = F!Idle /\ \A u \in Tasks : u # t => filecall'[u] = filecall[u]
  BY <1>2, NowInNamed
<1>4. (Busy(t)' <=> Busy(t)) /\ \A u \in Tasks : HasLock(u)' => HasLock(u)
  BY <1>1, <1>3, IdleType DEF Busy, HasLock
<1> QED BY <1>1, <1>2, <1>4 DEF Keeps, FileTyped

LEMMA try_lockKeeps ==
  ASSUME F!NameAssumption, FilesInv, NEW t \in Tasks, F!try_lock(t)
  PROVE  Keeps(t)
<1> USE DEF FilesInv
<1> DEFINE flags == {"CREAT", "EXCL"}
           can == F!CanOpen(LockFile, flags)
           d == IF can THEN "locked" ELSE "idle"
           c == [filecall[t] EXCEPT !.at = d]
<1>1. /\ filecall[t].at = "idle" /\ UNCHANGED <<handle, holds>>
      /\ F!_topen(t, LockFile, flags)
      /\ filecall' = [filecall EXCEPT ![t].at = d]
  BY DEF F!try_lock, F!Begin, F!Flags
<1>2. LockFile \in AllFiles /\ filecall[t] \in FileCall /\ d \in {"locked", "idle"}
  BY DEF F!NameAssumption, FileTyped
<1>3. can => ~F!Exists(LockFile)
  BY DEF F!CanOpen
<1>4. \/ ~can /\ fd' = fd
      \/ can /\ F!Unshared(LockFile) /\ fd' = [fd EXCEPT ![t] = LockFile]
  BY <1>1 DEF F!_topen, F!CanOpen
<1>5. can => F!Exists(LockFile)'
  BY <1>1, <1>2, TopenHarmless
<1>6. filecall' = [filecall EXCEPT ![t] = c]
  BY <1>1
<1>7. c \in FileCall /\ c.at = d
  <2>1. d \in {"idle", "locked", "from", "gettime", "to", "settime", "bits"}
    BY <1>2
  <2> HIDE DEF d
  <2> QED BY <1>2, <2>1, CallAt, Zenon
<1> HIDE DEF can, flags, d, c
<1>8. NowIn(t, c)
  BY <1>2, <1>6, <1>7 DEF NowIn
<1>9. Opens(t)
  BY <1>1, <1>2, <1>4, SameOpen DEF Opens
<1>10. filecall'[t] = c /\ \A u \in Tasks : u # t => filecall'[u] = filecall[u]
  BY <1>8, NowInNamed
<1>11. Busy(t)' <=> Busy(t)
  BY <1>1, <1>2, <1>7, <1>10 DEF Busy
<1>12. \A u \in Tasks : u # t /\ HasLock(u)' => HasLock(u)
  BY <1>1, <1>10 DEF HasLock
<1>13. ~can => \A u \in Tasks : HasLock(u)' => HasLock(u)
  BY <1>1, <1>7, <1>10, <1>12 DEF HasLock, d
<1> QED BY <1>3, <1>5, <1>8, <1>9, <1>11, <1>12, <1>13 DEF Keeps

\* The steps that change the calls, but open and close nothing.
LEMMA CallKeeps ==
  ASSUME F!NameAssumption, FilesInv, NEW t \in Tasks,
         \/ F!SetFileAttributes(t) \/ F!CopyGetBits(t) \/ F!CopySetBits(t)
         \/ \E n \in AllFiles : F!GetFileAttributes(t, n) \/ \E m \in AllFiles : F!copy_attribs(t, n, m)
  PROVE  Keeps(t)
<1> USE DEF FilesInv
<1>0. /\ UNCHANGED <<fd, handle, holds>> /\ filecall[t] \in FileCall
      /\ filecall[t].at \in {"set_writable", "set_non_writable", "bits", "setbits", "idle"}
  BY DEF F!SetFileAttributes, F!CopyGetBits, F!CopySetBits, F!GetFileAttributes, F!copy_attribs, F!Begin,
     FileTyped, F!Return
<1>1. ~Busy(t)
  BY <1>0 DEF Busy
<1>2. ASSUME NEW c, NowIn(t, c), c.at \notin {"gettime", "settime", "locked"}  PROVE Keeps(t)
  <2>1. filecall'[t] = c
    BY <1>2, NowInNamed
  <2>2. HasLock(t)' => HasLock(t)
    BY <1>0, <1>2, <2>1 DEF HasLock
  <2> QED BY <1>0, <1>1, <1>2, <2>2, QuietKeeps
<1>3. ASSUME F!Return(t)  PROVE Keeps(t)
  <2>1. NowIn(t, F!Idle)
    BY <1>3, IdleType DEF NowIn, F!Return
  <2> QED BY <2>1, <1>2, IdleType
<1>4. CASE F!SetFileAttributes(t) \/ F!CopySetBits(t)
  BY <1>3, <1>4 DEF F!SetFileAttributes, F!CopySetBits, F!Return
<1>5. CASE F!CopyGetBits(t)
  <2>1. CASE F!Return(t)
    BY <1>3, <2>1
  <2>2. CASE ~F!Return(t)
    <3> DEFINE b == file[filecall[t].from].bits
               c == [filecall[t] EXCEPT !.at = "setbits", !.bits = b]
    <3>1. filecall[t].at = "bits" /\ filecall' = [filecall EXCEPT ![t].at = "setbits", ![t].bits = b]
      BY <1>5, <2>2 DEF F!CopyGetBits
    <3>2. filecall[t].from \in AllFiles /\ filecall[t].to \in AllFiles
      BY <3>1 DEF FilesNamed
    <3>3. b \in SUBSET Bits
      BY <3>2 DEF FileTyped, File
    <3>4. filecall' = [filecall EXCEPT ![t] = c]
      BY <1>0, <3>1 DEF FileTyped
    <3>5. c \in FileCall /\ c.at = "setbits" /\ c.to = filecall[t].to
      BY <1>0, <3>3, CallBits
    <3> HIDE DEF c, b
    <3> QED BY <1>2, <3>2, <3>4, <3>5 DEF NowIn
  <2> QED BY <2>1, <2>2
<1>6. ASSUME NEW n \in AllFiles, F!GetFileAttributes(t, n)  PROVE Keeps(t)
  <2>1. PICK d \in Setting :
          filecall' = [filecall EXCEPT ![t] = [F!Idle EXCEPT !.at = d, !.to = n, !.bits = file[n].bits]]
    BY <1>6 DEF F!GetFileAttributes, Setting
  <2>2. file[n].bits \in SUBSET Bits
    BY DEF FileTyped, File
  <2> DEFINE c == SetCall(F!Idle, d, n, file[n].bits)
  <2>3. c \in FileCall /\ c.at = d /\ c.to = n
    BY <2>2, IdleType, CallSet
  <2>4. filecall' = [filecall EXCEPT ![t] = c]
    BY <2>1, Zenon DEF SetCall
  <2> HIDE DEF c
  <2> QED BY <1>2, <2>3, <2>4 DEF NowIn, Setting
<1>7. ASSUME NEW n \in AllFiles, NEW m \in AllFiles, F!copy_attribs(t, n, m)  PROVE Keeps(t)
  <2>1. PICK mode \in Modes :
          filecall' = [filecall EXCEPT ![t] = [F!Idle EXCEPT !.at = IF mode = 2 THEN "bits" ELSE "from",
                                                   !.from = n, !.to = m, !.mode = mode]]
    BY <1>7 DEF F!copy_attribs, Modes
  <2>2. PICK d \in Copying : d = IF mode = 2 THEN "bits" ELSE "from"
    BY DEF Copying
  <2> DEFINE c == CopyCall(F!Idle, d, n, m, mode)
  <2>3. filecall' = [filecall EXCEPT ![t] = c]
    BY <2>1, <2>2, Zenon DEF CopyCall
  <2>4. c \in FileCall /\ c.at = d /\ c.from = n /\ c.to = m
    BY IdleType, CallCopy
  <2> HIDE DEF c
  <2> QED BY <1>2, <2>3, <2>4 DEF NowIn, Copying
<1> QED BY <1>4, <1>5, <1>6, <1>7

LEMMA StatKeeps ==
  ASSUME F!NameAssumption, FilesInv, NEW t \in Tasks,
         F!stat_exists(t) \/ \E q \in Questions : F!stat(t, q)
  PROVE  Keeps(t)
<1> USE DEF FilesInv
<1>1. UNCHANGED <<fd, handle, holds>> /\ filecall[t].at \in {"idle", "stat"}
  BY DEF F!stat_exists, F!stat, F!Begin
<1>2. ASSUME NEW c, NowIn(t, c), c.at \in {"idle", "stat"}  PROVE Keeps(t)
  <2>1. filecall'[t] = c
    BY <1>2, NowInNamed
  <2>2. ~Busy(t) /\ (HasLock(t)' => HasLock(t))
    BY <1>1, <1>2, <2>1 DEF Busy, HasLock
  <2> QED BY <1>1, <1>2, <2>2, QuietKeeps
<1>3. CASE F!stat_exists(t)
  <2>1. NowIn(t, F!Idle)
    BY <1>3, IdleType DEF NowIn, F!stat_exists
  <2> QED BY <2>1, <1>2, IdleType
<1>4. ASSUME NEW q \in Questions, F!stat(t, q)  PROVE Keeps(t)
  <2>1. CASE filecall' = filecall
    BY <1>1, <2>1, StillKeeps
  <2>2. ASSUME NEW e \in {"ENOENT", "EACCES"}, filecall' = [filecall EXCEPT ![t] = StatCall(F!Idle, q, e)]
        PROVE  Keeps(t)
    <3>1. q \in F!OfStat
      BY <1>4 DEF F!stat, F!Missing, F!OfStat
    <3> DEFINE c == StatCall(F!Idle, q, e)
    <3>2. c \in FileCall /\ c.at = "stat" /\ filecall' = [filecall EXCEPT ![t] = c]
      BY <2>2, <3>1, IdleType, CallStat
    <3> HIDE DEF c
    <3>3. NowIn(t, c)
      BY <3>2 DEF NowIn
    <3> QED BY <1>2, <3>2, <3>3
  <2> QED BY <1>4, <2>1, <2>2 DEF F!stat, StatCall, F!Errors
<1> QED BY <1>3, <1>4

\* What a call goes on with when it moves on, and nobody's lock changes by it.
LEMMA GoNowIn ==
  ASSUME FileTyped, NEW t \in Tasks, NEW d \in {"gettime", "settime", "bits"}, F!Go(t, d),
         filecall[t].from \in AllFiles, filecall[t].to \in AllFiles
  PROVE  \E c : NowIn(t, c) /\ c.at = d
<1> DEFINE c == [filecall[t] EXCEPT !.at = d]
<1>1. filecall[t] \in FileCall /\ filecall' = [filecall EXCEPT ![t] = c]
  BY DEF FileTyped, F!Go
<1>2. c \in FileCall /\ c.at = d /\ c.from = filecall[t].from /\ c.to = filecall[t].to
  <2>1. d \in {"idle", "locked", "from", "gettime", "to", "settime", "bits"}
    OBVIOUS
  <2> QED BY <1>1, <2>1, CallAt, Zenon
<1> HIDE DEF c
<1> QED BY <1>1, <1>2 DEF NowIn

LEMMA ReturnNowIn ==
  ASSUME NEW t \in Tasks, F!Return(t)
  PROVE  NowIn(t, F!Idle) /\ F!Idle.at = "idle"
  BY IdleType DEF NowIn, F!Return

\* Who goes on with a copy has no lock by it.
LEMMA CopyLock ==
  ASSUME FileTyped, FilesNamed, NEW t \in Tasks, NEW c, NowIn(t, c), c.at # "locked", holds' = holds
  PROVE  \A u \in Tasks : HasLock(u)' => HasLock(u)
  BY NowInNamed DEF HasLock

LEMMA OpenAloneKeeps ==
  ASSUME F!NameAssumption, FilesInv, NEW t \in Tasks, F!CopyOpenFrom(t) \/ F!CopyOpenTo(t)
  PROVE  Keeps(t)
<1> USE DEF FilesInv
<1>1. PICK n \in {filecall[t].from, filecall[t].to}, d \in {"gettime", "settime"} :
        /\ filecall[t].at \in {"from", "to"} /\ UNCHANGED <<fd, holds>>
        /\ \/ F!Return(t) /\ handle' = handle
           \/ F!Unopened(n) /\ handle' = [handle EXCEPT ![t] = n] /\ F!Go(t, d)
  <2>1. CASE F!CopyOpenFrom(t)
    BY <2>1 DEF F!CopyOpenFrom, F!OpenAlone
  <2>2. CASE F!CopyOpenTo(t)
    BY <2>2 DEF F!CopyOpenTo, F!OpenAlone
  <2> QED BY <2>1, <2>2
<1>2. filecall[t].from \in AllFiles /\ filecall[t].to \in AllFiles /\ ~Busy(t) /\ UNCHANGED <<fd, holds>>
  BY <1>1 DEF FilesNamed, Busy
<1>3. CASE F!Return(t) /\ handle' = handle
  <2>1. NowIn(t, F!Idle) /\ F!Idle.at = "idle"
    BY <1>3, ReturnNowIn
  <2>2. HasLock(t)' => HasLock(t)
    BY <1>2, <2>1, CopyLock
  <2> QED BY <1>2, <1>3, <2>1, <2>2, QuietKeeps
<1>4. CASE F!Unopened(n) /\ handle' = [handle EXCEPT ![t] = n] /\ F!Go(t, d)
  <2>1. PICK c : NowIn(t, c) /\ c.at = d
    BY <1>2, <1>4, GoNowIn
  <2>2. TakesHandle(t)
    BY <1>1, <1>2, <1>4 DEF TakesHandle
  <2>3. Busy(t)' /\ \A u \in Tasks : HasLock(u)' => HasLock(u)
    BY <1>2, <2>1, NowInNamed, CopyLock DEF Busy
  <2> QED BY <2>1, <2>2, <2>3 DEF Keeps
<1> QED BY <1>1, <1>3, <1>4

LEMMA CopyTimeKeeps ==
  ASSUME F!NameAssumption, FilesInv, NEW t \in Tasks, F!CopyGetTime(t) \/ F!CopySetTime(t)
  PROVE  Keeps(t)
<1> USE DEF FilesInv
<1>1. filecall[t].from \in AllFiles /\ filecall[t].to \in AllFiles
  BY DEF FilesNamed, F!CopyGetTime, F!CopySetTime
<1>2. GivesHandle(t) /\ holds' = holds
  BY DEF GivesHandle, F!CopyGetTime, F!CopySetTime
<1>3. ASSUME NEW c, NowIn(t, c), c.at \notin {"gettime", "settime", "locked"}  PROVE Keeps(t)
  <2>1. ~Busy(t)'
    BY <1>3, NowInNamed DEF Busy
  <2>2. \A u \in Tasks : HasLock(u)' => HasLock(u)
    BY <1>2, <1>3, CopyLock
  <2> QED BY <1>2, <1>3, <2>1, <2>2 DEF Keeps
<1>4. CASE F!Return(t)
  BY <1>3, <1>4, ReturnNowIn
<1>5. CASE F!Go(t, "bits")
  BY <1>1, <1>3, <1>5, GoNowIn
<1>6. CASE filecall' = [filecall EXCEPT ![t].at = "to", ![t].time = file[filecall[t].from].time]
  <2> DEFINE i == file[filecall[t].from].time
             c == [filecall[t] EXCEPT !.at = "to", !.time = i]
  <2>1. filecall[t] \in FileCall /\ i \in Int
    BY <1>1 DEF FileTyped, File
  <2>2. filecall' = [filecall EXCEPT ![t] = c]
    BY <1>6 DEF FileTyped
  <2>3. c \in FileCall /\ c.at = "to" /\ c.from = filecall[t].from /\ c.to = filecall[t].to
    BY <2>1, CallTime
  <2> HIDE DEF c, i
  <2> QED BY <1>1, <1>3, <2>2, <2>3 DEF NowIn
<1> QED BY <1>4, <1>5, <1>6 DEF F!CopyGetTime, F!CopySetTime

\* Who unlocks was the only one to have the lock.
LEMMA UnlockFilesInv ==
  ASSUME F!NameAssumption, FilesInv, FilesInv => FileTyped', NEW t \in Tasks, F!Unlock_File(t)
  PROVE  FilesInv'
<1>1. /\ filecall[t].at = "idle" /\ HasLock(t) /\ holds' = holds \ {t}
      /\ UNCHANGED <<fd, handle, filecall>>
  BY DEF F!Unlock_File, HasLock
<1>2. FilesNamed' /\ F!NobodyLockedOut'
  BY <1>1 DEF FilesInv, FilesNamed, F!NobodyLockedOut
<1>3. \A u \in Tasks : ~HasLock(u)'
  BY <1>1 DEF FilesInv, OneHasLock, HasLock
<1>4. OneHasLock'
  BY <1>3 DEF OneHasLock
<1> QED BY <1>2, <1>4 DEF FilesInv

LEMMA FilesStep == F!NameAssumption /\ FilesInv /\ [F!Next]_F!vars => FilesInv'
<1> SUFFICES ASSUME F!NameAssumption, FilesInv, [F!Next]_F!vars  PROVE FilesInv'
  OBVIOUS
<1>1. CASE UNCHANGED F!vars
  BY <1>1 DEF F!vars, FilesInv, FileTyped, FilesNamed, F!NobodyLockedOut, OneHasLock, HasLock, F!Exists
<1>2. ASSUME NEW t \in Tasks, F!Unlock_File(t)  PROVE FilesInv'
  <2>1. UNCHANGED <<fd, handle, filecall, subject>> /\ holds' \subseteq Tasks
    BY <1>2 DEF F!Unlock_File, FilesInv, FileTyped
  <2>2. file' \in [AllFiles -> File] /\ now' \in Nat
    BY NextFiles DEF FilesInv
  <2>3. FileTyped'
    BY <2>1, <2>2 DEF FilesInv, FileTyped
  <2> QED BY <1>2, <2>3, UnlockFilesInv
<1>3. CASE Harmless
  <2>1. ASSUME NEW t \in Tasks, Keeps(t), UNCHANGED subject, holds' \subseteq Tasks
        PROVE  FilesInv'
    BY <1>3, <2>1, KeepsFilesInv DEF FilesInv, FileTyped
  <2>2. ASSUME NEW t \in Tasks, Keeps(t), UNCHANGED <<subject, holds>>  PROVE FilesInv'
    BY <2>1, <2>2 DEF FilesInv, FileTyped
  <2>3. ASSUME NEW t \in Tasks, F!close(t)  PROVE FilesInv'
    BY <2>1, <2>3, closeKeeps DEF F!close
  <2>4. ASSUME NEW t \in Tasks, F!try_lock(t)  PROVE FilesInv'
    BY <2>2, <2>4, try_lockKeeps DEF F!try_lock
  <2>5. ASSUME NEW t \in Tasks, F!SetFileAttributes(t) \/ F!CopyGetBits(t) \/ F!CopySetBits(t)
        PROVE  FilesInv'
    BY <2>2, <2>5, CallKeeps DEF F!SetFileAttributes, F!CopyGetBits, F!CopySetBits
  <2>6. ASSUME NEW t \in Tasks, F!CopyOpenFrom(t) \/ F!CopyOpenTo(t)  PROVE FilesInv'
    BY <2>2, <2>6, OpenAloneKeeps DEF F!CopyOpenFrom, F!CopyOpenTo, F!OpenAlone
  <2>7. ASSUME NEW t \in Tasks, F!CopyGetTime(t) \/ F!CopySetTime(t)  PROVE FilesInv'
    BY <2>2, <2>7, CopyTimeKeeps DEF F!CopyGetTime, F!CopySetTime
  <2>8. ASSUME NEW t \in Tasks, NEW q \in Questions, F!ask(t, q)  PROVE FilesInv'
    BY <2>2, <2>8, StillKeeps DEF F!ask, FilesInv
  <2>9. ASSUME NEW t \in Tasks, NEW n \in AllFiles, F!open(t, n)  PROVE FilesInv'
    BY <2>2, <2>9, openKeeps DEF F!open
  <2>10. ASSUME NEW t \in Tasks, NEW n \in AllFiles, F!unlink(t, n) \/ F!Elsewhere(t, n)  PROVE FilesInv'
    BY <2>2, <2>10, StillKeeps DEF F!unlink, F!Elsewhere, FilesInv
  <2>11. ASSUME NEW t \in Tasks, NEW n \in AllFiles, F!reset_attributes(t, n)  PROVE FilesInv'
    <3>1. Keeps(t) /\ holds' = holds
      BY <2>11, StillKeeps DEF F!reset_attributes, FilesInv
    <3>2. subject' \in [Tasks -> AllFiles \cup {NoName}] /\ holds' \subseteq Tasks
      BY <2>11 DEF F!reset_attributes, FilesInv, FileTyped
    <3> QED BY <1>3, <3>1, <3>2, KeepsFilesInv
  <2>12. ASSUME NEW t \in Tasks, NEW n \in AllFiles,
                F!GetFileAttributes(t, n) \/ \E m \in AllFiles : F!copy_attribs(t, n, m)
         PROVE  FilesInv'
    BY <2>2, <2>12, CallKeeps DEF F!GetFileAttributes, F!copy_attribs
  <2>13. ASSUME NEW t \in Tasks, NEW n \in AllFiles, NEW m \in AllFiles, F!rename(t, n, m)  PROVE FilesInv'
    BY <2>2, <2>13, StillKeeps DEF F!rename, FilesInv
  <2>14. ASSUME NEW t \in Tasks, F!stat_exists(t) \/ \E q \in Questions : F!stat(t, q)
         PROVE  FilesInv'
    BY <2>2, <2>14, StatKeeps DEF F!stat_exists, F!stat
  <2> QED BY <1>1, <1>2, <2>3, <2>4, <2>5, <2>6, <2>7, <2>8, <2>9, <2>10, <2>11, <2>12, <2>13, <2>14
          DEF F!Next
<1> QED BY <1>2, <1>3, NextFiles DEF FilesInv

LEMMA FilesInit == F!Init => FilesInv
<1> SUFFICES ASSUME F!Init  PROVE FilesInv
  OBVIOUS
<1>1. file \in [AllFiles -> File] /\ now \in Nat
  BY DEF F!Init, File, F!NoFile, Kinds
<1>2. filecall \in [Tasks -> FileCall] /\ \A t \in Tasks : filecall[t].at = "idle"
  BY IdleType DEF F!Init
<1>3. FileTyped
  BY <1>1, <1>2 DEF F!Init, FileTyped
<1>4. FilesNamed /\ F!NobodyLockedOut /\ OneHasLock
  BY <1>2 DEF F!Init, FilesNamed, F!NobodyLockedOut, OneHasLock, HasLock
<1> QED BY <1>3, <1>4 DEF FilesInv

-----------------------------------------------------------------------------
(***************************************************************************)
(* Whatever the tasks do to other files, GNAT.Lock_Files gives the lock to *)
(* one at a time, from the opening of the file that must be new to         *)
(* Unlock_File, and the file is there as long.                             *)
(***************************************************************************)
THEOREM LockIsExclusive ==
  ASSUME F!NameAssumption
  PROVE  F!Spec => []F!LockHeldByOne
<1>1. FilesInv => F!LockHeldByOne
  <2> SUFFICES ASSUME FilesInv  PROVE F!LockHeldByOne
    OBVIOUS
  <2> DEFINE inside == holds \cup {t \in Tasks : filecall[t].at = "locked"}
  <2>1. \A t \in inside : t \in Tasks /\ HasLock(t)
    BY DEF FilesInv, FileTyped, HasLock
  <2>2. inside # {} => F!Exists(LockFile)
    BY <2>1 DEF FilesInv, OneHasLock
  <2>3. inside = {} \/ \E t \in Tasks : inside = {t}
    BY <2>1 DEF FilesInv, OneHasLock
  <2>4. Cardinality(inside) <= 1
    <3> HIDE DEF inside
    <3>1. CASE inside = {}
      BY <3>1, FS_EmptySet
    <3>2. ASSUME NEW t, inside = {t}  PROVE Cardinality(inside) <= 1
      <4>1. Cardinality({t}) = 1
        BY FS_Singleton, Zenon
      <4> QED BY <3>2, <4>1
    <3> QED BY <2>3, <3>1, <3>2
  <2>5. F!Cardinality(inside) = Cardinality(inside)
    BY DEF F!Cardinality, Cardinality, F!IsFiniteSet, IsFiniteSet
  <2> QED BY <2>2, <2>4, <2>5 DEF F!LockHeldByOne
<1> QED BY <1>1, FilesInit, FilesStep, PTL DEF F!Spec

(***************************************************************************)
(* __gnat_copy_attribs has a handle that shares nothing only while it      *)
(* reads or sets the times: no way out of it leaves one open, nobody else  *)
(* has the file open meanwhile, and no two copies lock each other out.     *)
(***************************************************************************)
THEOREM NobodyStaysLockedOut ==
  ASSUME F!NameAssumption
  PROVE  F!Spec => []F!NobodyLockedOut
<1>1. FilesInv => F!NobodyLockedOut
  BY DEF FilesInv
<1> QED BY <1>1, FilesInit, FilesStep, PTL DEF F!Spec

-----------------------------------------------------------------------------
(***************************************************************************)
(* The cache of the attributes.                                            *)
(***************************************************************************)
FileAttr == [exists : Int, error : {"EINVAL", "none", "EACCES"}, writable : Int, readable : Int,
         executable : Int, regular : Int, directory : Int, timestamp : Int, file_length : Int]

CacheTyped ==
  /\ attr \in [Tasks -> FileAttr]
  /\ since \in [Tasks -> SUBSET File]
  /\ DOMAIN answers = Tasks

\* No stat has been made, and nothing told that one stores.
Fresh(t) ==
  /\ attr[t].exists = F!ATTR_UNSET /\ attr[t].regular = F!ATTR_UNSET
  /\ attr[t].directory = F!ATTR_UNSET /\ attr[t].file_length = -1
  /\ \A a \in answers[t] : a[1] \notin {"exists", "regular", "directory", "file_length"}

\* What is stored is true of f, and it is what was told.
Stored(a, f) ==
  /\ a.exists = F!IsOne(f.kind # "none") /\ a.regular = F!IsOne(f.kind = "file")
  /\ a.directory = F!IsOne(f.kind = "dir")
  /\ a.file_length = IF f.kind = "file" THEN f.length ELSE 0

Told(t) ==
  \A a \in answers[t] :
    /\ a[1] = "exists" => a[2] = attr[t].exists
    /\ a[1] = "regular" => a[2] = attr[t].regular
    /\ a[1] = "directory" => a[2] = attr[t].directory
    /\ a[1] = "file_length" => a[2] = attr[t].file_length

\* Between its two calls a stat has stored nothing.
Halfway(t) ==
  /\ Fresh(t) /\ filecall[t].error \in {"ENOENT", "EACCES"}
  /\ filecall[t].error = "ENOENT" => \E f \in since[t] : f.kind = "none"

CacheOf(t) ==
  subject[t] \in AllFiles \ Special =>
    /\ file[subject[t]] \in since[t]
    /\ filecall[t].at = "stat" => Halfway(t)
    /\ Fresh(t) \/ \E f \in F!Views(since[t], attr[t]) : Stored(attr[t], f) /\ Told(t)

CacheInv == CacheTyped /\ \A t \in Tasks : CacheOf(t)

\* No stat is begun.
StatsKept == \A t \in Tasks : filecall'[t].at = "stat" => filecall'[t] = filecall[t]

LEMMA OthersKeepStats ==
  ASSUME FileTyped, NEW t \in Tasks, NEW n \in AllFiles,
         \/ F!close(t) \/ F!try_lock(t) \/ F!Unlock_File(t)
         \/ F!SetFileAttributes(t) \/ F!CopyOpenFrom(t) \/ F!CopyGetTime(t) \/ F!CopyOpenTo(t)
         \/ F!CopySetTime(t) \/ F!CopyGetBits(t) \/ F!CopySetBits(t)
         \/ F!open(t, n) \/ F!unlink(t, n) \/ F!Elsewhere(t, n) \/ F!GetFileAttributes(t, n)
         \/ \E m \in AllFiles : F!rename(t, n, m) \/ F!copy_attribs(t, n, m)
  PROVE  StatsKept
<1>1. filecall \in [Tasks -> FileCall] /\ F!Idle.at # "stat" /\ F!Idle \in FileCall
  BY IdleType DEF FileTyped
<1>2. ASSUME filecall' = filecall \/ \E c : c.at # "stat" /\ filecall' = [filecall EXCEPT ![t] = c]
      PROVE  StatsKept
  BY <1>1, <1>2 DEF StatsKept
<1>3. CASE \/ F!Unlock_File(t) \/ F!open(t, n) \/ F!unlink(t, n) \/ F!Elsewhere(t, n)
           \/ \E m \in AllFiles : F!rename(t, n, m)
  BY <1>2, <1>3 DEF F!Unlock_File, F!open, F!unlink, F!Elsewhere, F!rename
<1>4. ASSUME F!Return(t) \/ F!close(t)  PROVE StatsKept
  BY <1>1, <1>2, <1>4 DEF F!Return, F!close
<1>5. ASSUME NEW d, d # "stat", F!Go(t, d)  PROVE StatsKept
  BY <1>1, <1>5 DEF F!Go, StatsKept, FileCall
<1>6. CASE F!try_lock(t)
  BY <1>1, <1>6 DEF F!try_lock, StatsKept, FileCall
<1>7. CASE F!SetFileAttributes(t) \/ F!CopySetBits(t)
  BY <1>4, <1>7 DEF F!SetFileAttributes, F!CopySetBits, F!Return
<1>8. CASE F!CopyOpenFrom(t) \/ F!CopyOpenTo(t)
  BY <1>4, <1>5, <1>8 DEF F!CopyOpenFrom, F!CopyOpenTo, F!OpenAlone
<1>9. CASE F!CopyGetTime(t)
  <2>1. CASE filecall' = [filecall EXCEPT ![t].at = "to", ![t].time = file[filecall[t].from].time]
    BY <1>1, <2>1 DEF StatsKept, FileCall
  <2> QED BY <1>4, <1>9, <2>1 DEF F!CopyGetTime
<1>10. CASE F!CopySetTime(t)
  BY <1>4, <1>5, <1>10 DEF F!CopySetTime
<1>11. CASE F!CopyGetBits(t)
  <2>1. CASE filecall' = [filecall EXCEPT ![t].at = "setbits", ![t].bits = file[filecall[t].from].bits]
    BY <1>1, <2>1 DEF StatsKept, FileCall
  <2> QED BY <1>4, <1>11, <2>1 DEF F!CopyGetBits
<1>12. CASE F!GetFileAttributes(t, n)
  BY <1>1, <1>2, <1>12 DEF F!GetFileAttributes, F!Idle
<1>13. CASE \E m \in AllFiles : F!copy_attribs(t, n, m)
  BY <1>1, <1>2, <1>13 DEF F!copy_attribs, F!Idle
<1> QED BY <1>3, <1>4, <1>6, <1>7, <1>8, <1>9, <1>10, <1>11, <1>12, <1>13

LEMMA NextChanges ==
  ASSUME F!NameAssumption, FileTyped, FilesNamed, [F!Next]_F!vars
  PROVE  \/ \E t \in Tasks, n \in AllFiles : F!reset_attributes(t, n)
         \/ \E t \in Tasks, q \in Questions : F!ask(t, q) \/ F!stat(t, q)
         \/ \E t \in Tasks : F!stat_exists(t)
         \/ /\ UNCHANGED <<attr, subject, answers>> /\ StatsKept
            /\ \/ F!Keep \/ \E n \in AllFiles : \E f : F!Change(n, f)
               \/ \E t \in Tasks, n \in AllFiles, m \in AllFiles : F!rename(t, n, m)
<1> DEFINE Changes == F!Keep \/ \E n \in AllFiles : \E f : F!Change(n, f)
<1>1. ASSUME NEW t \in Tasks,
             \/ F!close(t) \/ F!try_lock(t) \/ F!Unlock_File(t)
             \/ F!SetFileAttributes(t) \/ F!CopyOpenFrom(t) \/ F!CopyGetTime(t) \/ F!CopyOpenTo(t)
             \/ F!CopySetTime(t) \/ F!CopyGetBits(t) \/ F!CopySetBits(t)
      PROVE  UNCHANGED <<attr, subject, answers>>
  BY <1>1 DEF F!close, F!try_lock, F!Unlock_File, F!SetFileAttributes, F!CopyOpenFrom, F!CopyGetTime,
     F!CopyOpenTo, F!CopySetTime, F!CopyGetBits, F!CopySetBits, F!OpenAlone
<1>2. ASSUME NEW t \in Tasks, NEW n \in AllFiles,
             \/ F!open(t, n) \/ F!unlink(t, n) \/ F!Elsewhere(t, n) \/ F!GetFileAttributes(t, n)
             \/ \E m \in AllFiles : F!rename(t, n, m) \/ F!copy_attribs(t, n, m)
      PROVE  UNCHANGED <<attr, subject, answers>>
  BY <1>2 DEF F!open, F!unlink, F!Elsewhere, F!GetFileAttributes, F!rename, F!copy_attribs
<1>3. CASE UNCHANGED F!vars
  BY <1>3 DEF F!vars, F!Keep, StatsKept
<1>4. ASSUME NEW t \in Tasks,
             \/ F!close(t) \/ F!CopyOpenFrom(t) \/ F!CopyGetTime(t) \/ F!CopyOpenTo(t) \/ F!CopyGetBits(t)
      PROVE  Changes
  BY <1>4 DEF F!close, F!CopyOpenFrom, F!CopyGetTime, F!CopyOpenTo, F!CopyGetBits, F!OpenAlone, F!Keep
<1>5. ASSUME NEW t \in Tasks,
             F!SetFileAttributes(t) \/ F!CopySetTime(t) \/ F!CopySetBits(t)
      PROVE  Changes
  <2>1. filecall[t].to \in AllFiles
    BY <1>5 DEF F!SetFileAttributes, F!CopySetTime, F!CopySetBits, FilesNamed
  <2> QED BY <1>5, <2>1 DEF F!SetFileAttributes, F!CopySetTime, F!CopySetBits, F!SetBits
<1>6. ASSUME NEW n \in AllFiles, NEW t, NEW flags, F!_topen(t, n, flags)  PROVE Changes
  BY <1>6 DEF F!_topen
<1>7. ASSUME NEW n \in AllFiles, F!_tunlink(n)  PROVE Changes
  BY <1>7 DEF F!_tunlink
<1>8. ASSUME NEW t \in Tasks, NEW n \in AllFiles,
             \/ F!open(t, n) \/ F!unlink(t, n) \/ F!Elsewhere(t, n) \/ F!GetFileAttributes(t, n)
             \/ \E m \in AllFiles : F!copy_attribs(t, n, m)
      PROVE  Changes
  <2>1. CASE F!open(t, n)
    BY <1>6, <2>1 DEF F!open
  <2>2. CASE F!unlink(t, n)
    BY <1>7, <2>2 DEF F!unlink
  <2>3. CASE F!Elsewhere(t, n)
    BY <2>3 DEF F!Elsewhere
  <2>4. CASE F!GetFileAttributes(t, n) \/ \E m \in AllFiles : F!copy_attribs(t, n, m)
    BY <2>4 DEF F!GetFileAttributes, F!copy_attribs, F!Keep
  <2> QED BY <1>8, <2>1, <2>2, <2>3, <2>4
<1>9. ASSUME NEW t \in Tasks, F!try_lock(t) \/ F!Unlock_File(t)  PROVE LockFile \in AllFiles => Changes
  BY <1>6, <1>7, <1>9 DEF F!try_lock, F!Unlock_File
<1>10. ASSUME NEW t \in Tasks, F!try_lock(t) \/ F!Unlock_File(t)  PROVE Changes
  BY <1>9, <1>10 DEF F!NameAssumption
<1>11. ASSUME NEW t \in Tasks,
             \/ F!close(t) \/ F!try_lock(t) \/ F!Unlock_File(t)
             \/ F!SetFileAttributes(t) \/ F!CopyOpenFrom(t) \/ F!CopyGetTime(t) \/ F!CopyOpenTo(t)
             \/ F!CopySetTime(t) \/ F!CopyGetBits(t) \/ F!CopySetBits(t)
       PROVE  StatsKept
  BY <1>11, OthersKeepStats DEF F!NameAssumption
<1> HIDE DEF Changes
<1> QED BY <1>1, <1>2, <1>3, <1>4, <1>5, <1>8, <1>10, <1>11, OthersKeepStats DEF F!Next, Changes

LEMMA ViewsGrow ==
  ASSUME NEW S \in SUBSET File, NEW T \in SUBSET File, NEW a, NEW b, S \subseteq T, b.error = a.error
  PROVE  F!Views(S, a) \subseteq F!Views(T, b)
  BY DEF F!Views

LEMMA ViewsFiles ==
  ASSUME NEW S \in SUBSET File, NEW a
  PROVE  /\ S \subseteq F!Views(S, a) /\ F!Views(S, a) \subseteq File
         /\ (\E f \in S : f.kind # "none") => F!Pretended \in F!Views(S, a)
         /\ a.error = "EACCES" => F!NoFile \in F!Views(S, a)
  BY DEF F!Views, File, F!Pretended, F!NoFile, Kinds

\* What another's step leaves of t's cache.
LEMMA CacheKept ==
  ASSUME CacheInv, NEW t \in Tasks, attr'[t] = attr[t], subject'[t] = subject[t], answers'[t] = answers[t],
         filecall'[t].at = "stat" => filecall'[t] = filecall[t],
         since'[t] \in SUBSET File, since[t] \subseteq since'[t],
         subject[t] \in AllFiles => file'[subject[t]] \in since'[t]
  PROVE  CacheOf(t)'
<1>1. CASE subject[t] \notin AllFiles \ Special
  BY <1>1 DEF CacheOf
<1>2. CASE subject[t] \in AllFiles \ Special
  <2>1. filecall'[t].at = "stat" => Halfway(t)'
    <3> SUFFICES ASSUME filecall'[t].at = "stat"  PROVE Halfway(t)'
      OBVIOUS
    <3>1. Halfway(t) /\ filecall'[t] = filecall[t]
      BY <1>2 DEF CacheInv, CacheOf
    <3> QED BY <3>1 DEF Halfway, Fresh
  <2>2. CASE Fresh(t)
    <3>1. Fresh(t)'
      BY <2>2 DEF Fresh
    <3> QED BY <1>2, <2>1, <3>1 DEF CacheOf
  <2>3. CASE ~Fresh(t)
    <3>1. PICK f \in F!Views(since[t], attr[t]) : Stored(attr[t], f) /\ Told(t)
      BY <1>2, <2>3 DEF CacheInv, CacheOf
    <3>2. since[t] \in SUBSET File
      BY DEF CacheInv, CacheTyped
    <3>3. f \in F!Views(since'[t], attr'[t])
      BY <3>2, ViewsGrow
    <3>4. Stored(attr'[t], f) /\ Told(t)'
      BY <3>1 DEF Told
    <3> QED BY <1>2, <2>1, <3>3, <3>4 DEF CacheOf
  <2> QED BY <2>2, <2>3
<1> QED BY <1>1, <1>2

\* Every change is seen by those who watch the file.
LEMMA ChangeSeen ==
  ASSUME F!NameAssumption, FileTyped, CacheInv, FileTyped', UNCHANGED <<attr, subject, answers>>, StatsKept,
         \/ F!Keep \/ \E n \in AllFiles : \E f : F!Change(n, f)
         \/ \E t \in Tasks, n \in AllFiles, m \in AllFiles : F!rename(t, n, m)
  PROVE  CacheInv'
<1>t. /\ file \in [AllFiles -> File] /\ file' \in [AllFiles -> File]
      /\ subject \in [Tasks -> AllFiles \cup {NoName}] /\ NoName \notin AllFiles
      /\ since \in [Tasks -> SUBSET File]
      /\ \A t \in Tasks : subject[t] \in AllFiles => file[subject[t]] \in since[t] \/ subject[t] \in Special
  BY DEF FileTyped, CacheInv, CacheTyped, F!NameAssumption, CacheOf
<1>1. SUFFICES /\ since' \in [Tasks -> SUBSET File]
               /\ \A t \in Tasks : /\ since[t] \subseteq since'[t]
                                   /\ subject[t] \in AllFiles \ Special => file'[subject[t]] \in since'[t]
  <2> SUFFICES ASSUME NEW t \in Tasks  PROVE CacheOf(t)'
    BY <1>1 DEF CacheInv, CacheTyped
  <2>1. CASE subject[t] \in AllFiles \ Special
    BY <1>1, <2>1, CacheKept DEF StatsKept
  <2>2. CASE subject[t] \notin AllFiles \ Special
    BY <2>2 DEF CacheOf
  <2> QED BY <2>1, <2>2
<1>2. CASE F!Keep
  BY <1>2, <1>t DEF F!Keep
<1>3. ASSUME NEW n \in AllFiles, NEW f, F!Change(n, f)
      PROVE  /\ since' \in [Tasks -> SUBSET File]
             /\ \A t \in Tasks : /\ since[t] \subseteq since'[t]
                                 /\ subject[t] \in AllFiles \ Special => file'[subject[t]] \in since'[t]
  <2>1. /\ file' = [file EXCEPT ![n] = f]
        /\ since' = [t \in Tasks |-> IF subject[t] = n THEN since[t] \cup {f} ELSE since[t]]
    BY <1>3 DEF F!Change
  <2>2. f = file'[n] /\ f \in File
    BY <2>1, <1>t
  <2> QED BY <2>1, <2>2, <1>t
<1>4. ASSUME NEW u \in Tasks, NEW n \in AllFiles, NEW m \in AllFiles, F!rename(u, n, m)
      PROVE  /\ since' \in [Tasks -> SUBSET File]
             /\ \A t \in Tasks : /\ since[t] \subseteq since'[t]
                                 /\ subject[t] \in AllFiles \ Special => file'[subject[t]] \in since'[t]
  <2>1. /\ file' = [file EXCEPT ![n] = F!NoFile, ![m] = file[n]]
        /\ since' = [t \in Tasks |-> IF subject[t] \in {n, m}
                                     THEN since[t] \cup {file'[subject[t]]} ELSE since[t]]
    BY <1>4 DEF F!rename
  <2> QED BY <2>1, <1>t
<1> QED BY <1>2, <1>3, <1>4

\* A new subject.
LEMMA ResetCache ==
  ASSUME FileTyped, CacheInv, NEW t \in Tasks, NEW n \in AllFiles, F!reset_attributes(t, n)
  PROVE  CacheInv'
<1>1. /\ attr' = [attr EXCEPT ![t] = F!Unset] /\ subject' = [subject EXCEPT ![t] = n]
      /\ since' = [since EXCEPT ![t] = {file[n]}] /\ answers' = [answers EXCEPT ![t] = {}]
      /\ file' = file
  BY DEF F!reset_attributes
<1>2. /\ F!Unset \in FileAttr /\ file[n] \in File
      /\ F!Unset.exists = F!ATTR_UNSET /\ F!Unset.regular = F!ATTR_UNSET
      /\ F!Unset.directory = F!ATTR_UNSET /\ F!Unset.file_length = -1
  BY DEF F!Unset, FileAttr, FileTyped, F!ATTR_UNSET, F!TimeUnset
<1>3. CacheTyped'
  BY <1>1, <1>2 DEF CacheInv, CacheTyped
<1>4. CacheOf(t)'
  <2>1. /\ attr'[t] = F!Unset /\ answers'[t] = {} /\ since'[t] = {file[n]} /\ subject'[t] = n
        /\ filecall'[t].at # "stat"
    BY <1>1 DEF CacheInv, CacheTyped, FileTyped, F!reset_attributes, F!Begin
  <2> QED BY <1>1, <1>2, <2>1 DEF CacheOf, Fresh
<1>5. ASSUME NEW u \in Tasks, u # t  PROVE CacheOf(u)'
  <2>1. /\ attr'[u] = attr[u] /\ subject'[u] = subject[u] /\ answers'[u] = answers[u]
        /\ since'[u] = since[u] /\ since[u] \in SUBSET File /\ filecall' = filecall
    BY <1>1, <1>5 DEF CacheInv, CacheTyped, FileTyped, F!reset_attributes
  <2>2. CASE subject[u] \in AllFiles \ Special
    BY <1>1, <2>1, <2>2, CacheKept DEF CacheInv, CacheOf
  <2>3. CASE subject[u] \notin AllFiles \ Special
    BY <2>1, <2>3 DEF CacheOf
  <2> QED BY <2>2, <2>3
<1> QED BY <1>3, <1>4, <1>5 DEF CacheInv

\* A step by which t's cache alone changes.
LEMMA OnlyCacheOf ==
  ASSUME FileTyped, CacheInv, NEW t \in Tasks, UNCHANGED <<file, subject, since>>, CacheTyped',
         \A u \in Tasks : u # t => /\ attr'[u] = attr[u] /\ answers'[u] = answers[u]
                                   /\ filecall'[u] = filecall[u],
         subject[t] \in AllFiles \ Special => CacheOf(t)'
  PROVE  CacheInv'
<1>1. ASSUME NEW u \in Tasks, u # t, subject[u] \in AllFiles \ Special  PROVE CacheOf(u)'
  <2>1. since[u] \in SUBSET File /\ file[subject[u]] \in since[u]
    BY <1>1 DEF CacheInv, CacheTyped, CacheOf
  <2> QED BY <1>1, <2>1, CacheKept
<1>2. ASSUME NEW u \in Tasks, subject[u] \notin AllFiles \ Special  PROVE CacheOf(u)'
  BY <1>2 DEF CacheOf
<1> QED BY <1>1, <1>2 DEF CacheInv

-----------------------------------------------------------------------------
Filled(a, r, d, e, l, i, x) ==
  [a EXCEPT !.error = x, !.regular = r, !.directory = d, !.exists = e, !.file_length = l,
            !.timestamp = i]

LEMMA FilledType ==
  ASSUME NEW a \in FileAttr, NEW r \in Int, NEW d \in Int, NEW e \in Int, NEW l \in Int, NEW i \in Int,
         NEW x \in {"EINVAL", "none", "EACCES"}
  PROVE  /\ Filled(a, r, d, e, l, i, x) \in FileAttr
         /\ Filled(a, r, d, e, l, i, x).regular = r /\ Filled(a, r, d, e, l, i, x).directory = d
         /\ Filled(a, r, d, e, l, i, x).exists = e /\ Filled(a, r, d, e, l, i, x).file_length = l
         /\ Filled(a, r, d, e, l, i, x).error = x
  BY DEF FileAttr, Filled

\* The four answers of a stat, and its error.
SameStat(a, b) ==
  /\ b.exists = a.exists /\ b.regular = a.regular /\ b.directory = a.directory
  /\ b.file_length = a.file_length /\ b.error = a.error

LEMMA OneType ==
  ASSUME NEW a \in FileAttr, NEW v \in Int
  PROVE  /\ [a EXCEPT !.timestamp = v] \in FileAttr /\ SameStat(a, [a EXCEPT !.timestamp = v])
         /\ [a EXCEPT !.readable = v] \in FileAttr /\ SameStat(a, [a EXCEPT !.readable = v])
         /\ [a EXCEPT !.writable = v] \in FileAttr /\ SameStat(a, [a EXCEPT !.writable = v])
         /\ [a EXCEPT !.executable = v] \in FileAttr /\ SameStat(a, [a EXCEPT !.executable = v])
<1>1. [a EXCEPT !.timestamp = v] \in FileAttr /\ SameStat(a, [a EXCEPT !.timestamp = v])
  BY DEF FileAttr, SameStat
<1>2. [a EXCEPT !.readable = v] \in FileAttr /\ SameStat(a, [a EXCEPT !.readable = v])
  BY DEF FileAttr, SameStat
<1>3. [a EXCEPT !.writable = v] \in FileAttr /\ SameStat(a, [a EXCEPT !.writable = v])
  BY DEF FileAttr, SameStat
<1>4. [a EXCEPT !.executable = v] \in FileAttr /\ SameStat(a, [a EXCEPT !.executable = v])
  BY DEF FileAttr, SameStat
<1> QED BY <1>1, <1>2, <1>3, <1>4, Zenon

\* A stat stores all four, true of what it has read.
LEMMA StatLemma ==
  ASSUME NEW a \in FileAttr, NEW s \in File, NEW x \in {"none", "ENOENT", "EACCES"}
  PROVE  /\ F!stat_to_attr(a, s, x) \in FileAttr
         /\ Stored(F!stat_to_attr(a, s, x), s)
         /\ F!stat_to_attr(a, s, x).error = IF x = "ENOENT" THEN "none" ELSE x
<1> DEFINE r == F!IsOne(s.kind = "file")
           d == F!IsOne(s.kind = "dir")
           e == F!IsOne(s.kind # "none")
           l == IF s.kind = "file" THEN s.length ELSE 0
           i == IF s.kind = "none" THEN -1 ELSE s.time
           y == IF x = "ENOENT" THEN "none" ELSE x
           b == F!stat_to_attr(a, s, x)
<1>1. b = Filled(a, r, d, e, l, i, y)
  BY Zenon DEF F!stat_to_attr, Filled
<1>2. r \in Int /\ d \in Int /\ e \in Int /\ l \in Int /\ i \in Int /\ y \in {"EINVAL", "none", "EACCES"}
  BY DEF F!IsOne, File
<1>3. /\ b \in FileAttr /\ b.regular = r /\ b.directory = d /\ b.exists = e /\ b.file_length = l
      /\ b.error = y
  <2> HIDE DEF r, d, e, l, i, y, b
  <2> QED BY <1>1, <1>2, FilledType
<1> HIDE DEF b
<1>4. Stored(b, s)
  BY <1>3, Zenon DEF Stored
<1> QED BY <1>3, <1>4 DEF b

\* The other questions leave the answers of a stat as they were.
LEMMA AskedLemma ==
  ASSUME NEW n, NEW a \in FileAttr, NEW s \in File, NEW q \in F!OfStat \cup {"timestamp", "readable", "writable", "executable"}
  PROVE  F!Asked(n, a, q, s) \in FileAttr /\ SameStat(a, F!Asked(n, a, q, s))
<1> DEFINE b == F!Asked(n, a, q, s)
<1>i. \A c : F!IsOne(c) \in {0, 1}
  BY DEF F!IsOne
<1>1. \/ b = a
      \/ \E v \in {s.time, -1} : b = [a EXCEPT !.timestamp = v]
      \/ \E v \in {0, 1} : \/ b = [a EXCEPT !.readable = v] \/ b = [a EXCEPT !.writable = v]
                           \/ b = [a EXCEPT !.executable = v]
  <2>1. CASE q \in F!OfStat
    BY <2>1 DEF F!Asked, F!OfStat
  <2>2. CASE q = "timestamp"
    BY <2>2 DEF F!Asked
  <2>3. CASE q = "readable"
    BY <1>i, <2>3 DEF F!Asked
  <2>4. CASE q = "writable"
    BY <1>i, <2>4 DEF F!Asked
  <2>5. CASE q = "executable"
    BY <1>i, <2>5 DEF F!Asked
  <2> QED BY <2>1, <2>2, <2>3, <2>4, <2>5
<1>2. s.time \in Int /\ -1 \in Int /\ SameStat(a, a)
  BY DEF File, SameStat
<1>3. \A v \in {0, 1} : v \in Int
  OBVIOUS
<1> HIDE DEF b
<1>4. b \in FileAttr /\ SameStat(a, b)
  BY <1>1, <1>2, <1>3, OneType
<1> QED BY <1>4 DEF b

\* What is stored is never an answer that is missing.
LEMMA StoredKnown ==
  ASSUME NEW a, NEW f \in File, Stored(a, f), NEW q
  PROVE  ~F!Missing(a, q)
  BY DEF Stored, F!IsOne, F!ATTR_UNSET, File, F!Missing, F!OfStat

LEMMA FreshMissing ==
  ASSUME NEW t \in Tasks, Fresh(t), NEW q \in F!OfStat
  PROVE  F!Missing(attr[t], q)
  BY DEF Fresh, F!Missing, F!OfStat

\* What is told first of a stat.
LEMMA FirstTold ==
  ASSUME CacheInv, NEW t \in Tasks, Fresh(t), NEW b, NEW q, attr'[t] = b,
         answers'[t] = answers[t] \cup {<<q, F!Answer(b, q)>>}
  PROVE  Told(t)'
<1> DEFINE v == F!Answer(b, q)
           new == <<q, v>>
<1>1. new[1] = q /\ new[2] = v /\ answers'[t] = answers[t] \cup {new}
  OBVIOUS
<1>2. q \in F!OfStat => v = b[q]
  BY DEF F!Answer, F!OfStat
<1> HIDE DEF v, new
<1> QED BY <1>1, <1>2 DEF Fresh, Told, F!OfStat

\* A stat that ends with b, which is what it has seen as f.
LEMMA StatCache ==
  ASSUME FileTyped, CacheInv, NEW t \in Tasks, NEW q, NEW b \in FileAttr, F!Tell(t, q, b),
         UNCHANGED <<file, subject, since>>, filecall'[t].at # "stat",
         \A u \in Tasks : u # t => filecall'[u] = filecall[u],
         subject[t] \in AllFiles \ Special =>
           Fresh(t) /\ \E f \in F!Views(since[t], b) : Stored(b, f)
  PROVE  CacheInv'
<1>1. /\ attr' = [attr EXCEPT ![t] = b]
      /\ answers' = [answers EXCEPT ![t] = @ \cup {<<q, F!Answer(b, q)>>}]
  BY DEF F!Tell
<1>2. CacheTyped'
  BY <1>1 DEF CacheInv, CacheTyped
<1>3. /\ attr'[t] = b /\ answers'[t] = answers[t] \cup {<<q, F!Answer(b, q)>>}
      /\ \A u \in Tasks : u # t => attr'[u] = attr[u] /\ answers'[u] = answers[u]
  BY <1>1 DEF CacheInv, CacheTyped
<1>4. ASSUME subject[t] \in AllFiles \ Special  PROVE CacheOf(t)'
  <2>1. Told(t)'
    BY <1>3, <1>4, FirstTold
  <2>2. PICK f \in F!Views(since[t], b) : Stored(b, f)
    BY <1>4
  <2>3. f \in F!Views(since[t], attr[t])' /\ Stored(attr[t], f)'
    BY <1>3, <2>2
  <2> QED BY <1>4, <2>1, <2>3 DEF CacheOf, CacheInv
<1> QED BY <1>2, <1>3, <1>4, OnlyCacheOf

LEMMA AskCache ==
  ASSUME F!QuestionAssumption, FileTyped, CacheInv, NEW t \in Tasks, NEW q \in Questions, F!ask(t, q)
  PROVE  CacheInv'
<1>1. /\ subject[t] \in AllFiles /\ filecall[t].at # "stat" /\ ~F!Missing(attr[t], q)
      /\ UNCHANGED <<file, subject, since, filecall>>
  BY DEF F!ask, F!Begin, FileTyped
<1>2. file[subject[t]] \in File /\ F!NoFile \in File /\ attr[t] \in FileAttr
  BY <1>1, FileType DEF FileTyped, CacheInv, CacheTyped
<1>3. PICK s \in File : F!Tell(t, q, F!Asked(subject[t], attr[t], q, s))
  BY <1>2 DEF F!ask, F!GetFileAttributesEx, F!AttributesOf
<1>4. q \in F!OfStat \cup {"timestamp", "readable", "writable", "executable"}
  BY DEF F!QuestionAssumption, F!OfStat
<1> DEFINE b == F!Asked(subject[t], attr[t], q, s)
<1>5. b \in FileAttr /\ SameStat(attr[t], b)
  BY <1>2, <1>4, AskedLemma
<1> HIDE DEF b
<1>6. /\ attr' = [attr EXCEPT ![t] = b]
      /\ answers' = [answers EXCEPT ![t] = @ \cup {<<q, F!Answer(b, q)>>}]
  BY <1>3 DEF F!Tell, b
<1>7. CacheTyped'
  BY <1>1, <1>5, <1>6 DEF CacheInv, CacheTyped
<1>8. /\ attr'[t] = b /\ answers'[t] = answers[t] \cup {<<q, F!Answer(b, q)>>}
      /\ \A u \in Tasks : u # t => attr'[u] = attr[u] /\ answers'[u] = answers[u]
  BY <1>6 DEF CacheInv, CacheTyped
<1> DEFINE v == F!Answer(b, q)
           new == <<q, v>>
<1>9. /\ new[1] = q /\ new[2] = v /\ answers'[t] = answers[t] \cup {new}
      /\ q \in F!OfStat => v = b[q]
  BY <1>8 DEF F!Answer, F!OfStat
<1> HIDE DEF v, new
<1>10. ASSUME subject[t] \in AllFiles \ Special  PROVE CacheOf(t)'
  <2>1. CASE Fresh(t)
    <3>1. q \notin F!OfStat
      BY <1>1, <2>1, FreshMissing
    <3>2. Fresh(t)'
      BY <1>5, <1>8, <1>9, <2>1, <3>1 DEF Fresh, SameStat, F!OfStat
    <3> QED BY <1>1, <1>10, <3>2 DEF CacheOf, CacheInv
  <2>2. ASSUME NEW f \in F!Views(since[t], attr[t]), Stored(attr[t], f), Told(t)  PROVE CacheOf(t)'
    <3>1. since[t] \in SUBSET File
      BY DEF CacheInv, CacheTyped
    <3>2. f \in F!Views(since'[t], attr'[t])
      BY <1>1, <1>5, <1>8, <3>1, ViewsGrow DEF SameStat
    <3>3. Stored(attr'[t], f)
      BY <1>5, <1>8, <2>2 DEF Stored, SameStat
    <3>4. Told(t)'
      BY <1>5, <1>8, <1>9, <2>2 DEF Told, SameStat, F!OfStat
    <3> QED BY <1>1, <1>10, <3>2, <3>3, <3>4 DEF CacheOf, CacheInv
  <2> QED BY <1>10, <2>1, <2>2 DEF CacheInv, CacheOf
<1> QED BY <1>1, <1>7, <1>8, <1>10, OnlyCacheOf

LEMMA BeginCache ==
  ASSUME FileTyped, CacheInv, NEW t \in Tasks, NEW q \in Questions, F!stat(t, q)
  PROVE  CacheInv'
<1>1. /\ subject[t] \in AllFiles /\ F!Missing(attr[t], q) /\ filecall[t].at # "stat"
      /\ UNCHANGED <<file, subject, since>>
  BY DEF F!stat, F!Begin, FileTyped
<1>2. /\ file[subject[t]] \in File /\ attr[t] \in FileAttr /\ since[t] \in SUBSET File
      /\ subject[t] \in AllFiles \ Special => file[subject[t]] \in since[t]
  BY <1>1 DEF FileTyped, CacheInv, CacheTyped, CacheOf
<1>3. subject[t] \in AllFiles \ Special => Fresh(t)
  <2> SUFFICES ASSUME subject[t] \in AllFiles \ Special, ~Fresh(t)  PROVE FALSE
    OBVIOUS
  <2>1. PICK f \in F!Views(since[t], attr[t]) : Stored(attr[t], f)
    BY DEF CacheInv, CacheOf
  <2> QED BY <1>1, <1>2, <2>1, ViewsFiles, StoredKnown
<1>4. ASSUME NEW s, s = file[subject[t]], F!Tell(t, q, F!stat_to_attr(attr[t], s, "none")), filecall' = filecall
      PROVE  CacheInv'
  <2> DEFINE b == F!stat_to_attr(attr[t], s, "none")
  <2>1. b \in FileAttr /\ Stored(b, s)
    BY <1>2, <1>4, StatLemma
  <2> HIDE DEF b
  <2>2. F!Tell(t, q, b)
    BY <1>4 DEF b
  <2>3. subject[t] \in AllFiles \ Special => s \in F!Views(since[t], b)
    BY <1>2, <1>4, ViewsFiles
  <2> QED BY <1>1, <1>3, <1>4, <2>1, <2>2, <2>3, StatCache
<1>5. ASSUME NEW e \in F!Errors(subject[t]), filecall' = [filecall EXCEPT ![t] = StatCall(F!Idle, q, e)],
             UNCHANGED <<attr, answers>>
      PROVE  CacheInv'
  <2>1. e \in {"ENOENT", "EACCES"} /\ (e = "ENOENT" => file[subject[t]].kind = "none")
    BY <1>5 DEF F!Errors, F!Exists
  <2>2. q \in F!OfStat
    BY <1>1 DEF F!Missing, F!OfStat
  <2> DEFINE c == StatCall(F!Idle, q, e)
  <2>3. c.at = "stat" /\ c.error = e
    BY <2>1, <2>2, IdleType, CallStat
  <2> HIDE DEF c
  <2>4. filecall'[t] = c /\ \A u \in Tasks : u # t => filecall'[u] = filecall[u]
    BY <1>5 DEF c, FileTyped
  <2>5. ASSUME subject[t] \in AllFiles \ Special  PROVE CacheOf(t)'
    <3>1. Fresh(t)'
      BY <1>3, <1>5, <2>5 DEF Fresh
    <3>2. Halfway(t)'
      BY <1>1, <1>2, <2>1, <2>3, <2>4, <2>5, <3>1 DEF Halfway
    <3> QED BY <1>1, <1>2, <2>5, <3>1, <3>2 DEF CacheOf
  <2>6. CacheTyped'
    BY <1>1, <1>5 DEF CacheInv, CacheTyped
  <2> QED BY <1>1, <1>5, <2>4, <2>5, <2>6, OnlyCacheOf
<1>6. PICK s \in F!GetFileAttributesEx(subject[t]) :
        IF s.kind # "none"
        THEN F!Tell(t, q, F!stat_to_attr(attr[t], s, "none")) /\ filecall' = filecall
        ELSE /\ \E e \in F!Errors(subject[t]) : filecall' = [filecall EXCEPT ![t] = StatCall(F!Idle, q, e)]
             /\ UNCHANGED <<attr, answers>>
  BY DEF F!stat, StatCall
<1>7. s.kind # "none" => s = file[subject[t]]
  BY <1>6 DEF F!GetFileAttributesEx, F!NoFile
<1> QED BY <1>4, <1>5, <1>6, <1>7

LEMMA EndCache ==
  ASSUME F!NameAssumption, FileTyped, CacheInv, NEW t \in Tasks, subject[t] \in AllFiles, F!stat_exists(t)
  PROVE  CacheInv'
<1>1. filecall[t].at = "stat" /\ UNCHANGED <<file, subject, since>> /\ filecall' = [filecall EXCEPT ![t] = F!Idle]
  BY DEF F!stat_exists
<1>2. filecall'[t].at # "stat" /\ \A u \in Tasks : u # t => filecall'[u] = filecall[u]
  BY <1>1, IdleType DEF FileTyped
<1>3. /\ file[subject[t]] \in File /\ F!NoFile \in File /\ F!Pretended \in File
      /\ attr[t] \in FileAttr /\ since[t] \in SUBSET File
      /\ filecall[t].error \in {"none", "ENOENT", "EACCES"}
  <2>1. file[subject[t]] \in File /\ attr[t] \in FileAttr /\ since[t] \in SUBSET File
    BY DEF FileTyped, CacheInv, CacheTyped
  <2>2. F!NoFile \in File /\ F!Pretended \in File
    BY DEF File, F!NoFile, F!Pretended, Kinds
  <2>3. filecall[t] \in FileCall
    BY DEF FileTyped
  <2>4. filecall[t].error \in {"none", "ENOENT", "EACCES"}
    BY <2>3 DEF FileCall
  <2> QED BY <2>1, <2>2, <2>4
<1>4. subject[t] \in AllFiles \ Special => Halfway(t) /\ file[subject[t]] \in since[t]
  BY <1>1 DEF CacheInv, CacheOf
<1> DEFINE q == filecall[t].question
<1>5. CASE F!Tell(t, q, F!stat_to_attr(attr[t], F!Pretended, "none")) /\ file[subject[t]].kind # "none"
  <2> DEFINE b == F!stat_to_attr(attr[t], F!Pretended, "none")
  <2>1. b \in FileAttr /\ Stored(b, F!Pretended)
    BY <1>3, StatLemma
  <2> HIDE DEF b, q
  <2>2. F!Tell(t, q, b)
    BY <1>5 DEF b
  <2>3. subject[t] \in AllFiles \ Special => F!Pretended \in F!Views(since[t], b) /\ Fresh(t)
    BY <1>3, <1>4, <1>5, ViewsFiles DEF Halfway
  <2> QED BY <1>1, <1>2, <2>1, <2>2, <2>3, StatCache
<1>6. CASE F!Tell(t, q, F!stat_to_attr(attr[t], F!NoFile, filecall[t].error))
  <2> DEFINE b == F!stat_to_attr(attr[t], F!NoFile, filecall[t].error)
  <2>1. /\ b \in FileAttr /\ Stored(b, F!NoFile)
        /\ b.error = IF filecall[t].error = "ENOENT" THEN "none" ELSE filecall[t].error
    BY <1>3, StatLemma
  <2> HIDE DEF b, q
  <2>2. F!Tell(t, q, b)
    BY <1>6 DEF b
  <2>3. ASSUME subject[t] \in AllFiles \ Special  PROVE Fresh(t) /\ \E f \in F!Views(since[t], b) : Stored(b, f)
    <3>1. CASE filecall[t].error = "EACCES"
      BY <1>3, <1>4, <2>1, <2>3, <3>1, ViewsFiles DEF Halfway
    <3>2. CASE filecall[t].error = "ENOENT"
      <4>1. PICK f \in since[t] : f.kind = "none"
        BY <1>4, <2>3, <3>2 DEF Halfway
      <4>2. Stored(b, f)
        BY <2>1, <4>1 DEF Stored, F!NoFile
      <4> QED BY <1>3, <1>4, <2>3, <4>1, <4>2, ViewsFiles DEF Halfway
    <3> QED BY <1>4, <2>3, <3>1, <3>2 DEF Halfway
  <2> QED BY <1>1, <1>2, <2>1, <2>2, <2>3, StatCache
<1>7. \/ F!Tell(t, q, F!stat_to_attr(attr[t], F!NoFile, filecall[t].error))
      \/ F!Tell(t, q, F!stat_to_attr(attr[t], F!Pretended, "none")) /\ file[subject[t]].kind # "none"
  BY DEF F!stat_exists, F!AttributesOf, F!NoFile
<1> QED BY <1>5, <1>6, <1>7

\* A task with a stat under way has a subject.
SubjectOfStat == \A t \in Tasks : filecall[t].at = "stat" => subject[t] \in AllFiles

LEMMA SubjectKept ==
  ASSUME F!NameAssumption, FileTyped, FilesNamed, SubjectOfStat, [F!Next]_F!vars
  PROVE  SubjectOfStat'
<1>1. filecall \in [Tasks -> FileCall] /\ F!Idle.at # "stat"
      /\ subject \in [Tasks -> AllFiles \cup {NoName}]
  BY IdleType DEF FileTyped
<1>2. CASE \E t \in Tasks, n \in AllFiles : F!reset_attributes(t, n)
  BY <1>1, <1>2 DEF F!reset_attributes, SubjectOfStat
<1>3. CASE \E t \in Tasks, q \in Questions : F!ask(t, q)
  BY <1>1, <1>3 DEF F!ask, SubjectOfStat
<1>4. CASE \E t \in Tasks, q \in Questions : F!stat(t, q)
  BY <1>1, <1>4 DEF F!stat, SubjectOfStat
<1>5. CASE \E t \in Tasks : F!stat_exists(t)
  BY <1>1, <1>5 DEF F!stat_exists, SubjectOfStat
<1>6. CASE UNCHANGED subject /\ StatsKept
  BY <1>6 DEF SubjectOfStat, StatsKept
<1> QED BY <1>2, <1>3, <1>4, <1>5, <1>6, NextChanges

(***************************************************************************)
(* What __gnat_file_exists_attr, _is_regular_file_attr, _is_directory_attr *)
(* and _file_length_attr tell of a file comes from one stat, in whatever   *)
(* order and how often they are asked, however the file changes between    *)
(* them and whatever fails: it is what the file was at one moment since    *)
(* the attributes were reset, or a pretended file that was there at one,   *)
(* or a missing file with an error.                                        *)
(***************************************************************************)
THEOREM AnswersAgree ==
  ASSUME F!NameAssumption, F!QuestionAssumption
  PROVE  F!Spec => []F!AnswersOfOneStat
<1>1. F!Init => CacheInv /\ SubjectOfStat
  <2> SUFFICES ASSUME F!Init  PROVE CacheInv /\ SubjectOfStat
    OBVIOUS
  <2>1. F!Unset \in FileAttr
    BY DEF F!Unset, FileAttr, F!ATTR_UNSET, F!TimeUnset
  <2>2. CacheTyped
    BY <2>1 DEF F!Init, CacheTyped
  <2>3. \A t \in Tasks : subject[t] \notin AllFiles /\ filecall[t].at = "idle"
    BY DEF F!Init, F!NameAssumption, F!Idle
  <2> QED BY <2>2, <2>3 DEF CacheInv, CacheOf, SubjectOfStat
<1>2. FilesInv /\ FilesInv' /\ SubjectOfStat /\ CacheInv /\ [F!Next]_F!vars => CacheInv'
  <2> SUFFICES ASSUME FilesInv, FilesInv', SubjectOfStat, CacheInv, [F!Next]_F!vars  PROVE CacheInv'
    OBVIOUS
  <2>1. \A t \in Tasks : F!stat_exists(t) => subject[t] \in AllFiles
    BY DEF F!stat_exists, SubjectOfStat
  <2> QED BY <2>1, NextChanges, ChangeSeen, ResetCache, AskCache, BeginCache, EndCache DEF FilesInv
<1>3. CacheInv => F!AnswersOfOneStat
  <2> SUFFICES ASSUME CacheInv, NEW t \in Tasks, subject[t] \in AllFiles \ Special
               PROVE  \E f \in F!Views(since[t], attr[t]) : \A a \in answers[t] :
                        a[1] \in F!OfStat => F!TrueOf(f, a[1], a[2])
    BY DEF F!AnswersOfOneStat, F!OneView
  <2>1. /\ file[subject[t]] \in since[t] /\ since[t] \in SUBSET File
        /\ Fresh(t) \/ \E f \in F!Views(since[t], attr[t]) : Stored(attr[t], f) /\ Told(t)
    BY DEF CacheInv, CacheOf, CacheTyped
  <2>2. CASE Fresh(t)
    <3>1. file[subject[t]] \in F!Views(since[t], attr[t])
      BY <2>1, ViewsFiles
    <3> QED BY <2>2, <3>1 DEF Fresh, F!OfStat
  <2>3. ASSUME NEW f \in F!Views(since[t], attr[t]), Stored(attr[t], f), Told(t), NEW a \in answers[t],
               a[1] \in F!OfStat
        PROVE  F!TrueOf(f, a[1], a[2])
    BY <2>3 DEF Stored, Told, F!TrueOf, F!OfStat
  <2> QED BY <2>1, <2>2, <2>3
<1>4. FilesInv /\ SubjectOfStat /\ [F!Next]_F!vars => SubjectOfStat'
  <2> QED BY SubjectKept DEF FilesInv
<1>5. FilesInv /\ [F!Next]_F!vars /\ F!NameAssumption => FilesInv'
  BY FilesStep
<1> QED BY <1>1, <1>2, <1>3, <1>4, FilesInit, FilesStep, PTL DEF F!Spec

-----------------------------------------------------------------------------
(***************************************************************************)
(* The start of the run-time.                                              *)
(***************************************************************************)
Argument == [len : Nat, quoted : BOOLEAN, closed : BOOLEAN, dir : BOOLEAN, matches : Seq(STRING)]
Parts_Args == {<<"part", k, from, to>> : k \in Nat, from \in {1, 2}, to \in Int}
Names_Args == {"under", "name"} \X Nat \X STRING
Stored_Args == Parts_Args \cup Names_Args

StartTyped ==
  /\ line \in Seq(Argument) /\ expansion \in BOOLEAN
  /\ ProcList \in {"none", "live"} /\ size \in Nat /\ gnat_argv \in Seq(Stored_Args)
  /\ refs \in [StartTasks -> Nat]
  /\ startplace \in
       [StartTasks -> [at : {"idle", "increment", "counted", "returned", "arguments",
                             "decrement", "uncounted"},
                       read : Nat, k : Nat, m : Nat]]

\* What of the command line comes before match m of argument k.
ArgsBefore(k, m) == {v \in R!Wanted : v[1] < k \/ (v[1] = k /\ v[2] < m)}

\* The table argv has just the arguments of B, in order.
Stores(argv, B) ==
  /\ Len(argv) = Cardinality(B)
  /\ \A w \in B : argv[Cardinality(R!Upto(w))] = R!Meaning(w[1], w[2])

QuotesClosed == \A k \in DOMAIN line : line[k].quoted => line[k].closed

\* The run-time has been initialized and is not deleted, for the one task.
Started(t) ==
  \/ startplace[t].at \in {"arguments", "uncounted"}
  \/ startplace[t].at \in {"idle", "returned", "increment", "decrement"} /\ refs[t] > 0
  \/ startplace[t].at = "counted" /\ refs[t] > 1

\* What of the command line has been passed is in the table; all of it is.
PassedStored(t) ==
  QuotesClosed => Stores(gnat_argv, ArgsBefore(startplace[t].k, startplace[t].m))
LineStored == QuotesClosed => Stores(gnat_argv, R!Wanted)

\* The count is what the one task has asked for, and the table is large enough.
StartOf(t) ==
  /\ count = refs[t]
  /\ startplace[t].at \in {"increment", "decrement"} => startplace[t].read = count
  /\ startplace[t].at \in {"counted", "arguments", "returned", "decrement"} => refs[t] > 0
  /\ Started(t) /\ startplace[t].at # "arguments" => size = Len(gnat_argv) /\ LineStored
  /\ startplace[t].at = "arguments" =>
       /\ startplace[t].k \in 1 .. Len(line) + 1 /\ Len(gnat_argv) <= size
       /\ startplace[t].m # 0 =>
            /\ startplace[t].k <= Len(line) /\ R!Wild(line[startplace[t].k])
            /\ startplace[t].m \in DOMAIN line[startplace[t].k].matches
       /\ PassedStored(t)

StartInv ==
  /\ StartTyped
  /\ ProcList = "live" <=> \E t \in StartTasks : Started(t)
  /\ \A t \in StartTasks : StartOf(t)

\* The arguments and matches that are wanted.
LEMMA WantedIs ==
  ASSUME StartTyped
  PROVE  /\ \A v \in R!Wanted : v = <<v[1], v[2]>> /\ v[1] \in DOMAIN line /\ v[2] \in Nat
         /\ \A k, m : <<k, m>> \in R!Wanted <=>
              /\ k \in DOMAIN line
              /\ IF R!Wild(line[k])
                   THEN m \in DOMAIN line[k].matches /\ line[k].matches[m] \notin {".", ".."}
                   ELSE m = 0
         /\ IsFiniteSet(R!Wanted)
<1>1. DOMAIN line = 1 .. Len(line) /\ Len(line) \in Nat
  BY DEF StartTyped
<1>2. ASSUME NEW k \in DOMAIN line
      PROVE  /\ line[k] \in Argument
             /\ DOMAIN line[k].matches = 1 .. Len(line[k].matches) /\ Len(line[k].matches) \in Nat
  <2>1. line[k] \in Argument
    BY DEF StartTyped
  <2>2. line[k].matches \in Seq(STRING)
    BY <2>1 DEF Argument
  <2> QED BY <2>1, <2>2
<1>3. \A k \in DOMAIN line :
        R!Stands(k) =
          IF R!Wild(line[k])
            THEN {<<k, m>> : m \in {m \in DOMAIN line[k].matches : line[k].matches[m] \notin {".", ".."}}}
            ELSE {<<k, 0>>}
  BY Zenon DEF R!Stands, R!Wild
<1>4. \A v : v \in R!Wanted <=> \E k \in DOMAIN line : v \in R!Stands(k)
  BY Zenon DEF R!Wanted
<1>5. ASSUME NEW v \in R!Wanted
      PROVE  v = <<v[1], v[2]>> /\ v[1] \in DOMAIN line /\ v[2] \in Nat
  <2>1. PICK k \in DOMAIN line : v \in R!Stands(k)
    BY <1>4
  <2>2. PICK m : v = <<k, m>> /\ (m \in DOMAIN line[k].matches \/ m = 0)
    BY <1>3, <2>1
  <2> QED BY <1>2, <2>2
<1>6. ASSUME NEW k, NEW m
      PROVE  <<k, m>> \in R!Wanted <=>
               /\ k \in DOMAIN line
               /\ IF R!Wild(line[k])
                    THEN m \in DOMAIN line[k].matches /\ line[k].matches[m] \notin {".", ".."}
                    ELSE m = 0
  <2>1. \A j \in DOMAIN line : <<k, m>> \in R!Stands(j) =>
          /\ j = k
          /\ IF R!Wild(line[k])
               THEN m \in DOMAIN line[k].matches /\ line[k].matches[m] \notin {".", ".."}
               ELSE m = 0
    BY <1>3
  <2>2. /\ k \in DOMAIN line
        /\ IF R!Wild(line[k])
             THEN m \in DOMAIN line[k].matches /\ line[k].matches[m] \notin {".", ".."}
             ELSE m = 0
        => <<k, m>> \in R!Stands(k)
    BY <1>3
  <2> QED BY <1>4, <2>1, <2>2
<1>7. IsFiniteSet(R!Wanted)
  <2> DEFINE mat == [k \in DOMAIN line |-> {k} \X (0 .. Len(line[k].matches))]
             all == UNION {mat[k] : k \in DOMAIN line}
  <2>1. IsFiniteSet({mat[k] : k \in DOMAIN line})
    <3>1. IsFiniteSet(DOMAIN line)
      BY <1>1, FS_Interval
    <3>2. mat \in Surjection(DOMAIN line, {mat[k] : k \in DOMAIN line})
      <4> DEFINE images == {mat[k] : k \in DOMAIN line}
      <4>1. mat \in [DOMAIN line -> images]
        OBVIOUS
      <4>2. \A T \in images : \E k \in DOMAIN line : mat[k] = T
        OBVIOUS
      <4> QED BY <4>1, <4>2 DEF Surjection
    <3> HIDE DEF mat
    <3> QED BY <3>1, <3>2, FS_Surjection DEF ExistsSurjection
  <2>2. ASSUME NEW k \in DOMAIN line  PROVE IsFiniteSet(mat[k])
    <3>1. IsFiniteSet({k})
      BY FS_Singleton
    <3>2. Len(line[k].matches) \in Int
      BY <1>2
    <3>3. IsFiniteSet(0 .. Len(line[k].matches))
      BY <3>2, FS_Interval
    <3>4. IsFiniteSet({k} \X (0 .. Len(line[k].matches)))
      BY <3>1, <3>3, FS_Product
    <3> QED BY <3>4
  <2>3. IsFiniteSet(all)
    <3> HIDE DEF mat
    <3> QED BY <2>1, <2>2, FS_UNION
  <2>4. R!Wanted \subseteq all
    <3> SUFFICES ASSUME NEW v \in R!Wanted  PROVE v \in mat[v[1]] /\ v[1] \in DOMAIN line
      OBVIOUS
    <3>1. v = <<v[1], v[2]>> /\ v[1] \in DOMAIN line
      BY <1>5
    <3>2. v[2] \in 0 .. Len(line[v[1]].matches)
      BY <1>2, <1>6, <3>1
    <3> QED BY <3>1, <3>2
  <2> HIDE DEF all
  <2> QED BY <2>3, <2>4, FS_Subset
<1> QED BY <1>5, <1>6, <1>7

\* The command line stays as it was.
LEMMA SameWanted ==
  ASSUME UNCHANGED <<line, expansion>>
  PROVE  /\ LineStored' <=> (QuotesClosed => Stores(gnat_argv', R!Wanted))
         /\ \A t : PassedStored(t)' <=>
              (QuotesClosed => Stores(gnat_argv', ArgsBefore(startplace'[t].k, startplace'[t].m)))
         /\ \A a : R!Wild(a)' <=> R!Wild(a)
<1>1. /\ \A k : R!Stands(k)' = R!Stands(k)
      /\ \A k, m : R!Meaning(k, m)' = R!Meaning(k, m)
  BY DEF R!Stands, R!Meaning
<1>2. R!Wanted' = R!Wanted
  BY <1>1 DEF R!Wanted
<1>3. \A w : R!Upto(w)' = R!Upto(w)
  BY <1>2 DEF R!Upto
<1>4. (QuotesClosed' <=> QuotesClosed) /\ \A a : R!Wild(a)' <=> R!Wild(a)
  BY DEF QuotesClosed, R!Wild
<1>5. LineStored' <=> (QuotesClosed => Stores(gnat_argv', R!Wanted))
  BY <1>1, <1>2, <1>3, <1>4 DEF LineStored, Stores
<1>6. ASSUME NEW t
      PROVE  PassedStored(t)' <=>
               (QuotesClosed => Stores(gnat_argv', ArgsBefore(startplace'[t].k, startplace'[t].m)))
  <2>1. ArgsBefore(startplace[t].k, startplace[t].m)' = ArgsBefore(startplace'[t].k, startplace'[t].m)
    BY <1>2 DEF ArgsBefore
  <2> QED BY <1>1, <1>3, <1>4, <2>1 DEF PassedStored, Stores
<1> QED BY <1>4, <1>5, <1>6

\* One more is stored, at the end.
LEMMA OneStored ==
  ASSUME StartTyped, NEW k \in DOMAIN line, NEW m \in Nat, <<k, m>> \in R!Wanted,
         NEW argv \in Seq(Stored_Args), Stores(argv, ArgsBefore(k, m)),
         NEW value, value = R!Meaning(k, m)
  PROVE  Stores(Append(argv, value), ArgsBefore(k, m) \cup {<<k, m>>})
<1> DEFINE B == ArgsBefore(k, m)
           w == <<k, m>>
           B2 == B \cup {w}
<1>0. \A v \in R!Wanted : v = <<v[1], v[2]>> /\ v[1] \in Nat /\ v[2] \in Nat
  <2>1. DOMAIN line \subseteq Nat
    BY DEF StartTyped
  <2> QED BY <2>1, WantedIs
<1>1. B \in SUBSET R!Wanted /\ w \notin B /\ B2 = R!Upto(w)
  <2>1. B \in SUBSET R!Wanted /\ w \notin B
    BY DEF ArgsBefore
  <2>2. k \in Nat
    BY DEF StartTyped
  <2>3. ASSUME NEW v \in R!Wanted  PROVE v \in R!Upto(w) <=> v \in B2
    <3>1. v = w <=> v[1] = k /\ v[2] = m
      BY <1>0
    <3>2. v \in B <=> v[1] < k \/ (v[1] = k /\ v[2] < m)
      BY DEF ArgsBefore
    <3>3. v \in R!Upto(w) <=> v[1] < k \/ (v[1] = k /\ v[2] <= m)
      BY DEF R!Upto
    <3> QED BY <1>0, <2>2, <3>1, <3>2, <3>3
  <2>4. R!Upto(w) \subseteq R!Wanted
    BY DEF R!Upto
  <2> QED BY <2>1, <2>3, <2>4
<1>2. \A v \in B : R!Upto(v) \in SUBSET B /\ v \in R!Upto(v)
  BY <1>0 DEF ArgsBefore, R!Upto, StartTyped
<1>3. IsFiniteSet(B) /\ Cardinality(B) \in Nat
  BY <1>1, WantedIs, FS_Subset, FS_CardinalityType
<1> HIDE DEF B
<1>4. IsFiniteSet(B2) /\ Cardinality(B2) = Cardinality(B) + 1
  BY <1>1, <1>3, FS_AddElement
<1>5. ASSUME NEW v \in B  PROVE Cardinality(R!Upto(v)) \in 1 .. Cardinality(B)
  <2>1. IsFiniteSet(R!Upto(v)) /\ Cardinality(R!Upto(v)) <= Cardinality(B)
    BY <1>2, <1>3, FS_Subset
  <2>2. Cardinality(R!Upto(v)) \in Nat /\ Cardinality(R!Upto(v)) # 0
    BY <1>2, <2>1, FS_CardinalityType, FS_EmptySet
  <2> QED BY <2>1, <2>2, <1>3
<1>6. Len(argv) = Cardinality(B) /\ \A v \in B : argv[Cardinality(R!Upto(v))] = R!Meaning(v[1], v[2])
  BY DEF Stores, B
<1>7. /\ Len(Append(argv, value)) = Cardinality(B) + 1
      /\ Append(argv, value)[Cardinality(B) + 1] = value
      /\ \A i \in 1 .. Cardinality(B) : Append(argv, value)[i] = argv[i]
  BY <1>6
<1>8. ASSUME NEW v \in B2
      PROVE  Append(argv, value)[Cardinality(R!Upto(v))] = R!Meaning(v[1], v[2])
  <2>1. CASE v \in B
    BY <1>5, <1>6, <1>7, <2>1
  <2>2. CASE v = w
    <3>1. Cardinality(R!Upto(v)) = Cardinality(B) + 1
      BY <1>1, <1>4, <2>2
    <3> QED BY <1>7, <2>2, <3>1
  <2> QED BY <2>1, <2>2
<1>9. Stores(Append(argv, value), B2)
  BY <1>4, <1>7, <1>8 DEF Stores
<1> QED BY <1>9 DEF B

\* What comes before the next place of the command line.
LEMMA NextBefore ==
  ASSUME StartTyped
  PROVE  /\ ArgsBefore(1, 0) = {}
         /\ ArgsBefore(Len(line) + 1, 0) = R!Wanted
         /\ \A k \in DOMAIN line :
              /\ ~R!Wild(line[k]) =>
                   <<k, 0>> \in R!Wanted /\ ArgsBefore(k + 1, 0) = ArgsBefore(k, 0) \cup {<<k, 0>>}
              /\ R!Wild(line[k]) => ArgsBefore(k, 1) = ArgsBefore(k, 0)
              /\ \A m \in DOMAIN line[k].matches : R!Wild(line[k]) =>
                   LET this == IF line[k].matches[m] \in {".", ".."} THEN {} ELSE {<<k, m>>}
                   IN /\ this \subseteq R!Wanted
                      /\ ArgsBefore(k, m + 1) = ArgsBefore(k, m) \cup this
                      /\ m = Len(line[k].matches) => ArgsBefore(k + 1, 0) = ArgsBefore(k, m) \cup this
<1>1. DOMAIN line = 1 .. Len(line) /\ Len(line) \in Nat
  BY DEF StartTyped
<1>2. \A v \in R!Wanted : v = <<v[1], v[2]>> /\ v[1] \in 1 .. Len(line) /\ v[2] \in Nat
  BY <1>1, WantedIs
<1>3. ArgsBefore(1, 0) = {} /\ ArgsBefore(Len(line) + 1, 0) = R!Wanted
  BY <1>1, <1>2 DEF ArgsBefore
<1>4. ASSUME NEW k \in DOMAIN line, ~R!Wild(line[k])
      PROVE  <<k, 0>> \in R!Wanted /\ ArgsBefore(k + 1, 0) = ArgsBefore(k, 0) \cup {<<k, 0>>}
  <2>1. <<k, 0>> \in R!Wanted /\ \A v \in R!Wanted : v[1] = k => v = <<k, 0>>
    BY <1>2, <1>4, WantedIs
  <2> QED BY <1>1, <1>2, <2>1 DEF ArgsBefore
<1>5. ASSUME NEW k \in DOMAIN line, R!Wild(line[k])  PROVE ArgsBefore(k, 1) = ArgsBefore(k, 0)
  <2>1. \A v \in R!Wanted : v[1] = k => v[2] # 0
    <3> SUFFICES ASSUME NEW v \in R!Wanted, v[1] = k  PROVE v[2] # 0
      OBVIOUS
    <3>1. v[2] \in DOMAIN line[k].matches
      BY <1>2, <1>5, WantedIs
    <3>2. line[k] \in Argument
      BY DEF StartTyped
    <3>3. line[k].matches \in Seq(STRING)
      BY <3>2 DEF Argument
    <3> QED BY <3>1, <3>3
  <2> QED BY <1>1, <1>2, <2>1 DEF ArgsBefore
<1>6. ASSUME NEW k \in DOMAIN line, R!Wild(line[k]), NEW m \in DOMAIN line[k].matches,
             NEW this, this = IF line[k].matches[m] \in {".", ".."} THEN {} ELSE {<<k, m>>}
      PROVE  /\ this \subseteq R!Wanted
             /\ ArgsBefore(k, m + 1) = ArgsBefore(k, m) \cup this
             /\ m = Len(line[k].matches) => ArgsBefore(k + 1, 0) = ArgsBefore(k, m) \cup this
  <2>1. line[k].matches \in Seq(STRING)
    <3>1. line[k] \in Argument
      BY DEF StartTyped
    <3> QED BY <3>1 DEF Argument
  <2>2. m \in Nat /\ DOMAIN line[k].matches = 1 .. Len(line[k].matches) /\ Len(line[k].matches) \in Nat
    BY <2>1
  <2>3. <<k, m>> \in R!Wanted <=> line[k].matches[m] \notin {".", ".."}
    BY <1>6, WantedIs
  <2>4. \A v \in R!Wanted : v[1] = k => v[2] \in 1 .. Len(line[k].matches)
    BY <1>2, <1>6, <2>2, WantedIs
  <2>5. \A v \in R!Wanted : v[1] = k /\ v[2] = m <=> v = <<k, m>>
    BY <1>2
  <2>6. this = {v \in R!Wanted : v[1] = k /\ v[2] = m}
    BY <1>6, <2>3, <2>5
  <2>7. ArgsBefore(k, m + 1) = ArgsBefore(k, m) \cup this
    BY <1>1, <1>2, <2>2, <2>6 DEF ArgsBefore
  <2>8. m = Len(line[k].matches) => ArgsBefore(k + 1, 0) = ArgsBefore(k, m) \cup this
    BY <1>1, <1>2, <2>2, <2>4, <2>6 DEF ArgsBefore
  <2> QED BY <2>6, <2>7, <2>8
<1>7. \A k \in DOMAIN line : \A m \in DOMAIN line[k].matches : R!Wild(line[k]) =>
        LET this == IF line[k].matches[m] \in {".", ".."} THEN {} ELSE {<<k, m>>}
        IN /\ this \subseteq R!Wanted
           /\ ArgsBefore(k, m + 1) = ArgsBefore(k, m) \cup this
           /\ m = Len(line[k].matches) => ArgsBefore(k + 1, 0) = ArgsBefore(k, m) \cup this
  <2> TAKE k \in DOMAIN line
  <2> TAKE m \in DOMAIN line[k].matches
  <2> HAVE R!Wild(line[k])
  <2> DEFINE this == IF line[k].matches[m] \in {".", ".."} THEN {} ELSE {<<k, m>>}
  <2> HIDE DEF this
  <2>1. this = IF line[k].matches[m] \in {".", ".."} THEN {} ELSE {<<k, m>>}
    BY DEF this
  <2>2. /\ this \subseteq R!Wanted
        /\ ArgsBefore(k, m + 1) = ArgsBefore(k, m) \cup this
        /\ m = Len(line[k].matches) => ArgsBefore(k + 1, 0) = ArgsBefore(k, m) \cup this
    BY <1>6, <2>1, Zenon
  <2> QED BY <2>2, Zenon DEF this
<1>8. \A k \in DOMAIN line :
        /\ ~R!Wild(line[k]) =>
             <<k, 0>> \in R!Wanted /\ ArgsBefore(k + 1, 0) = ArgsBefore(k, 0) \cup {<<k, 0>>}
        /\ R!Wild(line[k]) => ArgsBefore(k, 1) = ArgsBefore(k, 0)
  BY <1>4, <1>5, Zenon
<1> QED BY <1>3, <1>7, <1>8

LEMMA StartInit ==
  ASSUME R!Init, R!ArgumentAssumption
  PROVE  StartInv
<1>1. PICK n \in 0 .. MaxArguments : \E q \in [1 .. n -> Arguments] : line = <<R!Program>> \o q
  BY DEF R!Init
<1>2. PICK q \in [1 .. n -> Arguments] : line = <<R!Program>> \o q
  BY <1>1
<1>3. n \in Nat /\ Arguments \subseteq Argument
  BY <1>1 DEF R!ArgumentAssumption, Argument
<1>4. q \in Seq(Argument)
  BY <1>2, <1>3
<1>5. R!Program \in Argument
  BY DEF R!Program, Argument
<1>6. line \in Seq(Argument)
  BY <1>2, <1>4, <1>5
<1>7. StartTyped
  BY <1>6 DEF R!Init, R!At, StartTyped
<1>8. \A t \in StartTasks : startplace[t].at = "idle" /\ refs[t] = 0 /\ count = 0
  BY DEF R!Init, R!At
<1>9. \A t \in StartTasks : ~Started(t) /\ StartOf(t)
  BY <1>8 DEF Started, StartOf
<1> QED BY <1>7, <1>9 DEF StartInv, R!Init

\* What append_arg stores is the argument that is wanted, and it fits.
LEMMA ArgumentAppended ==
  ASSUME StartTyped, R!RateAssumption, Len(gnat_argv) <= size, NEW value \in Stored_Args,
         R!append_arg(value)
  PROVE  /\ gnat_argv' = Append(gnat_argv, value) /\ gnat_argv' \in Seq(Stored_Args)
         /\ size' \in Nat /\ Len(gnat_argv') <= size'
<1>1. EXPAND_ARGV_RATE \in Nat /\ EXPAND_ARGV_RATE > 0
  BY DEF R!RateAssumption
<1>2. size \in Nat /\ gnat_argv \in Seq(Stored_Args)
  BY DEF StartTyped
<1>3. gnat_argv' = Append(gnat_argv, value) /\ size' \in Nat /\ size' > Len(gnat_argv)
  BY <1>1, <1>2 DEF R!append_arg
<1> QED BY <1>2, <1>3

\* With one task the invariant is about it.
LEMMA OneStarts ==
  ASSUME NEW t \in StartTasks, \A u \in StartTasks : u = t
  PROVE  /\ StartInv => StartTyped /\ (ProcList = "live" <=> Started(t)) /\ StartOf(t)
         /\ StartTyped' /\ (ProcList' = "live" <=> Started(t)') /\ StartOf(t)' => StartInv'
<1>1. StartInv => StartTyped /\ (ProcList = "live" <=> Started(t)) /\ StartOf(t)
  BY DEF StartInv
<1>2. ASSUME StartTyped', ProcList' = "live" <=> Started(t)', StartOf(t)'  PROVE StartInv'
  <2>1. \A u \in StartTasks : StartOf(u)'
    BY <1>2
  <2>2. (\E u \in StartTasks : Started(u)') <=> Started(t)'
    OBVIOUS
  <2> QED BY <1>2, <2>1, <2>2 DEF StartInv
<1> QED BY <1>1, <1>2

\* The steps that store nothing.
LEMMA CountingStep ==
  ASSUME NEW t \in StartTasks, \A u \in StartTasks : u = t, StartInv,
         R!Initialize(t) \/ R!Increment(t) \/ R!AlreadyInitialized(t) \/ R!Finalize(t) \/ R!Decrement(t)
           \/ R!StillReferenced(t) \/ R!DeleteProcList(t) \/ R!GoOn(t)
  PROVE  StartInv'
<1>1. StartTyped /\ (ProcList = "live" <=> Started(t)) /\ StartOf(t)
  BY OneStarts
<1> USE <1>1
<1>2. UNCHANGED <<line, expansion, gnat_argv, size>>
  BY Zenon DEF R!Initialize, R!Increment, R!AlreadyInitialized, R!Finalize, R!Decrement,
    R!StillReferenced, R!DeleteProcList, R!GoOn, R!SameLine
<1>3. LineStored' <=> LineStored
  BY <1>2, SameWanted DEF LineStored
<1>4. StartTyped' /\ startplace'[t].at # "arguments"
  <2>1. count \in Nat /\ refs[t] = count /\ count + 1 \in Nat
    BY DEF StartTyped, StartOf
  <2>2. PICK w \in {"idle", "increment", "counted", "returned", "decrement", "uncounted"}, r \in Nat :
          startplace' = [startplace EXCEPT ![t] = [at |-> w, read |-> r, k |-> 1, m |-> 0]]
    BY <2>1 DEF R!Initialize, R!Increment, R!AlreadyInitialized, R!Finalize, R!Decrement,
      R!StillReferenced, R!DeleteProcList, R!GoOn, R!Set, R!At
  <2>3. refs' \in [StartTasks -> Nat] /\ ProcList' \in {"none", "live"}
    <3>1. PICK c \in Nat : refs' = [refs EXCEPT ![t] = c]
      <4>1. \/ refs' = [refs EXCEPT ![t] = refs[t] + 1]
            \/ refs' = [refs EXCEPT ![t] = refs[t] - 1] /\ startplace[t].at = "decrement"
            \/ refs' = refs
        BY DEF R!Initialize, R!Increment, R!AlreadyInitialized, R!Finalize, R!Decrement,
          R!StillReferenced, R!DeleteProcList, R!GoOn
      <4>2. startplace[t].at = "decrement" => refs[t] > 0
        BY DEF StartOf
      <4>3. refs = [refs EXCEPT ![t] = refs[t]]
        BY DEF StartTyped
      <4> QED BY <2>1, <4>1, <4>2, <4>3
    <3>2. ProcList' \in {ProcList, "none"}
      BY DEF R!Initialize, R!Increment, R!AlreadyInitialized, R!Finalize, R!Decrement,
        R!StillReferenced, R!DeleteProcList, R!GoOn
    <3> QED BY <3>1, <3>2 DEF StartTyped
  <2>4. startplace'[t] = [at |-> w, read |-> r, k |-> 1, m |-> 0]
    BY <2>2 DEF StartTyped
  <2> QED BY <1>2, <2>2, <2>3, <2>4 DEF StartTyped
<1>5. ProcList' = "live" <=> Started(t)'
  BY DEF StartTyped, StartOf, Started, R!Initialize, R!Increment, R!AlreadyInitialized, R!Finalize,
    R!Decrement, R!StillReferenced, R!DeleteProcList, R!GoOn, R!SameLine, R!Set, R!At
<1>6. Started(t)' => Started(t) /\ startplace[t].at # "arguments"
  BY DEF StartTyped, StartOf, Started, R!Initialize, R!Increment, R!AlreadyInitialized, R!Finalize,
    R!Decrement, R!StillReferenced, R!DeleteProcList, R!GoOn, R!SameLine, R!Set, R!At
<1>7. /\ count' = refs'[t]
      /\ startplace'[t].at \in {"increment", "decrement"} => startplace'[t].read = count'
      /\ startplace'[t].at \in {"counted", "arguments", "returned", "decrement"} => refs'[t] > 0
  BY DEF StartTyped, StartOf, R!Initialize, R!Increment, R!AlreadyInitialized, R!Finalize,
    R!Decrement, R!StillReferenced, R!DeleteProcList, R!GoOn, R!SameLine, R!Set, R!At
<1>8. StartOf(t)'
  BY <1>2, <1>3, <1>4, <1>6, <1>7 DEF StartOf
<1> QED BY <1>4, <1>5, <1>8, OneStarts

\* The table is made, and cut.
LEMMA TableStep ==
  ASSUME NEW t \in StartTasks, \A u \in StartTasks : u = t, StartInv,
         R!InitializeProcList(t) \/ R!EndInitialize(t)
  PROVE  StartInv'
<1>1. StartTyped /\ (ProcList = "live" <=> Started(t)) /\ StartOf(t)
  BY OneStarts
<1> USE <1>1
<1>2. CASE R!InitializeProcList(t)
  <2>1. /\ startplace' = [startplace EXCEPT ![t] = [at |-> "arguments", read |-> 0, k |-> 1, m |-> 0]]
        /\ gnat_argv' = <<>> /\ size' = Len(line) + 1 /\ UNCHANGED <<line, expansion, refs, count>>
        /\ ProcList' = "live" /\ startplace[t].at = "counted"
    BY <1>2 DEF R!InitializeProcList, R!SameLine, R!Set, R!At
  <2>2. startplace'[t] = [at |-> "arguments", read |-> 0, k |-> 1, m |-> 0]
    BY <2>1 DEF StartTyped
  <2>3. StartTyped'
    BY <2>1 DEF StartTyped
  <2>4. Stores(<<>>, {})
    BY FS_EmptySet DEF Stores
  <2>5. PassedStored(t)'
    <3>1. Stores(gnat_argv', ArgsBefore(startplace'[t].k, startplace'[t].m))
      <4>1. ArgsBefore(1, 0) = {}
        BY NextBefore
      <4>2. startplace'[t].k = 1 /\ startplace'[t].m = 0
        BY <2>2
      <4> QED BY <2>1, <2>4, <4>1, <4>2
    <3>2. UNCHANGED <<line, expansion>>
      BY <2>1
    <3> QED BY <3>1, <3>2, SameWanted
  <2>6. Started(t)'
    BY <2>2 DEF Started
  <2>7. Len(line') \in Nat /\ Len(gnat_argv') = 0
    BY <2>1 DEF StartTyped
  <2>8. StartOf(t)'
    BY <2>1, <2>2, <2>5, <2>7 DEF StartOf, StartTyped
  <2> QED BY <2>1, <2>3, <2>6, <2>8, OneStarts
<1>3. CASE R!EndInitialize(t)
  <2>1. /\ startplace' = [startplace EXCEPT ![t] = [at |-> "returned", read |-> 0, k |-> 1, m |-> 0]]
        /\ size' = Len(gnat_argv) /\ UNCHANGED <<line, expansion, refs, count, ProcList, gnat_argv>>
        /\ startplace[t].at = "arguments" /\ startplace[t].k > Len(line)
    BY <1>3 DEF R!EndInitialize, R!SameLine, R!Set, R!At
  <2>2. startplace'[t] = [at |-> "returned", read |-> 0, k |-> 1, m |-> 0]
    BY <2>1 DEF StartTyped
  <2>3. StartTyped'
    BY <2>1 DEF StartTyped
  <2>4. startplace[t].k = Len(line) + 1 /\ startplace[t].m = 0 /\ PassedStored(t)
    BY <2>1 DEF StartTyped, StartOf
  <2>5. QuotesClosed => Stores(gnat_argv, R!Wanted)
    BY <2>4, NextBefore DEF PassedStored
  <2>6. LineStored'
    BY <2>1, <2>5, SameWanted
  <2>7. Started(t) /\ Started(t)'
    BY <2>1, <2>2 DEF Started, StartOf
  <2>8. StartOf(t)'
    BY <2>1, <2>2, <2>6 DEF StartOf
  <2> QED BY <2>1, <2>3, <2>7, <2>8, OneStarts
<1> QED BY <1>2, <1>3

\* The one task is at another place of the command line.
LEMMA OnePlace ==
  ASSUME NEW t \in StartTasks, \A u \in StartTasks : u = t, StartTyped,
         NEW r \in [at : {"arguments"}, read : Nat, k : Nat, m : Nat],
         startplace' = [startplace EXCEPT ![t] = r]
  PROVE  /\ startplace'[t] = r
         /\ startplace' \in [StartTasks -> [at : {"arguments"}, read : Nat, k : Nat, m : Nat]]
BY DEF StartTyped

\* The steps along the command line.
LEMMA StoringStep ==
  ASSUME NEW t \in StartTasks, \A u \in StartTasks : u = t, StartInv, R!RateAssumption,
         R!StoreArgument(t) \/ R!FindFirst(t) \/ R!StoreMatch(t)
  PROVE  StartInv'
<1> DEFINE p == startplace[t]
           q == startplace'[t]
<1>1. StartTyped /\ (ProcList = "live" <=> Started(t)) /\ StartOf(t)
  BY OneStarts
<1> USE <1>1
<1>2. /\ p.at = "arguments" /\ p.k \in DOMAIN line /\ p.m \in Nat /\ Len(gnat_argv) <= size
      /\ p.m # 0 => R!Wild(line[p.k]) /\ p.m \in DOMAIN line[p.k].matches
      /\ PassedStored(t)
      /\ UNCHANGED <<line, expansion, refs, count, ProcList>>
  BY DEF StartTyped, StartOf, R!StoreArgument, R!FindFirst, R!StoreMatch, R!SameLine
<1>3. line[p.k] \in Argument
  BY <1>2 DEF StartTyped
<1>4. line[p.k].matches \in Seq(STRING) /\ line[p.k].len \in Nat
  BY <1>3 DEF Argument
<1>0. /\ p.k \in Nat /\ DOMAIN line = 1 .. Len(line) /\ Len(line) \in Nat
      /\ p \in [at : {"arguments"}, read : Nat, k : Nat, m : Nat]
      /\ gnat_argv \in Seq(Stored_Args) /\ size \in Nat
  BY <1>2 DEF StartTyped
<1>5. SUFFICES
        /\ startplace' \in [StartTasks -> [at : {"arguments"}, read : Nat, k : Nat, m : Nat]]
        /\ gnat_argv' \in Seq(Stored_Args) /\ size' \in Nat /\ Len(gnat_argv') <= size'
        /\ q.k \in 1 .. Len(line) + 1
        /\ q.m # 0 => q.k <= Len(line) /\ R!Wild(line[q.k]) /\ q.m \in DOMAIN line[q.k].matches
        /\ QuotesClosed => Stores(gnat_argv', ArgsBefore(q.k, q.m))
  <2>1. q.at = "arguments" /\ StartTyped'
    BY <1>2, <1>5 DEF StartTyped
  <2>2. PassedStored(t)'
    BY <1>2, <1>5, SameWanted
  <2>3. startplace'[t].m # 0 => R!Wild(line[startplace[t].k])'
    BY <1>2, <1>5 DEF R!Wild
  <2>4. StartOf(t)'
    BY <1>2, <1>5, <2>1, <2>2, <2>3 DEF StartOf
  <2>5. Started(t) /\ Started(t)'
    BY <1>2, <2>1 DEF Started
  <2> QED BY <1>2, <2>1, <2>4, <2>5, OneStarts
<1>6. CASE R!StoreArgument(t)
  <2> DEFINE value == R!Kept(p.k, line[p.k].quoted /\ expansion)
  <2>1. /\ p.m = 0 /\ ~R!Wild(line[p.k]) /\ R!append_arg(value)
        /\ startplace' = [startplace EXCEPT ![t] = [p EXCEPT !.k = @ + 1]]
    BY <1>6 DEF R!StoreArgument, R!Set
  <2>2. value \in Stored_Args
    <3>1. line[p.k].len - 1 \in Int /\ line[p.k].len \in Int /\ p.k \in Nat
      BY <1>0, <1>4
    <3> HIDE DEF p
    <3>2. /\ <<"part", p.k, 2, line[p.k].len - 1>> \in Stored_Args
          /\ <<"part", p.k, 1, line[p.k].len>> \in Stored_Args
      BY <3>1 DEF Stored_Args, Parts_Args
    <3> QED BY <3>2 DEF R!Kept
  <2>3. QuotesClosed => value = R!Meaning(p.k, 0)
    BY <1>2 DEF QuotesClosed, R!Kept, R!Meaning
  <2>4. /\ gnat_argv' = Append(gnat_argv, value) /\ gnat_argv' \in Seq(Stored_Args)
        /\ size' \in Nat /\ Len(gnat_argv') <= size'
    <3> HIDE DEF value
    <3> QED BY <1>2, <2>1, <2>2, ArgumentAppended
  <2>5. q = [p EXCEPT !.k = @ + 1] /\ q.k = p.k + 1 /\ q.m = 0
    BY <2>1 DEF StartTyped
  <2>6. <<p.k, 0>> \in R!Wanted /\ ArgsBefore(q.k, 0) = ArgsBefore(p.k, 0) \cup {<<p.k, 0>>}
    BY <1>2, <2>1, <2>5, NextBefore
  <2>7. QuotesClosed => Stores(gnat_argv', ArgsBefore(q.k, 0))
    <3> SUFFICES ASSUME QuotesClosed  PROVE Stores(gnat_argv', ArgsBefore(q.k, 0))
      OBVIOUS
    <3>1. gnat_argv \in Seq(Stored_Args) /\ Stores(gnat_argv, ArgsBefore(p.k, 0))
      BY <1>2, <2>1 DEF StartTyped, PassedStored
    <3> HIDE DEF value, q, p
    <3>2. Stores(Append(gnat_argv, value), ArgsBefore(p.k, 0) \cup {<<p.k, 0>>})
      BY <1>2, <2>3, <2>6, <3>1, OneStored
    <3> QED BY <2>4, <2>6, <3>2
  <2>8. /\ startplace' \in [StartTasks -> [at : {"arguments"}, read : Nat, k : Nat, m : Nat]]
        /\ q.k \in 1 .. Len(line) + 1
    BY <1>2, <2>1, <2>5 DEF StartTyped
  <2> QED BY <2>4, <2>5, <2>7, <2>8
<1>7. CASE R!FindFirst(t)
  <2>1. /\ p.m = 0 /\ R!Wild(line[p.k]) /\ UNCHANGED <<gnat_argv, size>>
        /\ startplace' = [startplace EXCEPT ![t] = [p EXCEPT !.m = 1]]
    BY <1>7 DEF R!FindFirst, R!Set
  <2>2. q.k = p.k /\ q.m = 1
    BY <2>1 DEF StartTyped
  <2>3. 1 \in DOMAIN line[p.k].matches
    BY <1>4, <2>1 DEF R!Wild
  <2>4. ArgsBefore(q.k, q.m) = ArgsBefore(p.k, p.m)
    BY <1>2, <2>1, <2>2, NextBefore
  <2>5. QuotesClosed => Stores(gnat_argv', ArgsBefore(q.k, q.m))
    BY <1>2, <2>1, <2>4 DEF PassedStored
  <2>6. /\ startplace' \in [StartTasks -> [at : {"arguments"}, read : Nat, k : Nat, m : Nat]]
        /\ q.k \in 1 .. Len(line)
    BY <1>2, <2>1, <2>2 DEF StartTyped
  <2> QED BY <1>2, <2>1, <2>2, <2>3, <2>5, <2>6 DEF StartTyped
<1>8. CASE R!StoreMatch(t)
  <2> DEFINE a == line[p.k]
             value == R!Matching(p.k, p.m)
             this == IF a.matches[p.m] \in {".", ".."} THEN {} ELSE {<<p.k, p.m>>}
  <2>1. /\ p.m # 0 /\ R!Wild(a) /\ p.m \in DOMAIN a.matches
        /\ IF a.matches[p.m] \in {".", ".."} THEN UNCHANGED <<gnat_argv, size>> ELSE R!append_arg(value)
        /\ startplace' = [startplace EXCEPT ![t] =
                            IF p.m < Len(a.matches) THEN [p EXCEPT !.m = p.m + 1]
                            ELSE [at |-> "arguments", read |-> 0, k |-> p.k + 1, m |-> 0]]
    <3>1. /\ p.m # 0
          /\ IF a.matches[p.m] \in {".", ".."} THEN UNCHANGED <<gnat_argv, size>> ELSE R!append_arg(value)
          /\ startplace' = [startplace EXCEPT ![t] =
                              IF p.m < Len(a.matches) THEN [p EXCEPT !.m = p.m + 1]
                              ELSE [R!At("arguments") EXCEPT !.k = p.k + 1]]
      BY <1>8, Zenon DEF R!StoreMatch, R!Set
    <3>2. [R!At("arguments") EXCEPT !.k = p.k + 1] = [at |-> "arguments", read |-> 0, k |-> p.k + 1, m |-> 0]
      BY DEF R!At
    <3> QED BY <1>2, <3>1, <3>2
  <2>2. p.m \in 1 .. Len(a.matches) /\ Len(a.matches) \in Nat /\ a.matches[p.m] \in STRING
    BY <1>4, <2>1
  <2>3. /\ p.m < Len(a.matches) => q.k = p.k /\ q.m = p.m + 1
        /\ p.m = Len(a.matches) => q.k = p.k + 1 /\ q.m = 0
        /\ startplace' \in [StartTasks -> [at : {"arguments"}, read : Nat, k : Nat, m : Nat]]
    <3> HIDE DEF p, a
    <3>1. CASE p.m < Len(a.matches)
      <4> DEFINE r == [p EXCEPT !.m = p.m + 1]
      <4>1. startplace' = [startplace EXCEPT ![t] = r]
        BY <2>1, <3>1
      <4>2. /\ r \in [at : {"arguments"}, read : Nat, k : Nat, m : Nat]
            /\ r.k = p.k /\ r.m = p.m + 1
        BY <1>0
      <4> HIDE DEF r
      <4>3. q = r /\ startplace' \in [StartTasks -> [at : {"arguments"}, read : Nat, k : Nat, m : Nat]]
        BY <4>1, <4>2, OnePlace
      <4> HIDE DEF q
      <4> QED BY <2>2, <3>1, <4>2, <4>3
    <3>2. CASE p.m = Len(a.matches)
      <4> DEFINE r == [at |-> "arguments", read |-> 0, k |-> p.k + 1, m |-> 0]
      <4>0. ~(p.m < Len(a.matches))
        BY <2>2, <3>2
      <4>1. startplace' = [startplace EXCEPT ![t] = r]
        BY <2>1, <4>0
      <4>2. /\ r \in [at : {"arguments"}, read : Nat, k : Nat, m : Nat]
            /\ r.k = p.k + 1 /\ r.m = 0
        BY <1>0
      <4> HIDE DEF r
      <4>3. q = r /\ startplace' \in [StartTasks -> [at : {"arguments"}, read : Nat, k : Nat, m : Nat]]
        BY <4>1, <4>2, OnePlace
      <4> HIDE DEF q
      <4> QED BY <2>2, <3>2, <4>2, <4>3
    <3> QED BY <2>2, <3>1, <3>2
  <2>10. /\ q.k \in 1 .. Len(line) + 1
         /\ q.m # 0 => q.k <= Len(line) /\ R!Wild(line[q.k]) /\ q.m \in DOMAIN line[q.k].matches
    <3>1. CASE p.m < Len(a.matches)
      <4>1. q.k = p.k /\ q.m = p.m + 1 /\ q.m \in DOMAIN a.matches
        BY <1>4, <2>2, <2>3, <3>1
      <4> QED BY <1>0, <1>2, <2>1, <4>1
    <3>2. CASE p.m = Len(a.matches)
      BY <1>0, <1>2, <2>3, <3>2
    <3> QED BY <2>2, <3>1, <3>2
  <2>4. value \in Stored_Args /\ value = R!Meaning(p.k, p.m)
    <3>1. /\ <<"under", p.k, a.matches[p.m]>> \in Stored_Args
          /\ <<"name", p.k, a.matches[p.m]>> \in Stored_Args
      <4>3. p.k \in Nat /\ a.matches[p.m] \in STRING
        BY <1>0, <2>2
      <4> HIDE DEF p, a
      <4>4. /\ <<"under", p.k, a.matches[p.m]>> \in Names_Args
            /\ <<"name", p.k, a.matches[p.m]>> \in Names_Args
        BY <4>3 DEF Names_Args
      <4> QED BY <4>4 DEF Stored_Args
    <3>2. value \in Stored_Args
      BY <3>1 DEF R!Matching
    <3> QED BY <2>1, <3>2 DEF R!Matching, R!Meaning
  <2>5. this \subseteq R!Wanted /\ ArgsBefore(q.k, q.m) = ArgsBefore(p.k, p.m) \cup this
    <3>1. /\ this \subseteq R!Wanted
          /\ ArgsBefore(p.k, p.m + 1) = ArgsBefore(p.k, p.m) \cup this
          /\ p.m = Len(a.matches) => ArgsBefore(p.k + 1, 0) = ArgsBefore(p.k, p.m) \cup this
      BY <1>2, <2>1, NextBefore
    <3>2. CASE p.m < Len(a.matches)
      <4>1. q.k = p.k /\ q.m = p.m + 1
        BY <2>3, <3>2
      <4> HIDE DEF p, q, a, this
      <4> QED BY <3>1, <4>1
    <3>3. CASE p.m = Len(a.matches)
      <4>1. q.k = p.k + 1 /\ q.m = 0
        BY <2>3, <3>3
      <4> HIDE DEF p, q, a, this
      <4> QED BY <3>1, <3>3, <4>1
    <3>4. p.m < Len(a.matches) \/ p.m = Len(a.matches)
      BY <2>2
    <3> HIDE DEF p, q, a, this
    <3> QED BY <3>2, <3>3, <3>4
  <2>6. QuotesClosed => Stores(gnat_argv, ArgsBefore(p.k, p.m))
    BY <1>2 DEF PassedStored
  <2>7. gnat_argv \in Seq(Stored_Args) /\ size \in Nat
    BY DEF StartTyped
  <2>8. CASE a.matches[p.m] \in {".", ".."}
    <3>1. ArgsBefore(q.k, q.m) = ArgsBefore(p.k, p.m) /\ UNCHANGED <<gnat_argv, size>>
      BY <2>1, <2>5, <2>8
    <3>2. QuotesClosed => Stores(gnat_argv', ArgsBefore(q.k, q.m))
      BY <2>6, <3>1
    <3> QED BY <1>2, <2>3, <2>7, <2>10, <3>1, <3>2
  <2>9. CASE a.matches[p.m] \notin {".", ".."}
    <3>1. this = {<<p.k, p.m>>} /\ R!append_arg(value)
      BY <2>1, <2>9
    <3>2. /\ gnat_argv' = Append(gnat_argv, value) /\ gnat_argv' \in Seq(Stored_Args)
          /\ size' \in Nat /\ Len(gnat_argv') <= size'
      <4> HIDE DEF value
      <4> QED BY <1>2, <2>4, <3>1, ArgumentAppended
    <3>3. QuotesClosed => Stores(gnat_argv', ArgsBefore(q.k, q.m))
      <4> SUFFICES ASSUME QuotesClosed  PROVE Stores(gnat_argv', ArgsBefore(q.k, q.m))
        OBVIOUS
      <4> HIDE DEF value, this, q, p
      <4>1. Stores(Append(gnat_argv, value), ArgsBefore(p.k, p.m) \cup {<<p.k, p.m>>})
        BY <1>2, <2>4, <2>5, <2>6, <2>7, <3>1, OneStored
      <4> QED BY <2>5, <3>1, <3>2, <4>1
    <3> QED BY <2>3, <2>10, <3>2, <3>3
  <2> QED BY <2>8, <2>9
<1> QED BY <1>6, <1>7, <1>8

LEMMA StartStep ==
  ASSUME StartInv, [R!Next]_(R!vars), \A t, u \in StartTasks : t = u, R!RateAssumption
  PROVE  StartInv'
<1>1. CASE R!Next
  <2>1. PICK t \in StartTasks :
          \/ R!Initialize(t) \/ R!Increment(t) \/ R!AlreadyInitialized(t) \/ R!InitializeProcList(t)
          \/ R!StoreArgument(t) \/ R!FindFirst(t) \/ R!StoreMatch(t) \/ R!EndInitialize(t)
          \/ R!Finalize(t) \/ R!Decrement(t) \/ R!StillReferenced(t) \/ R!DeleteProcList(t) \/ R!GoOn(t)
    BY <1>1, Zenon DEF R!Next
  <2>2. \A u \in StartTasks : u = t
    OBVIOUS
  <2> QED BY <2>1, <2>2, CountingStep, TableStep, StoringStep
<1>2. CASE UNCHANGED R!vars
  <2>1. UNCHANGED <<line, expansion, count, ProcList, gnat_argv, size, startplace, refs>>
    BY <1>2 DEF R!vars
  <2>2. (LineStored' <=> LineStored) /\ \A t : PassedStored(t)' <=> PassedStored(t)
    BY <2>1, SameWanted DEF LineStored, PassedStored
  <2>3. StartTyped' /\ \A t : Started(t)' <=> Started(t)
    BY <2>1 DEF StartInv, StartTyped, Started
  <2>4. \A t \in StartTasks : StartOf(t)'
    BY <2>1, <2>2, <2>3, SameWanted DEF StartInv, StartOf
  <2> QED BY <2>1, <2>3, <2>4 DEF StartInv
<1> QED BY <1>1, <1>2

\* The invariant as it is read off it.
LEMMA CardinalityIsTheSame == \A S : R!Cardinality(S) = Cardinality(S)
BY DEF R!Cardinality, Cardinality, R!IsFiniteSet, IsFiniteSet

LEMMA ArgumentsShown ==
  ASSUME StartInv
  PROVE  R!ArgumentsExpanded
<1> SUFFICES ASSUME NEW t \in StartTasks, startplace[t].at = "returned", QuotesClosed
             PROVE  R!Expanded /\ size = Len(gnat_argv)
  BY DEF R!ArgumentsExpanded, QuotesClosed
<1>1. refs[t] > 0 /\ StartOf(t)
  BY DEF StartInv, StartOf
<1>2. Started(t)
  BY <1>1 DEF Started
<1>3. size = Len(gnat_argv) /\ Stores(gnat_argv, R!Wanted)
  BY <1>1, <1>2 DEF StartOf, LineStored
<1>4. R!Expanded
  BY <1>3, CardinalityIsTheSame DEF R!Expanded, Stores
<1> QED BY <1>3, <1>4

LEMMA LiveShown ==
  ASSUME StartInv
  PROVE  R!LiveWhileReferenced
BY DEF StartInv, StartTyped, Started, R!LiveWhileReferenced

(***************************************************************************)
(* With one task, when __gnat_runtime_initialize returns the table has the *)
(* arguments that the command line stands for, in order and all of them:   *)
(* ArgumentsExpanded, for any command line and rate of growth.             *)
(***************************************************************************)
THEOREM ArgumentsExpandedHolds ==
  ASSUME \A t, u \in StartTasks : t = u, R!RateAssumption, R!ArgumentAssumption
  PROVE  R!Spec => []R!ArgumentsExpanded
<1>1. R!Init => StartInv
  BY StartInit
<1>2. StartInv /\ [R!Next]_(R!vars) => StartInv'
  BY StartStep
<1>3. StartInv => R!ArgumentsExpanded
  BY ArgumentsShown
<1> QED BY <1>1, <1>2, <1>3, PTL DEF R!Spec

(***************************************************************************)
(* With one task the list of processes' critical section and event are     *)
(* live exactly from the first request to the last finalization:           *)
(* LiveWhileReferenced.                                                    *)
(***************************************************************************)
THEOREM LiveWhileReferencedHolds ==
  ASSUME StartTasks # {}, \A t, u \in StartTasks : t = u, R!RateAssumption, R!ArgumentAssumption
  PROVE  R!Spec => []R!LiveWhileReferenced
<1>1. R!Init => StartInv
  BY StartInit
<1>2. StartInv /\ [R!Next]_(R!vars) => StartInv'
  BY StartStep
<1>3. StartInv => R!LiveWhileReferenced
  BY LiveShown
<1> QED BY <1>1, <1>2, <1>3, PTL DEF R!Spec

-----------------------------------------------------------------------------
(***************************************************************************)
(* The search along a path.                                                *)
(***************************************************************************)
Text == Seq(Characters)

\* Part of a text.
LEMMA PartOfText ==
  ASSUME NEW s \in Text, NEW m \in Int, NEW n \in Int, 1 <= m, n <= Len(s)
  PROVE  /\ SubSeq(s, m, n) \in Text
         /\ m <= n + 1 => Len(SubSeq(s, m, n)) = n - m + 1
         /\ n < m => Len(SubSeq(s, m, n)) = 0
         /\ \A i \in 1 .. n - m + 1 : \A j \in Int : j = m + i - 1 => SubSeq(s, m, n)[i] = s[j]
<1>1. \A i \in m .. n : s[i] \in Characters
  BY DEF Text
<1>2. /\ SubSeq(s, m, n) \in Text
      /\ Len(SubSeq(s, m, n)) = IF m <= n THEN n - m + 1 ELSE 0
      /\ \A i \in 1 .. n - m + 1 : SubSeq(s, m, n)[i] = s[m + i - 1]
  BY <1>1, SubSeqProperties DEF Text
<1> QED BY <1>2

LEMMA FirstPart ==
  ASSUME NEW s \in Text, NEW n \in 0 .. Len(s)
  PROVE  SubSeq(s, 1, n) \in Text /\ Len(SubSeq(s, 1, n)) = n /\ \A i \in 1 .. n : SubSeq(s, 1, n)[i] = s[i]
<1>1. Len(s) \in Nat /\ n \in Int /\ n <= Len(s)
  BY DEF Text
<1>2. PICK m \in Int : m = 1
  OBVIOUS
<1>3. /\ SubSeq(s, m, n) \in Text
      /\ m <= n + 1 => Len(SubSeq(s, m, n)) = n - m + 1
      /\ \A i \in 1 .. n - m + 1 : \A j \in Int : j = m + i - 1 => SubSeq(s, m, n)[i] = s[j]
  BY <1>1, <1>2, PartOfText
<1> QED BY <1>1, <1>2, <1>3

LEMMA SameText ==
  ASSUME NEW s \in Text, NEW t \in Text, Len(s) = Len(t), \A i \in 1 .. Len(s) : s[i] = t[i]
  PROVE  s = t
BY SeqEqual DEF Text

LEMMA WholeText ==
  ASSUME NEW s \in Text
  PROVE  SubSeq(s, 1, Len(s)) = s
<1>1. Len(s) \in Nat /\ Len(s) \in 0 .. Len(s)
  BY DEF Text
<1> QED BY <1>1, FirstPart, SameText

\* Two parts are the same when they are so character by character.
LEMMA SameParts ==
  ASSUME NEW s \in Text, NEW t \in Text, NEW m \in Nat, NEW n \in Nat, 1 <= m, 1 <= n,
         m <= Len(s) + 1, Len(s) - m = Len(t) - n,
         \A i \in m .. Len(s) : \A j \in n .. Len(t) : i - m = j - n => s[i] = t[j]
  PROVE  SubSeq(s, m, Len(s)) = SubSeq(t, n, Len(t))
<1> DEFINE a == SubSeq(s, m, Len(s))
           b == SubSeq(t, n, Len(t))
<1>1. Len(s) \in Nat /\ Len(t) \in Nat
  BY DEF Text
<1>2. /\ a \in Text /\ Len(a) = Len(s) - m + 1
      /\ \A i \in 1 .. Len(s) - m + 1 : \A j \in Int : j = m + i - 1 => a[i] = s[j]
  BY <1>1, PartOfText
<1>3. /\ b \in Text /\ Len(b) = Len(t) - n + 1
      /\ \A i \in 1 .. Len(t) - n + 1 : \A j \in Int : j = n + i - 1 => b[i] = t[j]
  BY <1>1, PartOfText
<1> HIDE DEF a, b
<1>4. Len(a) = Len(b)
  BY <1>1, <1>2, <1>3
<1>5. ASSUME NEW i \in 1 .. Len(a)  PROVE a[i] = b[i]
  <2>1. PICK j \in Int : j = m + i - 1
    BY <1>1
  <2>2. PICK k \in Int : k = n + i - 1
    BY <1>1
  <2>3. j \in m .. Len(s) /\ k \in n .. Len(t) /\ j - m = k - n
    BY <1>1, <1>2, <1>3, <1>4, <2>1, <2>2
  <2>4. a[i] = s[j] /\ b[i] = t[k]
    BY <1>1, <1>2, <1>3, <1>4, <2>1, <2>2
  <2> QED BY <2>3, <2>4
<1>6. a = b
  BY <1>2, <1>3, <1>4, <1>5, SameText
<1> QED BY <1>6 DEF a, b

\* The first entry of a text is up to its first separator.
EndsEntry(val, n) ==
  /\ n = Len(val) \/ val[n + 1] = P!PATH_SEPARATOR
  /\ \A k \in 1 .. n : val[k] # P!PATH_SEPARATOR

LEMMA EntryLengthIs ==
  ASSUME NEW val \in Text
  PROVE  /\ P!EntryLength(val) \in 0 .. Len(val)
         /\ EndsEntry(val, P!EntryLength(val))
         /\ \A n \in 0 .. Len(val) : EndsEntry(val, n) => n = P!EntryLength(val)
<1> DEFINE ends == {n \in 0 .. Len(val) : n = Len(val) \/ val[n + 1] = P!PATH_SEPARATOR}
<1>1. Len(val) \in Nat /\ ends \subseteq Nat /\ Len(val) \in ends
  BY DEF Text
<1>2. PICK n \in ends : \A k \in ends : n <= k
  <2> HIDE DEF ends
  <2> QED BY <1>1, LeastOf
<1>3. n \in 0 .. Len(val) /\ EndsEntry(val, n)
  <2>1. n \in 0 .. Len(val) /\ (n = Len(val) \/ val[n + 1] = P!PATH_SEPARATOR)
    OBVIOUS
  <2>2. ASSUME NEW k \in 1 .. n  PROVE val[k] # P!PATH_SEPARATOR
    <3>1. PICK j \in 0 .. Len(val) : k = j + 1 /\ j < n
      BY <1>1, <2>1
    <3>2. j \notin ends
      BY <1>1, <1>2, <2>1, <3>1
    <3> QED BY <3>1, <3>2
  <2> QED BY <1>2, <2>2 DEF EndsEntry
<1>4. P!EntryLength(val) \in 0 .. Len(val) /\ EndsEntry(val, P!EntryLength(val))
  BY <1>3 DEF P!EntryLength, EndsEntry
<1>5. ASSUME NEW m \in 0 .. Len(val), EndsEntry(val, m), NEW k \in 0 .. Len(val), EndsEntry(val, k)
      PROVE  ~(m < k)
  BY <1>1, <1>5 DEF EndsEntry
<1> QED BY <1>1, <1>4, <1>5

\* The next entry begins behind the separator.
LEMMA NextStart ==
  ASSUME NEW val \in Text, NEW s \in 1 .. Len(val) + 1, NEW left \in Text, Len(left) = Len(val) - s + 1,
         \A i \in 1 .. Len(left) : \A j \in Int : j = s + i - 1 => left[i] = val[j],
         NEW n \in 0 .. Len(left), EndsEntry(left, n)
  PROVE  /\ n = Len(left) => \A r \in P!Starts(val) : r <= s
         /\ n # Len(left) => /\ s + n + 1 \in P!Starts(val)
                             /\ \A r \in P!Starts(val) : s < r => s + n + 1 <= r
                             /\ SubSeq(left, n + 2, Len(left)) = SubSeq(val, s + n + 1, Len(val))
<1>1. Len(val) \in Nat /\ s \in 1 .. Len(val) + 1 /\ Len(left) \in Nat
  BY DEF Text
<1>2. /\ Len(left) = Len(val) - s + 1
      /\ \A i \in 1 .. Len(left) : \A j \in Int : j = s + i - 1 => left[i] = val[j]
  OBVIOUS
<1>3. n \in 0 .. Len(left) /\ EndsEntry(left, n)
  OBVIOUS
<1>4. ASSUME NEW r \in P!Starts(val), s < r  PROVE s + n + 1 <= r
  <2>1. r - 1 \in 1 .. Len(val) /\ val[r - 1] = P!PATH_SEPARATOR
    BY <1>1, <1>4 DEF P!Starts
  <2>0. r \in Int
    BY <1>1, <1>4 DEF P!Starts
  <2>a. PICK i \in 1 .. Len(left) : i = r - s
    BY <1>1, <1>2, <1>4, <2>0, <2>1
  <2>b. PICK j \in 1 .. Len(val) : j = r - 1
    BY <1>1, <2>0, <2>1
  <2>2. i = r - s /\ j = r - 1 /\ j = s + i - 1
    BY <1>1, <2>0, <2>a, <2>b
  <2>3. left[i] = P!PATH_SEPARATOR
    <3>1. left[i] = val[j]
      BY <1>2, <2>2
    <3> QED BY <2>1, <2>2, <3>1
  <2>4. ~(i \in 1 .. n)
    BY <1>3, <2>3 DEF EndsEntry
  <2>5. r \in Int
    BY <1>1, <1>4 DEF P!Starts
  <2> QED BY <1>1, <1>2, <1>3, <2>2, <2>4, <2>5
<1>5. ASSUME n = Len(left), NEW r \in P!Starts(val)  PROVE r <= s
  <2>1. r \in 1 .. Len(val) + 1
    BY <1>1 DEF P!Starts
  <2> QED BY <1>1, <1>2, <1>4, <1>5, <2>1
<1>6. ASSUME n # Len(left)
      PROVE  /\ s + n + 1 \in P!Starts(val)
             /\ SubSeq(left, n + 2, Len(left)) = SubSeq(val, s + n + 1, Len(val))
  <2>1. n \in Nat /\ n + 1 \in 1 .. Len(left) /\ left[n + 1] = P!PATH_SEPARATOR
    BY <1>1, <1>2, <1>3, <1>6 DEF EndsEntry
  <2>2. PICK j \in 1 .. Len(val) : j = s + n
    BY <1>1, <1>2, <2>1
  <2>3. val[j] = P!PATH_SEPARATOR
    BY <1>1, <1>2, <2>1, <2>2
  <2>4. j + 1 \in P!Starts(val) /\ j + 1 = s + n + 1
    BY <1>1, <2>1, <2>2, <2>3 DEF P!Starts
  <2>5. ASSUME NEW x \in n + 2 .. Len(left), NEW y \in s + n + 1 .. Len(val), x - (n + 2) = y - (s + n + 1)
        PROVE  left[x] = val[y]
    <3>1. x \in 1 .. Len(left) /\ y \in Int /\ y = s + x - 1
      BY <1>1, <1>2, <2>1, <2>5
    <3> QED BY <1>2, <3>1
  <2>6. SubSeq(left, n + 2, Len(left)) = SubSeq(val, s + n + 1, Len(val))
    <3>1. PICK p \in Nat, q \in Nat : p = n + 2 /\ q = s + n + 1
      BY <1>1, <2>1
    <3>2. 1 <= p /\ 1 <= q /\ p <= Len(left) + 1 /\ Len(left) - p = Len(val) - q
      BY <1>1, <1>2, <2>1, <3>1
    <3>3. \A x \in p .. Len(left) : \A y \in q .. Len(val) : x - p = y - q => left[x] = val[y]
      BY <2>5, <3>1
    <3>4. SubSeq(left, p, Len(left)) = SubSeq(val, q, Len(val))
      BY <1>2, <3>2, <3>3, SameParts
    <3> QED BY <3>1, <3>4
  <2> QED BY <2>4, <2>6
<1> QED BY <1>4, <1>5, <1>6

NextIs(val, s, left, n) ==
  /\ s \in 1 .. Len(val) + 1 /\ left \in Text /\ Len(left) = Len(val) - s + 1 /\ n \in 0 .. Len(left)
  /\ n = Len(left) => \A r \in P!Starts(val) : r <= s
  /\ n # Len(left) => /\ s + n + 1 \in P!Starts(val)
                      /\ \A r \in P!Starts(val) : s < r => s + n + 1 <= r
                      /\ SubSeq(left, n + 2, Len(left)) = SubSeq(val, s + n + 1, Len(val))

LEMMA NextEntry ==
  ASSUME NEW val \in Text, NEW s \in P!Starts(val),
         NEW left, left = SubSeq(val, s, Len(val)), NEW n, n = P!EntryLength(left)
  PROVE  NextIs(val, s, left, n)
<1>1. Len(val) \in Nat /\ s \in 1 .. Len(val) + 1
  BY DEF P!Starts, Text
<1>2. /\ left \in Text /\ Len(left) = Len(val) - s + 1
      /\ \A i \in 1 .. Len(left) : \A j \in Int : j = s + i - 1 => left[i] = val[j]
  <2>1. /\ left \in Text /\ Len(left) = Len(val) - s + 1
        /\ \A i \in 1 .. Len(val) - s + 1 : \A j \in Int : j = s + i - 1 => left[i] = val[j]
    BY <1>1, PartOfText
  <2> QED BY <2>1
<1>3. n \in 0 .. Len(left) /\ EndsEntry(left, n)
  BY <1>2, EntryLengthIs
<1>4. /\ n = Len(left) => \A r \in P!Starts(val) : r <= s
      /\ n # Len(left) => /\ s + n + 1 \in P!Starts(val)
                          /\ \A r \in P!Starts(val) : s < r => s + n + 1 <= r
                          /\ SubSeq(left, n + 2, Len(left)) = SubSeq(val, s + n + 1, Len(val))
  <2>0. left \in Text /\ n \in Nat
    BY <1>2, <1>3
  <2>a. PICK x \in Text : x = left
    BY <2>0
  <2>b. PICK m \in Nat : m = n
    BY <2>0
  <2>1. x = left /\ m = n
    BY <2>a, <2>b
  <2>2. /\ Len(x) = Len(val) - s + 1 /\ m \in 0 .. Len(x) /\ EndsEntry(x, m)
        /\ \A i \in 1 .. Len(x) : \A j \in Int : j = s + i - 1 => x[i] = val[j]
    BY <1>2, <1>3, <2>1
  <2>3. /\ m = Len(x) => \A r \in P!Starts(val) : r <= s
        /\ m # Len(x) => /\ s + m + 1 \in P!Starts(val)
                         /\ \A r \in P!Starts(val) : s < r => s + m + 1 <= r
                         /\ SubSeq(x, m + 2, Len(x)) = SubSeq(val, s + m + 1, Len(val))
    BY <1>1, <2>2, NextStart
  <2> QED BY <2>1, <2>3
<1> QED BY <1>1, <1>2, <1>3, <1>4 DEF NextIs

\* The entry whose leading quote is skipped.
Opened(val) == IF val # <<>> /\ val[1] = P!Quote THEN Tail(val) ELSE val

OpenedIs(val, m, opened, n) ==
  /\ n = Len(opened) <=> m = Len(val)
  /\ SubSeq(opened, n + 2, Len(opened)) = SubSeq(val, m + 2, Len(val))
  /\ SubSeq(opened, 1, n) = Opened(SubSeq(val, 1, m))

LEMMA OpenedEntry ==
  ASSUME NEW val \in Text, NEW opened, opened = Opened(val),
         NEW n, n = P!EntryLength(opened), NEW m, m = P!EntryLength(val)
  PROVE  OpenedIs(val, m, opened, n)
<1>1. m \in 0 .. Len(val) /\ EndsEntry(val, m) /\ Len(val) \in Nat
  BY EntryLengthIs DEF Text
<1> DEFINE entry == SubSeq(val, 1, m)
<1>2. entry \in Text /\ Len(entry) = m /\ \A i \in 1 .. m : entry[i] = val[i]
  BY <1>1, FirstPart
<1>3. CASE val # <<>> /\ val[1] = P!Quote
  <2>1. opened = Tail(val) /\ opened \in Text /\ Len(opened) = Len(val) - 1 /\ Len(val) > 0
        /\ \A i \in 1 .. Len(opened) : opened[i] = val[i + 1]
    BY <1>3 DEF Opened, Text
  <2>2. m > 0
    <3>1. P!Quote # P!PATH_SEPARATOR
      BY DEF P!Quote, P!PATH_SEPARATOR
    <3>2. m = 0 => val[1] = P!PATH_SEPARATOR
      BY <1>1, <2>1 DEF EndsEntry
    <3> QED BY <1>1, <1>3, <3>1, <3>2
  <2>3. EndsEntry(opened, m - 1) /\ m - 1 \in 0 .. Len(opened)
    <3>1. m - 1 = Len(opened) \/ opened[m - 1 + 1] = P!PATH_SEPARATOR
      <4>1. CASE m = Len(val)
        BY <2>1, <4>1
      <4>2. CASE m # Len(val)
        <5>1. val[m + 1] = P!PATH_SEPARATOR /\ m \in 1 .. Len(opened)
          BY <1>1, <2>1, <2>2, <4>2 DEF EndsEntry
        <5> QED BY <1>1, <2>1, <5>1
      <4> QED BY <4>1, <4>2
    <3>2. ASSUME NEW k \in 1 .. m - 1  PROVE opened[k] # P!PATH_SEPARATOR
      <4>1. k \in 1 .. Len(opened) /\ k + 1 \in 1 .. m
        BY <1>1, <2>1
      <4> QED BY <1>1, <2>1, <4>1 DEF EndsEntry
    <3>3. m - 1 \in 0 .. Len(opened)
      BY <1>1, <2>1, <2>2
    <3> QED BY <3>1, <3>2, <3>3 DEF EndsEntry
  <2>4. n = m - 1
    BY <2>1, <2>3, EntryLengthIs
  <2> DEFINE a == SubSeq(opened, n + 2, Len(opened))
             b == SubSeq(val, m + 2, Len(val))
             c == SubSeq(opened, 1, n)
  <2>5. a = b
    <3>1. ASSUME NEW x \in n + 2 .. Len(opened), NEW y \in m + 2 .. Len(val), x - (n + 2) = y - (m + 2)
          PROVE  opened[x] = val[y]
      <4>1. x \in 1 .. Len(opened) /\ y = x + 1
        BY <1>1, <2>1, <2>2, <2>4, <3>1
      <4> QED BY <2>1, <4>1
    <3>2. CASE m < Len(val)
      <4>1. /\ n + 2 \in Nat /\ m + 2 \in Nat /\ 1 <= n + 2 /\ 1 <= m + 2
            /\ n + 2 <= Len(opened) + 1 /\ Len(opened) - (n + 2) = Len(val) - (m + 2)
        BY <1>1, <2>1, <2>2, <2>4, <3>2
      <4> QED BY <2>1, <3>1, <4>1, SameParts
    <3>3. CASE m = Len(val)
      <4>1. a = <<>>
        <5>1. n + 2 \in Int /\ Len(opened) \in Int /\ Len(opened) < n + 2
          BY <1>1, <2>1, <2>2, <2>4, <3>3
        <5> QED BY <5>1, SubSeqEmpty
      <4>2. b = <<>>
        <5>1. m + 2 \in Int /\ Len(val) \in Int /\ Len(val) < m + 2
          BY <1>1, <3>3
        <5> QED BY <5>1, SubSeqEmpty
      <4> QED BY <4>1, <4>2
    <3> QED BY <1>1, <3>2, <3>3
  <2>6. c = Tail(entry)
    <3>1. c \in Text /\ Len(c) = n /\ \A i \in 1 .. n : c[i] = opened[i]
      <4>1. n \in 0 .. Len(opened)
        BY <1>1, <2>1, <2>2, <2>4
      <4> QED BY <2>1, <4>1, FirstPart
    <3> HIDE DEF c, entry
    <3>2. Tail(entry) \in Text /\ Len(Tail(entry)) = m - 1
          /\ \A i \in 1 .. m - 1 : Tail(entry)[i] = entry[i + 1]
      BY <1>2, <2>2 DEF Text
    <3>3. \A i \in 1 .. n : c[i] = Tail(entry)[i]
      BY <1>1, <1>2, <2>1, <2>4, <3>1, <3>2
    <3> QED BY <2>4, <3>1, <3>2, <3>3, SameText
  <2>7. Opened(entry) = Tail(entry)
    BY <1>1, <1>2, <1>3, <2>2 DEF Opened
  <2>8. n = Len(opened) <=> m = Len(val)
    BY <1>1, <2>1, <2>4
  <2> QED BY <2>5, <2>6, <2>7, <2>8 DEF OpenedIs
<1>4. CASE ~(val # <<>> /\ val[1] = P!Quote)
  <2>1. opened = val /\ n = m
    BY <1>4 DEF Opened
  <2>2. Opened(entry) = entry
    <3>1. entry # <<>> => m > 0 /\ val # <<>>
      BY <1>1, <1>2 DEF Text
    <3>2. entry # <<>> => entry[1] = val[1]
      BY <1>1, <1>2, <3>1
    <3> QED BY <1>4, <3>1, <3>2 DEF Opened
  <2> QED BY <2>1, <2>2 DEF OpenedIs
<1> QED BY <1>3, <1>4

\* The directory that is tried is the one the entry names.
LEMMA DirectoryNamed ==
  ASSUME P!PathAssumption, NEW entry \in Text, entry # <<P!Quote, P!Quote>>
  PROVE  P!Directory(Opened(entry)) = P!Named(entry) /\ P!Named(entry) \in Text
<1> DEFINE body == Opened(entry)
           dir == P!Trailing(body)
<1>1. body \in Text /\ body = (IF entry = <<>> THEN <<>> ELSE P!Leading(entry))
  <2>1. body = (IF entry = <<>> THEN <<>> ELSE P!Leading(entry))
    BY Zenon DEF Opened, P!Leading
  <2>2. entry # <<>> => Tail(entry) \in Text
    BY DEF Text
  <2>3. body \in Text
    BY <2>2 DEF Opened
  <2> QED BY <2>1, <2>3
<1>2. P!Trailing(<<>>) = <<>>
  BY DEF P!Trailing
<1>3. CASE body = <<>>
  <2>1. P!Named(entry) = Append(<<".">>, "/")
    BY <1>1, <1>2, <1>3 DEF P!Named, P!Unquoted
  <2>2. <<".">> \in Text /\ Len(<<".">>) = 1 /\ <<".">>[1] \notin P!Separators
    BY DEF P!Separators, P!PathAssumption, Text
  <2>3. P!Directory(<<>>) = Append(<<".">>, "/")
    BY <2>2 DEF P!Directory
  <2>4. \A t \in Text : Append(t, "/") \in Text
    BY DEF P!PathAssumption, Text
  <2> HIDE DEF body
  <2> QED BY <1>3, <2>1, <2>2, <2>3, <2>4 DEF body
<1>4. CASE body # <<>>
  <2>0. Len(body) \in Nat /\ Len(body) > 0
    BY <1>1, <1>4 DEF Text
  <2>5. SubSeq(body, 1, Len(body) - 1) \in Text /\ Len(SubSeq(body, 1, Len(body) - 1)) = Len(body) - 1
    <3> HIDE DEF body
    <3>1. Len(body) - 1 \in Int /\ Len(body) - 1 <= Len(body) /\ 1 <= Len(body) - 1 + 1
      BY <2>0
    <3>2. /\ SubSeq(body, 1, Len(body) - 1) \in Text
          /\ Len(SubSeq(body, 1, Len(body) - 1)) = Len(body) - 1 - 1 + 1
      BY <1>1, <3>1, PartOfText
    <3> QED BY <2>0, <3>2
  <2>1. dir \in Text
    BY <1>1, <2>5 DEF P!Trailing
  <2>2. dir # <<>>
    <3> SUFFICES ASSUME dir = <<>>  PROVE FALSE
      OBVIOUS
    <3>1. Len(body) = 1 /\ body[1] = P!Quote
      <4>1. SubSeq(body, 1, Len(body) - 1) = <<>> /\ body[Len(body)] = P!Quote
        BY <1>4 DEF P!Trailing
      <4>2. Len(body) - 1 = 0
        BY <2>5, <4>1
      <4> HIDE DEF body, dir
      <4>3. Len(body) = 1
        BY <2>0, <4>2
      <4>4. body[Len(body)] = P!Quote
        BY <4>1
      <4> QED BY <4>3, <4>4
    <3>2. CASE entry[1] = P!Quote /\ entry # <<>>
      <4>1. body = Tail(entry)
        BY <3>2 DEF Opened
      <4>2. Len(entry) = 2 /\ entry[2] = P!Quote
        <5>1. Len(Tail(entry)) = 1 /\ Tail(entry)[1] = P!Quote
          BY <3>1, <4>1
        <5> QED BY <3>2, <5>1 DEF Text
      <4>3. entry = <<P!Quote, P!Quote>>
        BY <3>2, <4>2 DEF Text
      <4> QED BY <4>3
    <3>3. CASE ~(entry[1] = P!Quote /\ entry # <<>>)
      BY <3>1, <3>3 DEF Opened
    <3> QED BY <3>2, <3>3
  <2>3. P!Named(entry) = IF dir[Len(dir)] \in P!Separators THEN dir ELSE Append(dir, "/")
    BY <1>1, <1>2, <1>4, <2>2 DEF P!Named, P!Unquoted
  <2>4. P!Directory(body) = IF dir[Len(dir)] \in P!Separators THEN dir ELSE Append(dir, "/")
    BY <1>4 DEF P!Directory
  <2>6. Append(dir, "/") \in Text
    <3> HIDE DEF dir
    <3> QED BY <2>1 DEF P!PathAssumption, Text
  <2> HIDE DEF dir
  <2> QED BY <2>1, <2>3, <2>4, <2>6
<1> QED BY <1>3, <1>4
-----------------------------------------------------------------------------
\* One's place among those wanted.
LEMMA PathCardinality == \A S : P!Cardinality(S) = Cardinality(S)
BY DEF P!Cardinality, Cardinality, P!IsFiniteSet, IsFiniteSet

Lower(all, n, s) == {v \in all : v[1] < n \/ (v[1] = n /\ v[2] < s)}

LEMMA PlaceOf ==
  ASSUME NEW all \in SUBSET (Nat \X Nat), IsFiniteSet(all), NEW n \in Nat, NEW s \in Nat
  PROVE  /\ IsFiniteSet(Lower(all, n, s)) /\ Cardinality(Lower(all, n, s)) \in Nat
         /\ Cardinality(Lower(all, n, s)) <= Cardinality(all)
         /\ \A w \in Lower(all, n, s) : P!Place(all, w) \in 1 .. Cardinality(Lower(all, n, s))
         /\ \A w \in all \ Lower(all, n, s) :
              P!Place(all, w) \in Nat /\ P!Place(all, w) > Cardinality(Lower(all, n, s))
         /\ <<n, s>> \in all => /\ <<n, s>> \notin Lower(all, n, s)
                               /\ P!Place(all, <<n, s>>) = Cardinality(Lower(all, n, s)) + 1
<1> DEFINE before == Lower(all, n, s)
           Upto(w) == {v \in all : v[1] < w[1] \/ (v[1] = w[1] /\ v[2] <= w[2])}
<1>1. IsFiniteSet(before) /\ Cardinality(before) \in Nat /\ Cardinality(before) <= Cardinality(all)
  BY FS_Subset, FS_CardinalityType DEF Lower
<1>2. ASSUME NEW w \in all
      PROVE  /\ P!Place(all, w) = Cardinality(Upto(w)) /\ IsFiniteSet(Upto(w)) /\ w \in Upto(w)
             /\ Cardinality(Upto(w)) \in Nat
  <2>1. P!Place(all, w) = Cardinality(Upto(w))
    BY PathCardinality DEF P!Place
  <2>2. IsFiniteSet(Upto(w)) /\ Cardinality(Upto(w)) \in Nat
    BY FS_Subset, FS_CardinalityType
  <2>3. w[1] \in Nat /\ w[2] \in Nat
    OBVIOUS
  <2> QED BY <2>1, <2>2, <2>3
<1>3. ASSUME NEW w \in before  PROVE P!Place(all, w) \in 1 .. Cardinality(before)
  <2>1. w \in all /\ w[1] \in Nat /\ w[2] \in Nat /\ (w[1] < n \/ (w[1] = n /\ w[2] < s))
    BY DEF Lower
  <2>2. \A v \in all : v[1] \in Nat /\ v[2] \in Nat
    OBVIOUS
  <2>3. Upto(w) \subseteq before
    BY <2>1, <2>2 DEF Lower
  <2>4. Cardinality({w}) = 1 /\ {w} \subseteq Upto(w)
    BY <1>2, <2>1, FS_Singleton
  <2>5. Cardinality(Upto(w)) <= Cardinality(before) /\ 1 <= Cardinality(Upto(w))
    <3> HIDE DEF before, Upto
    <3> QED BY <1>1, <1>2, <2>1, <2>3, <2>4, FS_Subset
  <2> QED BY <1>1, <1>2, <2>1, <2>5
<1>4. ASSUME NEW w \in all \ before
      PROVE  P!Place(all, w) \in Nat /\ P!Place(all, w) > Cardinality(before)
  <2>1. w[1] \in Nat /\ w[2] \in Nat /\ ~(w[1] < n \/ (w[1] = n /\ w[2] < s))
    BY DEF Lower
  <2>2. \A v \in all : v[1] \in Nat /\ v[2] \in Nat
    OBVIOUS
  <2>3. before \cup {w} \subseteq Upto(w)
    BY <2>1, <2>2 DEF Lower
  <2>4. Cardinality(before \cup {w}) = Cardinality(before) + 1
    <3> HIDE DEF before
    <3> QED BY <1>1, <1>4, FS_AddElement
  <2>5. Cardinality(before \cup {w}) <= Cardinality(Upto(w))
    <3> HIDE DEF before, Upto
    <3> QED BY <1>2, <2>3, FS_Subset
  <2> QED BY <1>1, <1>2, <2>4, <2>5
<1>5. ASSUME <<n, s>> \in all
      PROVE  <<n, s>> \notin before /\ P!Place(all, <<n, s>>) = Cardinality(before) + 1
  <2> DEFINE w == <<n, s>>
  <2>1. w \notin before
    BY DEF Lower
  <2>2. \A v \in all : v[1] \in Nat /\ v[2] \in Nat /\ v = <<v[1], v[2]>>
    OBVIOUS
  <2>3. Upto(w) = before \cup {w}
    BY <1>5, <2>2 DEF Lower
  <2>4. Cardinality(before \cup {w}) = Cardinality(before) + 1
    <3> HIDE DEF before, w
    <3> QED BY <1>1, <2>1, FS_AddElement
  <2> QED BY <1>2, <1>5, <2>1, <2>3, <2>4
<1> QED BY <1>1, <1>3, <1>4, <1>5

\* The names wanted before those of the n-th name behind place s, and that
\* they are the ones that were tested.
Before(n, s) == Lower(P!Wanted, n, s)

Reached(n, s) ==
  /\ Len(tried) = Cardinality(Before(n, s))
  /\ \A w \in Before(n, s) : tried[P!Place(P!Wanted, w)] = P!Meaning(w[1], w[2])

SearchShape ==
  /\ names \in Seq(Text)
  /\ path # Null => path \in Text /\ \A s \in P!Starts(path) : P!Entry(path, s) # <<P!Quote, P!Quote>>
  /\ next # "idle" => turn \in 1 .. Len(names)
  /\ next # "done" => located = Null
  /\ next = "idle" => names = <<>> /\ tried = <<>>
  /\ next \in {"start", "relative"} /\ path # Null => path_val = path

LEMMA PlacesWanted ==
  ASSUME SearchShape
  PROVE  /\ P!Wanted \in SUBSET (Nat \X Nat) /\ IsFiniteSet(P!Wanted)
         /\ \A n \in Nat, s \in Nat :
              <<n, s>> \in P!Wanted <=>
                n \in 1 .. Len(names) /\ ((s = 0 /\ P!Itself(n)) \/ (P!InEntries(n) /\ s \in P!Starts(path)))
         /\ path # Null => P!Starts(path) \subseteq 1 .. Len(path) + 1
<1>1. Len(names) \in Nat
  BY DEF SearchShape
<1>2. path # Null => Len(path) \in Nat /\ P!Starts(path) \subseteq 1 .. Len(path) + 1
  BY DEF SearchShape, P!Starts, Text
<1>3. \A n : P!InEntries(n) => path # Null
  BY DEF P!InEntries
<1>4. PICK m \in Nat : \A n : P!InEntries(n) => P!Starts(path) \subseteq 1 .. m
  <2>1. CASE path = Null
    BY <1>3, <2>1
  <2>2. CASE path # Null
    <3>1. Len(path) + 1 \in Nat
      BY <1>2, <2>2
    <3> QED BY <1>2, <2>2, <3>1
  <2> QED BY <2>1, <2>2
<1> DEFINE one == {<<n, 0>> : n \in {k \in 1 .. Len(names) : P!Itself(k)}}
           along(n) == {<<n, s>> : s \in P!Starts(path)}
           more == UNION {along(n) : n \in {k \in 1 .. Len(names) : P!InEntries(k)}}
<1>5. P!Wanted = one \cup more
  BY DEF P!Wanted
<1>6. P!Wanted \subseteq (1 .. Len(names)) \X (0 .. m)
  BY <1>1, <1>4, <1>5
<1>7. IsFiniteSet(P!Wanted)
  <2>1. IsFiniteSet(1 .. Len(names)) /\ IsFiniteSet(0 .. m)
    BY <1>1, FS_Interval
  <2>2. IsFiniteSet((1 .. Len(names)) \X (0 .. m))
    BY <2>1, FS_Product
  <2> QED BY <1>6, <2>2, FS_Subset
<1>8. \A n \in Nat, s \in Nat :
        <<n, s>> \in P!Wanted <=>
          n \in 1 .. Len(names) /\ ((s = 0 /\ P!Itself(n)) \/ (P!InEntries(n) /\ s \in P!Starts(path)))
  <2>1. \A n, s : <<n, s>> \in one <=> s = 0 /\ n \in 1 .. Len(names) /\ P!Itself(n)
    BY Zenon
  <2>2. ASSUME NEW n, NEW s
        PROVE  <<n, s>> \in more <=> s \in P!Starts(path) /\ n \in 1 .. Len(names) /\ P!InEntries(n)
    <3>1. ASSUME <<n, s>> \in more  PROVE s \in P!Starts(path) /\ n \in 1 .. Len(names) /\ P!InEntries(n)
      <4>1. PICK k \in 1 .. Len(names) : P!InEntries(k) /\ <<n, s>> \in along(k)
        BY <3>1, Zenon
      <4> QED BY <4>1
    <3>2. ASSUME s \in P!Starts(path), n \in 1 .. Len(names), P!InEntries(n)  PROVE <<n, s>> \in more
      <4>1. <<n, s>> \in along(n)
        BY <3>2
      <4>2. along(n) \in {along(k) : k \in {k \in 1 .. Len(names) : P!InEntries(k)}}
        BY <3>2, Zenon
      <4> HIDE DEF along
      <4> QED BY <4>1, <4>2, Zenon
    <3> QED BY <3>1, <3>2
  <2> QED BY <1>5, <2>1, <2>2
<1>9. P!Wanted \in SUBSET (Nat \X Nat)
  <2>1. 1 .. Len(names) \subseteq Nat /\ 0 .. m \subseteq Nat
    BY <1>1
  <2> QED BY <1>6, <2>1
<1> QED BY <1>2, <1>7, <1>8, <1>9

LEMMA ReachedInOrder ==
  ASSUME SearchShape, NEW n \in Nat, NEW s \in Nat, Reached(n, s)
  PROVE  /\ Len(tried) <= P!Cardinality(P!Wanted)
         /\ \A w \in P!Wanted :
              P!Place(P!Wanted, w) <= Len(tried) => tried[P!Place(P!Wanted, w)] = P!Meaning(w[1], w[2])
<1>1. P!Wanted \in SUBSET (Nat \X Nat) /\ IsFiniteSet(P!Wanted)
  BY PlacesWanted
<1>2. /\ Cardinality(Before(n, s)) \in Nat /\ Cardinality(Before(n, s)) <= Cardinality(P!Wanted)
      /\ \A w \in P!Wanted \ Before(n, s) :
           P!Place(P!Wanted, w) \in Nat /\ P!Place(P!Wanted, w) > Cardinality(Before(n, s))
  BY <1>1, PlaceOf DEF Before
<1>3. Len(tried) <= P!Cardinality(P!Wanted)
  BY <1>2, PathCardinality DEF Reached
<1>4. ASSUME NEW w \in P!Wanted, P!Place(P!Wanted, w) <= Len(tried)
      PROVE  tried[P!Place(P!Wanted, w)] = P!Meaning(w[1], w[2])
  <2>1. w \in Before(n, s)
    BY <1>2, <1>4 DEF Reached
  <2> QED BY <2>1 DEF Reached
<1> QED BY <1>3, <1>4

\* What is wanted depends on the names and the path only.
LEMMA SameSearch ==
  ASSUME names' = names, path' = path
  PROVE  /\ P!Wanted' = P!Wanted
         /\ \A n, s : P!Meaning(n, s)' = P!Meaning(n, s)
         /\ \A n, s : Before(n, s)' = Before(n, s)
         /\ \A n : P!Itself(n)' = P!Itself(n) /\ P!InEntries(n)' = P!InEntries(n)
                   /\ P!IsAbsolute(n)' = P!IsAbsolute(n)
         /\ P!Quoted' = P!Quoted
<1>1. \A n : P!Name(n)' = P!Name(n)
  BY DEF P!Name
<1>2. \A n : P!IsAbsolute(n)' = P!IsAbsolute(n)
  BY <1>1 DEF P!IsAbsolute
<1>3. \A n : P!Itself(n)' = P!Itself(n) /\ P!InEntries(n)' = P!InEntries(n)
  BY <1>2 DEF P!Itself, P!InEntries
<1>4. P!Wanted' = P!Wanted
  BY <1>3 DEF P!Wanted
<1>5. \A n, s : P!Meaning(n, s)' = P!Meaning(n, s)
  BY <1>1 DEF P!Meaning
<1>6. P!Quoted' = P!Quoted
  BY DEF P!Quoted
<1>7. \A n, s : Before(n, s)' = Before(n, s)
  BY <1>4 DEF Before, Lower
<1> QED BY <1>2, <1>3, <1>4, <1>5, <1>6, <1>7

LEMMA MoreTested ==
  ASSUME SearchShape, tried \in Seq(Text), names' = names, path' = path,
         NEW n \in Nat, NEW s \in Nat, <<n, s>> \in P!Wanted, Reached(n, s),
         NEW name \in Text, name = P!Meaning(n, s), tried' = Append(tried, name),
         NEW m \in Nat, NEW t \in Nat, Before(m, t) = Before(n, s) \cup {<<n, s>>}
  PROVE  Reached(m, t)'
<1>1. P!Wanted \in SUBSET (Nat \X Nat) /\ IsFiniteSet(P!Wanted)
  BY PlacesWanted
<1>2. /\ IsFiniteSet(Before(n, s)) /\ Cardinality(Before(n, s)) \in Nat
      /\ \A w \in Before(n, s) : P!Place(P!Wanted, w) \in 1 .. Cardinality(Before(n, s))
      /\ <<n, s>> \notin Before(n, s)
      /\ P!Place(P!Wanted, <<n, s>>) = Cardinality(Before(n, s)) + 1
  BY <1>1, PlaceOf DEF Before
<1>3. Cardinality(Before(m, t)) = Cardinality(Before(n, s)) + 1
  BY <1>2, FS_AddElement
<1>4. /\ Len(tried') = Len(tried) + 1 /\ tried'[Len(tried) + 1] = name
      /\ \A k \in 1 .. Len(tried) : tried'[k] = tried[k]
  OBVIOUS
<1>5. Len(tried) = Cardinality(Before(n, s))
  BY DEF Reached
<1>6. ASSUME NEW w \in Before(m, t)
      PROVE  tried'[P!Place(P!Wanted, w)] = P!Meaning(w[1], w[2])
  <2>1. CASE w \in Before(n, s)
    BY <1>2, <1>4, <1>5, <2>1 DEF Reached
  <2>2. CASE w = <<n, s>>
    BY <1>2, <1>4, <1>5, <2>2
  <2> QED BY <2>1, <2>2
<1>7. \A all, w : P!Place(all, w)' = P!Place(all, w)
  BY DEF P!Place
<1>8. P!Wanted' = P!Wanted /\ Before(m, t)' = Before(m, t) /\ \A w : P!Meaning(w[1], w[2])' = P!Meaning(w[1], w[2])
  BY SameSearch
<1>9. Len(tried') = Cardinality(Before(m, t))
  BY <1>3, <1>4, <1>5
<1> QED BY <1>6, <1>8, <1>9 DEF Reached, P!Place

LEMMA StillReached ==
  ASSUME names' = names, path' = path, tried' = tried,
         NEW n \in Nat, NEW s \in Nat, Reached(n, s), NEW m \in Nat, NEW t \in Nat, Before(m, t) = Before(n, s)
  PROVE  Reached(m, t)'
<1>1. P!Wanted' = P!Wanted /\ Before(m, t)' = Before(m, t) /\ \A w : P!Meaning(w[1], w[2])' = P!Meaning(w[1], w[2])
  BY SameSearch
<1> QED BY <1>1 DEF Reached, P!Place
-----------------------------------------------------------------------------
\* How far the search is.
Along(n, s) ==
  /\ path # Null /\ s \in P!Starts(path) /\ path_val = SubSeq(path, s, Len(path)) /\ P!InEntries(n)
  /\ Reached(n, s)

SearchStands ==
  /\ tried \in Seq(Text)
  /\ next \in {"start", "absolute", "relative"} => \A n \in Nat : n = turn => Reached(n, 0)
  /\ next = "absolute" => \A n \in Nat : n = turn => P!Itself(n) /\ ~P!InEntries(n)
  /\ next = "relative" =>
       \A n \in Nat : n = turn => names[n] # <<>> /\ P!Itself(n) /\ ~P!IsAbsolute(n)
  /\ next = "path" => \A n \in Nat : n = turn => \E s \in Nat : Along(n, s)
  /\ next = "failed" => \A n \in Nat : n = turn => Reached(n + 1, 0)
  /\ next = "done" => IF located = Null THEN Len(tried) = P!Cardinality(P!Wanted)
                      ELSE tried # <<>> /\ located = tried[Len(tried)]
  /\ next # "idle" => \E n \in Nat, s \in Nat : Reached(n, s)

SearchInv == SearchShape /\ (P!Quoted \/ SearchStands)

LEMMA SearchShown ==
  ASSUME SearchInv
  PROVE  P!FirstAlongPath
<1> SUFFICES ASSUME ~P!Quoted  PROVE P!InOrder
  BY DEF P!FirstAlongPath
<1>1. SearchShape /\ SearchStands
  BY DEF SearchInv
<1>2. PICK n \in Nat, s \in Nat : Reached(n, s)
  <2>1. CASE next = "idle"
    <3>1. names = <<>> /\ tried = <<>>
      BY <1>1, <2>1 DEF SearchShape
    <3>2. P!Wanted = {}
      BY <3>1 DEF P!Wanted
    <3>3. Before(0, 0) = {}
      BY <3>2 DEF Before, Lower
    <3>4. Reached(0, 0)
      BY <3>1, <3>3, FS_EmptySet DEF Reached
    <3> QED BY <3>4
  <2>2. CASE next # "idle"
    BY <1>1, <2>2 DEF SearchStands
  <2> QED BY <2>1, <2>2
<1>3. /\ Len(tried) <= P!Cardinality(P!Wanted)
      /\ \A w \in P!Wanted :
           P!Place(P!Wanted, w) <= Len(tried) => tried[P!Place(P!Wanted, w)] = P!Meaning(w[1], w[2])
  BY <1>1, <1>2, ReachedInOrder
<1>4. next = "done" => IF located = Null THEN Len(tried) = P!Cardinality(P!Wanted)
                       ELSE tried # <<>> /\ located = tried[Len(tried)]
  BY <1>1 DEF SearchStands
<1> QED BY <1>3, <1>4 DEF P!InOrder

\* What comes before the next name, when it is wanted itself, in entries or not.
LEMMA BeforeNext ==
  ASSUME SearchShape, NEW n \in Nat
  PROVE  /\ ~P!Itself(n) /\ ~P!InEntries(n) => Before(n + 1, 0) = Before(n, 0)
         /\ P!Itself(n) /\ ~P!InEntries(n) => Before(n + 1, 0) = Before(n, 0) \cup ({<<n, 0>>} \cap P!Wanted)
         /\ ~P!Itself(n) => Before(n, 1) = Before(n, 0)
         /\ P!Itself(n) => Before(n, 1) = Before(n, 0) \cup ({<<n, 0>>} \cap P!Wanted)
<1>1. \A v \in P!Wanted : v[1] \in Nat /\ v[2] \in Nat /\ v = <<v[1], v[2]>>
  BY PlacesWanted
<1>2. \A v \in P!Wanted : v[1] = n => (v[2] = 0 /\ P!Itself(n)) \/ (P!InEntries(n) /\ v[2] # 0)
  <2>1. ASSUME NEW v \in P!Wanted, v[1] = n  PROVE (v[2] = 0 /\ P!Itself(n)) \/ (P!InEntries(n) /\ v[2] \in P!Starts(path))
    BY <1>1, <2>1, PlacesWanted
  <2>2. \A k : P!InEntries(k) => path # Null
    BY DEF P!InEntries
  <2>3. path # Null => 0 \notin P!Starts(path)
    BY PlacesWanted
  <2> QED BY <2>1, <2>2, <2>3
<1> QED BY <1>1, <1>2 DEF Before, Lower

\* And when the last entry of the path was tested, or another one follows.
LEMMA BeforeEntry ==
  ASSUME SearchShape, NEW n \in 1 .. Len(names), P!InEntries(n), NEW s \in P!Starts(path)
  PROVE  /\ path # Null /\ s \in Nat /\ <<n, s>> \in P!Wanted
         /\ (\A r \in P!Starts(path) : r <= s) => Before(n + 1, 0) = Before(n, s) \cup {<<n, s>>}
         /\ \A t \in P!Starts(path) :
              s < t /\ (\A r \in P!Starts(path) : s < r => t <= r)
                => Before(n, t) = Before(n, s) \cup {<<n, s>>}
<1>1. \A v \in P!Wanted : v[1] \in Nat /\ v[2] \in Nat /\ v = <<v[1], v[2]>>
  BY PlacesWanted
<1>2. path # Null /\ P!Starts(path) \subseteq Nat /\ n \in Nat
  <2>1. path # Null
    BY DEF P!InEntries
  <2>2. P!Starts(path) \subseteq 1 .. Len(path) + 1 /\ Len(path) \in Nat
    BY <2>1, PlacesWanted DEF SearchShape, Text
  <2>3. Len(names) \in Nat
    BY DEF SearchShape
  <2> QED BY <2>1, <2>2, <2>3
<1>3. <<n, s>> \in P!Wanted
  BY <1>2, PlacesWanted
<1>4. \A v \in P!Wanted : v[1] = n => v[2] = 0 \/ v[2] \in P!Starts(path)
  BY <1>1, <1>2, PlacesWanted
<1>5. 0 < s
  BY <1>2, PlacesWanted
<1>6. ASSUME \A r \in P!Starts(path) : r <= s  PROVE Before(n + 1, 0) = Before(n, s) \cup {<<n, s>>}
  <2>1. \A v \in P!Wanted : v \in Before(n + 1, 0) <=> v \in Before(n, s) \/ v = <<n, s>>
    BY <1>1, <1>2, <1>3, <1>4, <1>5, <1>6 DEF Before, Lower
  <2> QED BY <1>3, <2>1 DEF Before, Lower
<1>7. ASSUME NEW t \in P!Starts(path), s < t, \A r \in P!Starts(path) : s < r => t <= r
      PROVE  Before(n, t) = Before(n, s) \cup {<<n, s>>}
  <2>1. \A v \in P!Wanted : v \in Before(n, t) <=> v \in Before(n, s) \/ v = <<n, s>>
    BY <1>1, <1>2, <1>3, <1>4, <1>5, <1>7 DEF Before, Lower
  <2> QED BY <1>3, <2>1 DEF Before, Lower
<1> QED BY <1>2, <1>3, <1>6, <1>7

\* A name without quotes is looked for as it is.
LEMMA PlainName ==
  ASSUME SearchShape, ~P!Quoted, NEW n \in 1 .. Len(names)
  PROVE  /\ names[n] \in Text /\ P!Name(n) = names[n]
         /\ names[n] # <<>> => P!Unquoted(names[n]) = names[n]
<1>1. names[n] \in Text
  BY DEF SearchShape
<1>2. \A k \in 1 .. Len(names[n]) : names[n][k] # P!Quote
  BY DEF P!Quoted
<1>3. ASSUME names[n] # <<>>  PROVE P!Unquoted(names[n]) = names[n]
  <2>1. Len(names[n]) \in Nat /\ Len(names[n]) > 0
    BY <1>1, <1>3 DEF Text
  <2>2. names[n][1] # P!Quote /\ names[n][Len(names[n])] # P!Quote
    BY <1>2, <2>1
  <2> QED BY <2>2 DEF P!Unquoted, P!Leading, P!Trailing
<1> QED BY <1>1, <1>3 DEF P!Name
-----------------------------------------------------------------------------
\* The entries of the path of __gnat_locate_exec_on_path are the current
\* directory and those of the PATH.
LEMMA OnPathSound ==
  ASSUME P!PathAssumption, NEW val \in Paths \cup {Null}
  PROVE  /\ P!OnPath(val) \in Text
         /\ \A s \in P!Starts(P!OnPath(val)) : P!Entry(P!OnPath(val), s) # <<P!Quote, P!Quote>>
<1>1. ASSUME NEW t \in Text, NEW s \in P!Starts(t), P!Entry(t, s) = <<P!Quote, P!Quote>>
      PROVE  s \in 1 .. Len(t) /\ t[s] = P!Quote
  <2> DEFINE left == SubSeq(t, s, Len(t))
             n == P!EntryLength(left)
  <2>1. s \in 1 .. Len(t) + 1 /\ left \in Text /\ Len(left) = Len(t) - s + 1 /\ n \in 0 .. Len(left)
    BY NextEntry DEF NextIs
  <2>2. Len(t) \in Nat
    BY DEF Text
  <2> DEFINE entry == SubSeq(left, 1, n)
  <2>3. Len(entry) = n /\ \A i \in 1 .. n : entry[i] = left[i]
    <3> HIDE DEF left, n
    <3> QED BY <2>1, FirstPart
  <2>4. entry = <<P!Quote, P!Quote>>
    BY <1>1 DEF P!Entry
  <2>5. Len(entry) = 2 /\ entry[1] = P!Quote
    <3> HIDE DEF entry
    <3> QED BY <2>4
  <2>6. n = 2 /\ left[1] = P!Quote
    <3> HIDE DEF entry, left, n
    <3> QED BY <2>3, <2>5
  <2>7. \A i \in 1 .. Len(t) - s + 1 : \A j \in Int : j = s + i - 1 => left[i] = t[j]
    <3> HIDE DEF left, n
    <3>1. s \in Int /\ 1 <= s
      BY <2>1, <2>2
    <3> QED BY <2>2, <3>1, PartOfText DEF left
  <2> HIDE DEF left, n, entry
  <2>8. s \in 1 .. Len(t)
    BY <2>1, <2>2, <2>6
  <2>9. left[1] = t[s]
    BY <2>2, <2>7, <2>8
  <2> QED BY <2>6, <2>8, <2>9
<1>2. CASE val = Null
  <2>1. P!OnPath(val) = <<>> /\ <<>> \in Text
    BY <1>2 DEF P!OnPath, Text
  <2>2. \A s : ~(s \in 1 .. Len(<<>>))
    OBVIOUS
  <2> QED BY <1>1, <2>1, <2>2
<1>3. CASE val # Null
  <2>1. val \in Paths /\ val \in Text /\ P!OnPath(val) = <<".", P!PATH_SEPARATOR>> \o val
    BY <1>3 DEF P!OnPath, P!PathAssumption, Text
  <2> DEFINE two == <<".", P!PATH_SEPARATOR>>
  <2>2. two \in Text /\ Len(two) = 2 /\ two[1] = "." /\ two[2] = P!PATH_SEPARATOR
    <3>1. "." \in Characters /\ P!PATH_SEPARATOR \in Characters
      BY DEF P!PathAssumption
    <3>2. \A i \in 1 .. 2 : two[i] \in Characters
      BY <3>1
    <3>3. two = [i \in 1 .. 2 |-> two[i]]
      OBVIOUS
    <3> QED BY <3>2, <3>3 DEF Text
  <2>3. PICK on \in Text : /\ on = P!OnPath(val) /\ Len(on) = Len(val) + 2 /\ on[1] = "." /\ on[2] = P!PATH_SEPARATOR
                           /\ \A i \in 1 .. Len(val) : on[i + 2] = val[i]
    <3> HIDE DEF two
    <3>1. PICK on : on = two \o val /\ on = P!OnPath(val)
      BY <2>1 DEF two
    <3>2. Len(val) \in Nat
      BY <2>1 DEF Text
    <3>3. /\ on \in Text /\ Len(on) = Len(two) + Len(val)
          /\ \A i \in 1 .. Len(two) + Len(val) : on[i] = IF i <= Len(two) THEN two[i] ELSE val[i - Len(two)]
      <4>1. two \in Seq(Characters) /\ val \in Seq(Characters)
        BY <2>1, <2>2 DEF Text
      <4>2. /\ two \o val \in Seq(Characters) /\ Len(two \o val) = Len(two) + Len(val)
            /\ \A i \in 1 .. Len(two) + Len(val) :
                 (two \o val)[i] = IF i <= Len(two) THEN two[i] ELSE val[i - Len(two)]
        BY <4>1, ConcatProperties, Zenon
      <4> QED BY <3>1, <4>2 DEF Text
    <3>4. \A i \in 1 .. 2 + Len(val) : on[i] = IF i <= 2 THEN two[i] ELSE val[i - 2]
      BY <2>2, <3>3
    <3>5. on[1] = two[1] /\ on[2] = two[2]
      BY <3>2, <3>4
    <3>6. ASSUME NEW i \in 1 .. Len(val)  PROVE on[i + 2] = val[i]
      <4>1. i + 2 \in 1 .. 2 + Len(val) /\ ~(i + 2 <= 2) /\ i + 2 - 2 = i
        BY <3>2
      <4> QED BY <3>4, <4>1
    <3> QED BY <2>2, <3>1, <3>2, <3>3, <3>5, <3>6
  <2>4. ASSUME NEW r \in P!Starts(on), P!Entry(on, r) = <<P!Quote, P!Quote>>  PROVE FALSE
    <3>1. r \in 1 .. Len(on) /\ on[r] = P!Quote /\ Len(val) \in Nat
      BY <1>1, <2>1, <2>4 DEF Text
    <3>2. r # 1 /\ r # 2
      BY <2>3, <3>1 DEF P!Quote, P!PATH_SEPARATOR
    <3>3. on[r - 1] = P!PATH_SEPARATOR
      BY <2>4, <3>1, <3>2 DEF P!Starts
    <3>4. PICK s \in 1 .. Len(val) : r = s + 2
      BY <2>3, <3>1, <3>2
    <3>5. s \in P!Starts(val)
      <4>1. CASE s = 1
        BY <4>1 DEF P!Starts
      <4>2. CASE s # 1
        <5>1. PICK k \in 1 .. Len(val) : s = k + 1
          BY <3>1, <3>4, <4>2
        <5>2. val[k] = on[r - 1]
          BY <2>3, <3>4, <5>1
        <5> QED BY <3>3, <5>1, <5>2 DEF P!Starts
      <4> QED BY <4>1, <4>2
    <3>6. SubSeq(on, r, Len(on)) = SubSeq(val, s, Len(val))
      <4>1. \A i \in r .. Len(on) : \A j \in s .. Len(val) : i - r = j - s => on[i] = val[j]
        BY <2>3, <3>1, <3>4
      <4>2. r \in Nat /\ s \in Nat /\ 1 <= r /\ 1 <= s /\ r <= Len(on) + 1 /\ Len(on) - r = Len(val) - s
        BY <2>3, <3>1, <3>4
      <4> QED BY <2>1, <4>1, <4>2, SameParts
    <3>7. P!Entry(val, s) = <<P!Quote, P!Quote>>
      BY <2>4, <3>6 DEF P!Entry
    <3> QED BY <2>1, <3>5, <3>7 DEF P!PathAssumption
  <2> QED BY <2>3, <2>4
<1> QED BY <1>2, <1>3

LEMMA ExecutableNames ==
  ASSUME P!PathAssumption, NEW name \in Text
  PROVE  P!Executables(name) \in Seq(Text) /\ Len(P!Executables(name)) > 0
<1> DEFINE other == Append(name, P!Suffix)
<1>1. other \in Text
  BY DEF P!PathAssumption, Text
<1> HIDE DEF other
<1>2. <<name>> \in Seq(Text) /\ Len(<<name>>) > 0
  OBVIOUS
<1>3. <<other, name>> \in Seq(Text) /\ Len(<<other, name>>) > 0
  <2>1. \A i \in 1 .. 2 : <<other, name>>[i] \in Text
    BY <1>1
  <2>2. <<other, name>> = [i \in 1 .. 2 |-> <<other, name>>[i]]
    OBVIOUS
  <2> QED BY <2>1, <2>2
<1> QED BY <1>2, <1>3 DEF P!Executables, other

LEMMA SearchInit ==
  ASSUME P!PathAssumption, P!Init
  PROVE  SearchInv
BY DEF P!Init, P!PathAssumption, SearchInv, SearchShape, SearchStands

LEMMA SearchBegins ==
  ASSUME P!PathAssumption, SearchInv, next = "idle", NEW wanted \in Seq(Text), Len(wanted) > 0,
         NEW val, val # Null => val \in Text /\ \A s \in P!Starts(val) : P!Entry(val, s) # <<P!Quote, P!Quote>>,
         P!Search(wanted, val)
  PROVE  SearchInv'
<1>1. tried = <<>> /\ located = Null /\ tried' = tried /\ located' = located
  BY DEF SearchInv, SearchShape, P!Search
<1>2. names' = wanted /\ path' = val /\ next' = "start" /\ turn' = 1 /\ path_val' = IF val = Null THEN <<>> ELSE val
  BY DEF P!Search
<1>3. SearchShape'
  BY <1>1, <1>2 DEF SearchShape
<1>4. Reached(1, 0)'
  <2>1. \A k : P!InEntries(k)' => path' # Null
    BY DEF P!InEntries
  <2>2. path' # Null => \A s \in P!Starts(path') : s \in Nat
    BY <1>2 DEF P!Starts, Text
  <2>3. \A v \in P!Wanted' : v[1] \in 1 .. Len(names') /\ v[2] \in Nat
    BY <2>1, <2>2 DEF P!Wanted
  <2>4. Before(1, 0)' = {}
    BY <1>2, <2>3 DEF Before, Lower
  <2> QED BY <1>1, <2>4, FS_EmptySet DEF Reached
<1>5. SearchStands'
  BY <1>1, <1>2, <1>4 DEF SearchStands
<1> QED BY <1>3, <1>5 DEF SearchInv

LEMMA SearchStart ==
  ASSUME SearchInv, P!Start
  PROVE  SearchInv'
<1>1. /\ names' = names /\ path' = path /\ tried' = tried /\ turn' = turn /\ path_val' = path_val
      /\ located' = located /\ next = "start" /\ next' \in {"failed", "absolute", "relative", "path"}
  BY DEF P!Start
<1>2. SearchShape /\ SearchShape'
  BY <1>1 DEF SearchInv, SearchShape
<1>3. SUFFICES ASSUME ~P!Quoted  PROVE SearchStands'
  BY <1>1, <1>2, SameSearch DEF SearchInv
<1>t. tried' \in Seq(Text)
  BY <1>1, <1>3 DEF SearchInv, SearchStands
<1>4. PICK n \in Nat : n = turn /\ n \in 1 .. Len(names) /\ Reached(n, 0)
  <2>1. turn \in 1 .. Len(names) /\ Len(names) \in Nat
    BY <1>1, <1>2 DEF SearchShape
  <2> QED BY <1>1, <1>3, <2>1 DEF SearchInv, SearchStands
<1>5. names[n] \in Text /\ P!Name(n) = names[n] /\ (names[n] # <<>> => P!Unquoted(names[n]) = names[n])
  BY <1>2, <1>3, <1>4, PlainName
<1>6. P!file_name = names[n]
  BY <1>4 DEF P!file_name
<1>7. P!IsAbsolute(n) <=> P!is_absolute_path(names[n], Len(names[n]))
  BY <1>5 DEF P!IsAbsolute
<1>8. names[n] = <<>> => ~P!IsAbsolute(n) /\ ~P!HasSeparator(names[n])
  BY <1>7 DEF P!is_absolute_path, P!HasSeparator
<1>9. Reached(n, 0)'
  BY <1>1, <1>4, StillReached
<1>10. ~P!Itself(n) /\ ~P!InEntries(n) => Reached(n + 1, 0)'
  BY <1>1, <1>2, <1>4, BeforeNext, StillReached
<1>11. P!Itself(n)' = P!Itself(n) /\ P!InEntries(n)' = P!InEntries(n) /\ P!IsAbsolute(n)' = P!IsAbsolute(n)
  BY <1>1, SameSearch
<1>12. CASE names[n] = <<>>
  <2>1. next' = "failed"
    BY <1>6, <1>12 DEF P!Start
  <2>2. ~P!Itself(n) /\ ~P!InEntries(n)
    BY <1>8, <1>12 DEF P!Itself, P!InEntries
  <2> QED BY <1>1, <1>t, <1>4, <1>10, <2>1, <2>2 DEF SearchStands
<1>13. CASE names[n] # <<>> /\ P!IsAbsolute(n)
  <2>1. next' = "absolute"
    BY <1>5, <1>6, <1>7, <1>13 DEF P!Start
  <2>2. P!Itself(n) /\ ~P!InEntries(n)
    BY <1>13 DEF P!Itself, P!InEntries
  <2> QED BY <1>1, <1>t, <1>4, <1>9, <1>11, <2>1, <2>2 DEF SearchStands
<1>14. CASE names[n] # <<>> /\ ~P!IsAbsolute(n)
  <2>1. next' = IF P!HasSeparator(names[n]) THEN "relative" ELSE IF path = Null THEN "failed" ELSE "path"
    BY <1>5, <1>6, <1>7, <1>14 DEF P!Start
  <2>2. CASE P!HasSeparator(names[n])
    <3>1. next' = "relative" /\ P!Itself(n)
      BY <2>1, <2>2 DEF P!Itself
    <3> QED BY <1>1, <1>t, <1>4, <1>9, <1>11, <1>14, <3>1 DEF SearchStands
  <2>3. CASE ~P!HasSeparator(names[n]) /\ path = Null
    <3>1. next' = "failed" /\ ~P!Itself(n) /\ ~P!InEntries(n)
      BY <1>14, <2>1, <2>3 DEF P!Itself, P!InEntries
    <3> QED BY <1>1, <1>t, <1>4, <1>10, <3>1 DEF SearchStands
  <2>4. CASE ~P!HasSeparator(names[n]) /\ path # Null
    <3>1. next' = "path" /\ ~P!Itself(n) /\ P!InEntries(n)
      BY <1>14, <2>1, <2>4 DEF P!Itself, P!InEntries
    <3>2. Reached(n, 1)'
      BY <1>1, <1>2, <1>4, <3>1, BeforeNext, StillReached
    <3>3. path_val = SubSeq(path, 1, Len(path)) /\ 1 \in P!Starts(path)
      <4>1. path_val = path /\ path \in Text
        BY <1>1, <1>2, <2>4 DEF SearchShape
      <4> QED BY <4>1, WholeText DEF P!Starts
    <3>4. Along(n, 1)'
      BY <1>1, <1>11, <2>4, <3>1, <3>2, <3>3 DEF Along
    <3> QED BY <1>1, <1>t, <1>4, <3>1, <3>2, <3>4 DEF SearchStands
  <2> QED BY <2>2, <2>3, <2>4
<1> QED BY <1>12, <1>13, <1>14

\* One more name was tested: it is located, or the search goes on.
LEMMA SearchTested ==
  ASSUME P!PathAssumption, SearchInv, ~P!Quoted, names' = names, path' = path, turn' = turn,
         NEW n \in Nat, n = turn, next \notin {"idle", "start", "done"},
         NEW s \in Nat, Reached(n, s), <<n, s>> \in P!Wanted,
         NEW name \in Text, name = P!Meaning(n, s), NEW then \in {"failed", "path"}, P!Test(name, then),
         then = "failed" => Before(n + 1, 0) = Before(n, s) \cup {<<n, s>>},
         then = "path" => \E t \in Nat :
           /\ path # Null /\ t \in P!Starts(path) /\ path_val' = SubSeq(path, t, Len(path)) /\ P!InEntries(n)
           /\ Before(n, t) = Before(n, s) \cup {<<n, s>>}
  PROVE  SearchInv'
<1>1. SearchShape /\ SearchStands
  BY DEF SearchInv
<1>2. /\ tried' = Append(tried, name) /\ tried' \in Seq(Text) /\ name # Null
      /\ (located' = name /\ next' = "done") \/ (located' = Null /\ next' = then)
  BY <1>1 DEF P!Test, SearchStands, P!PathAssumption, Text
<1>3. SearchShape'
  BY <1>1, <1>2 DEF SearchShape
<1>4. PICK m \in Nat, t \in Nat :
        /\ Before(m, t) = Before(n, s) \cup {<<n, s>>}
        /\ then = "failed" => m = n + 1 /\ t = 0
        /\ then = "path" => /\ m = n /\ path # Null /\ t \in P!Starts(path)
                            /\ path_val' = SubSeq(path, t, Len(path)) /\ P!InEntries(n)
  <2>1. n + 1 \in Nat
    OBVIOUS
  <2> QED BY <2>1
<1>5. Reached(m, t)'
  BY <1>1, <1>2, <1>4, MoreTested DEF SearchStands
<1>6. P!InEntries(n)' = P!InEntries(n)
  BY SameSearch
<1>7. CASE located' = name /\ next' = "done"
  <2>1. tried' # <<>> /\ located' = tried'[Len(tried')]
    BY <1>1, <1>2, <1>7 DEF SearchStands
  <2>2. SearchStands'
    BY <1>2, <1>5, <1>7, <2>1 DEF SearchStands
  <2> QED BY <1>3, <2>2 DEF SearchInv
<1>8. CASE next' = then /\ then = "failed"
  <2>1. SearchStands'
    BY <1>2, <1>4, <1>5, <1>8 DEF SearchStands
  <2> QED BY <1>3, <2>1 DEF SearchInv
<1>9. CASE next' = then /\ then = "path"
  <2>1. Along(n, t)'
    BY <1>4, <1>5, <1>6, <1>9 DEF Along
  <2>2. SearchStands'
    BY <1>2, <1>4, <1>5, <1>9, <2>1 DEF SearchStands
  <2> QED BY <1>3, <2>2 DEF SearchInv
<1> QED BY <1>2, <1>7, <1>8, <1>9

LEMMA QuotedStays ==
  ASSUME SearchInv, P!Quoted, names' = names, path' = path, turn' = turn,
         next \notin {"idle", "start", "done"}, NEW name, NEW then \in {"failed", "path"}, P!Test(name, then)
  PROVE  SearchInv'
<1>1. SearchShape'
  BY DEF SearchInv, SearchShape, P!Test
<1> QED BY <1>1, SameSearch DEF SearchInv

LEMMA TurnOf ==
  ASSUME SearchInv, next # "idle"
  PROVE  \E n \in Nat : n = turn /\ n \in 1 .. Len(names) /\ P!file_name = names[n]
<1>1. turn \in 1 .. Len(names) /\ Len(names) \in Nat
  BY DEF SearchInv, SearchShape
<1> QED BY <1>1 DEF P!file_name

LEMMA SearchAbsolute ==
  ASSUME P!PathAssumption, SearchInv, P!Absolute
  PROVE  SearchInv'
<1>1. /\ names' = names /\ path' = path /\ turn' = turn /\ path_val' = path_val /\ next = "absolute"
      /\ P!Test(P!Unquoted(P!file_name), "failed")
  BY DEF P!Absolute
<1>2. CASE P!Quoted
  BY <1>1, <1>2, QuotedStays
<1>3. CASE ~P!Quoted
  <2>1. SearchShape /\ SearchStands
    BY <1>3 DEF SearchInv
  <2>2. PICK n \in Nat : n = turn /\ n \in 1 .. Len(names) /\ P!file_name = names[n]
    BY <1>1, TurnOf
  <2>3. Reached(n, 0) /\ P!Itself(n) /\ ~P!InEntries(n)
    BY <1>1, <2>1, <2>2 DEF SearchStands
  <2>4. <<n, 0>> \in P!Wanted
    BY <2>1, <2>2, <2>3, PlacesWanted
  <2>5. names[n] \in Text /\ P!Name(n) = names[n] /\ (names[n] # <<>> => P!Unquoted(names[n]) = names[n])
    BY <1>3, <2>1, <2>2, PlainName
  <2>6. names[n] # <<>>
    BY <2>3, <2>5 DEF P!Itself, P!HasSeparator, P!IsAbsolute, P!is_absolute_path
  <2>7. P!Meaning(n, 0) = names[n]
    BY <2>5 DEF P!Meaning
  <2>8. Before(n + 1, 0) = Before(n, 0) \cup {<<n, 0>>}
    BY <2>1, <2>3, <2>4, BeforeNext
  <2>9. P!Test(names[n], "failed")
    BY <1>1, <2>2, <2>5, <2>6
  <2>10. PICK s \in Nat : s = 0
    OBVIOUS
  <2> QED BY <1>1, <1>3, <2>2, <2>3, <2>4, <2>5, <2>7, <2>8, <2>9, <2>10, SearchTested
<1> QED BY <1>2, <1>3

LEMMA SearchRelative ==
  ASSUME P!PathAssumption, SearchInv, P!Relative
  PROVE  SearchInv'
<1>1. /\ names' = names /\ path' = path /\ turn' = turn /\ path_val' = path_val /\ next = "relative"
      /\ P!Test(P!file_name, IF path = Null THEN "failed" ELSE "path")
  BY DEF P!Relative
<1>2. CASE P!Quoted
  BY <1>1, <1>2, QuotedStays
<1>3. CASE ~P!Quoted
  <2>1. SearchShape /\ SearchStands
    BY <1>3 DEF SearchInv
  <2>2. PICK n \in Nat : n = turn /\ n \in 1 .. Len(names) /\ P!file_name = names[n]
    BY <1>1, TurnOf
  <2>3. Reached(n, 0) /\ P!Itself(n) /\ names[n] # <<>> /\ ~P!IsAbsolute(n)
    BY <1>1, <2>1, <2>2 DEF SearchStands
  <2>4. <<n, 0>> \in P!Wanted
    BY <2>1, <2>2, <2>3, PlacesWanted
  <2>5. names[n] \in Text /\ P!Meaning(n, 0) = names[n]
    BY <1>3, <2>1, <2>2, PlainName DEF P!Meaning
  <2>6. PICK s \in Nat : s = 0
    OBVIOUS
  <2>7. CASE path = Null
    <3>1. ~P!InEntries(n)
      BY <2>7 DEF P!InEntries
    <3>2. Before(n + 1, 0) = Before(n, 0) \cup {<<n, 0>>}
      BY <2>1, <2>3, <2>4, <3>1, BeforeNext
    <3>3. P!Test(names[n], "failed")
      BY <1>1, <2>2, <2>7
    <3> QED BY <1>1, <1>3, <2>2, <2>3, <2>4, <2>5, <2>6, <3>2, <3>3, SearchTested
  <2>8. CASE path # Null
    <3>1. P!InEntries(n)
      BY <2>3, <2>8 DEF P!InEntries
    <3>2. Before(n, 1) = Before(n, 0) \cup {<<n, 0>>}
      BY <2>1, <2>3, <2>4, BeforeNext
    <3>3. P!Test(names[n], "path")
      BY <1>1, <2>2, <2>8
    <3>5. path_val = SubSeq(path, 1, Len(path)) /\ 1 \in P!Starts(path)
      <4>1. path_val = path /\ path \in Text
        BY <1>1, <2>1, <2>8 DEF SearchShape
      <4> QED BY <4>1, WholeText DEF P!Starts
    <3> QED BY <1>1, <1>3, <2>2, <2>3, <2>4, <2>5, <2>6, <2>8, <3>1, <3>2, <3>3, <3>5, SearchTested
  <2> QED BY <2>7, <2>8
<1> QED BY <1>2, <1>3

LEMMA SearchAlong ==
  ASSUME P!PathAssumption, SearchInv, P!AlongPath
  PROVE  SearchInv'
<1> DEFINE opened == Opened(path_val)
           k == P!EntryLength(opened)
<1>1. /\ names' = names /\ path' = path /\ turn' = turn /\ next = "path"
      /\ path_val' = SubSeq(opened, k + 2, Len(opened))
      /\ P!Test(P!Directory(SubSeq(opened, 1, k)) \o P!file_name, IF k = Len(opened) THEN "failed" ELSE "path")
  BY Zenon DEF P!AlongPath, Opened
<1>2. CASE P!Quoted
  BY <1>1, <1>2, QuotedStays
<1>3. CASE ~P!Quoted
  <2>1. SearchShape /\ SearchStands
    BY <1>3 DEF SearchInv
  <2>2. PICK n \in Nat : n = turn /\ n \in 1 .. Len(names) /\ P!file_name = names[n]
    BY <1>1, TurnOf
  <2>3. PICK s \in Nat : Along(n, s)
    BY <1>1, <2>1, <2>2 DEF SearchStands
  <2>4. /\ path # Null /\ path \in Text /\ s \in P!Starts(path) /\ path_val = SubSeq(path, s, Len(path))
        /\ P!InEntries(n) /\ Reached(n, s) /\ P!Entry(path, s) # <<P!Quote, P!Quote>>
    BY <2>1, <2>3 DEF Along, SearchShape
  <2> DEFINE m == P!EntryLength(path_val)
  <2>5. /\ s \in 1 .. Len(path) + 1 /\ path_val \in Text /\ m \in 0 .. Len(path_val)
        /\ m = Len(path_val) => \A r \in P!Starts(path) : r <= s
        /\ m # Len(path_val) => /\ s + m + 1 \in P!Starts(path)
                                /\ \A r \in P!Starts(path) : s < r => s + m + 1 <= r
                                /\ SubSeq(path_val, m + 2, Len(path_val)) = SubSeq(path, s + m + 1, Len(path))
    <3>1. NextIs(path, s, path_val, m)
      BY <2>4, NextEntry
    <3> QED BY <3>1 DEF NextIs
  <2>6. /\ k = Len(opened) <=> m = Len(path_val)
        /\ SubSeq(opened, k + 2, Len(opened)) = SubSeq(path_val, m + 2, Len(path_val))
        /\ SubSeq(opened, 1, k) = Opened(SubSeq(path_val, 1, m))
    <3>1. OpenedIs(path_val, m, opened, k)
      BY <2>5, OpenedEntry
    <3> QED BY <3>1 DEF OpenedIs
  <2>7. P!Entry(path, s) = SubSeq(path_val, 1, m) /\ P!Entry(path, s) \in Text
    <3>1. P!Entry(path, s) = SubSeq(path_val, 1, m)
      BY <2>4 DEF P!Entry
    <3> HIDE DEF m
    <3> QED BY <2>5, <3>1, FirstPart
  <2>8. P!Directory(SubSeq(opened, 1, k)) = P!Named(P!Entry(path, s)) /\ P!Named(P!Entry(path, s)) \in Text
    BY <2>4, <2>6, <2>7, DirectoryNamed
  <2>9. names[n] \in Text /\ P!Name(n) = names[n]
    BY <1>3, <2>1, <2>2, PlainName
  <2> DEFINE name == P!Named(P!Entry(path, s)) \o names[n]
  <2>10. name \in Text
    BY <2>8, <2>9 DEF Text
  <2>11. s # 0 /\ name = P!Meaning(n, s)
    <3>1. Len(path) \in Nat
      BY <2>4 DEF Text
    <3> QED BY <2>5, <2>9, <3>1 DEF P!Meaning
  <2>12. /\ <<n, s>> \in P!Wanted
         /\ (\A r \in P!Starts(path) : r <= s) => Before(n + 1, 0) = Before(n, s) \cup {<<n, s>>}
         /\ \A t \in P!Starts(path) :
              s < t /\ (\A r \in P!Starts(path) : s < r => t <= r)
                => Before(n, t) = Before(n, s) \cup {<<n, s>>}
    BY <2>1, <2>2, <2>4, BeforeEntry
  <2>13. P!Test(name, IF m = Len(path_val) THEN "failed" ELSE "path")
    BY <1>1, <2>2, <2>6, <2>8
  <2>14. path_val' = SubSeq(path_val, m + 2, Len(path_val))
    BY <1>1, <2>6
  <2> HIDE DEF m, opened, k, name
  <2>15. CASE m = Len(path_val)
    <3>1. P!Test(name, "failed")
      BY <2>13, <2>15
    <3>2. Before(n + 1, 0) = Before(n, s) \cup {<<n, s>>}
      BY <2>5, <2>12, <2>15
    <3> QED BY <1>1, <1>3, <2>2, <2>4, <2>10, <2>11, <2>12, <3>1, <3>2, SearchTested
  <2>16. CASE m # Len(path_val)
    <3>1. P!Test(name, "path")
      BY <2>13, <2>16
    <3>2. PICK t \in Nat : t = s + m + 1 /\ s < t
      <4>1. m \in Nat
        BY <2>5 DEF Text
      <4> QED BY <4>1
    <3>3. t \in P!Starts(path) /\ path_val' = SubSeq(path, t, Len(path))
      BY <2>5, <2>14, <2>16, <3>2
    <3>4. Before(n, t) = Before(n, s) \cup {<<n, s>>}
      BY <2>5, <2>12, <2>16, <3>2, <3>3
    <3> QED BY <1>1, <1>3, <2>2, <2>4, <2>10, <2>11, <2>12, <3>1, <3>3, <3>4, SearchTested
  <2> QED BY <2>15, <2>16
<1> QED BY <1>2, <1>3

LEMMA SearchFailed ==
  ASSUME SearchInv, P!Failed
  PROVE  SearchInv'
<1>1. /\ names' = names /\ path' = path /\ tried' = tried /\ located' = located /\ next = "failed"
      /\ \/ turn = Len(names) /\ next' = "done" /\ turn' = turn /\ path_val' = path_val
         \/ turn # Len(names) /\ next' = "start" /\ turn' = turn + 1
            /\ path_val' = IF path = Null THEN <<>> ELSE path
  BY DEF P!Failed
<1>2. SearchShape
  BY DEF SearchInv
<1>3. PICK n \in Nat : n = turn /\ n \in 1 .. Len(names)
  BY <1>1, TurnOf
<1>4. SearchShape'
  <2>1. Len(names) \in Nat
    BY <1>2 DEF SearchShape
  <2> QED BY <1>1, <1>2, <1>3, <2>1 DEF SearchShape
<1>5. CASE P!Quoted
  BY <1>1, <1>4, <1>5, SameSearch DEF SearchInv
<1>6. CASE ~P!Quoted
  <2>1. Reached(n + 1, 0) /\ n + 1 \in Nat /\ located = Null /\ tried' \in Seq(Text)
    BY <1>1, <1>2, <1>3, <1>6 DEF SearchInv, SearchStands, SearchShape
  <2>2. Reached(n + 1, 0)'
    BY <1>1, <2>1, StillReached
  <2>3. CASE turn = Len(names) /\ next' = "done"
    <3>1. \A v \in P!Wanted : v[1] \in Nat /\ v[1] <= n
      <4>1. \A v \in P!Wanted : v[1] \in Nat /\ v[2] \in Nat /\ v = <<v[1], v[2]>>
        BY <1>2, PlacesWanted
      <4>2. \A v \in P!Wanted : v[1] \in 1 .. Len(names)
        BY <1>2, <4>1, PlacesWanted
      <4> QED BY <1>3, <2>3, <4>1, <4>2
    <3>2. Before(n + 1, 0) = P!Wanted
      BY <3>1 DEF Before, Lower
    <3>3. Len(tried) = P!Cardinality(P!Wanted)
      BY <2>1, <3>2, PathCardinality DEF Reached
    <3>4. P!Wanted' = P!Wanted
      BY <1>1, SameSearch
    <3>5. Len(tried') = P!Cardinality(P!Wanted') /\ located' = Null
      BY <1>1, <2>1, <3>3, <3>4
    <3>6. SearchStands'
      BY <2>1, <2>2, <2>3, <3>5 DEF SearchStands, P!Cardinality
    <3> QED BY <1>4, <3>6 DEF SearchInv
  <2>4. CASE turn # Len(names) /\ next' = "start" /\ turn' = turn + 1
    <3>1. SearchStands'
      BY <1>3, <2>1, <2>2, <2>4 DEF SearchStands
    <3> QED BY <1>4, <3>1 DEF SearchInv
  <2> QED BY <1>1, <2>3, <2>4
<1> QED BY <1>5, <1>6

LEMMA SearchNext ==
  ASSUME P!PathAssumption, SearchInv, [P!Next]_(P!vars)
  PROVE  SearchInv'
<1>1. ASSUME next = "idle", NEW name \in FileNames, NEW val \in Paths \cup {Null},
             P!locate_file(name, val) \/ P!locate_exec(name, val) \/ P!locate_exec_on_path(name, val)
      PROVE  SearchInv'
  <2>1. name \in Text /\ <<name>> \in Seq(Text) /\ Len(<<name>>) > 0
    BY DEF P!PathAssumption, Text
  <2>2. P!Executables(name) \in Seq(Text) /\ Len(P!Executables(name)) > 0
    BY <2>1, ExecutableNames
  <2>3. val # Null => val \in Text /\ \A s \in P!Starts(val) : P!Entry(val, s) # <<P!Quote, P!Quote>>
    BY DEF P!PathAssumption, Text
  <2>4. P!OnPath(val) \in Text /\ \A s \in P!Starts(P!OnPath(val)) : P!Entry(P!OnPath(val), s) # <<P!Quote, P!Quote>>
    BY OnPathSound
  <2>5. CASE P!locate_file(name, val)
    BY <1>1, <2>1, <2>3, <2>5, SearchBegins DEF P!locate_file
  <2>6. CASE P!locate_exec(name, val)
    BY <1>1, <2>2, <2>3, <2>6, SearchBegins DEF P!locate_exec
  <2>7. CASE P!locate_exec_on_path(name, val)
    BY <1>1, <2>2, <2>4, <2>7, SearchBegins DEF P!locate_exec_on_path
  <2> QED BY <1>1, <2>5, <2>6, <2>7
<1>2. CASE UNCHANGED P!vars
  <2>1. /\ names' = names /\ turn' = turn /\ path' = path /\ path_val' = path_val /\ next' = next
        /\ tried' = tried /\ located' = located
    BY <1>2 DEF P!vars
  <2>2. SearchShape'
    BY <2>1 DEF SearchInv, SearchShape
  <2>3. P!Wanted' = P!Wanted /\ P!Quoted' = P!Quoted
    BY <2>1, SameSearch
  <2>4. \A n \in Nat, s \in Nat : Reached(n, s) => Reached(n, s)'
    BY <2>1, StillReached
  <2>5. \A n \in Nat, s \in Nat : Along(n, s) => Along(n, s)'
    BY <2>1, <2>4, SameSearch DEF Along
  <2>6. \A n : P!Itself(n)' = P!Itself(n) /\ P!InEntries(n)' = P!InEntries(n) /\ P!IsAbsolute(n)' = P!IsAbsolute(n)
    BY <2>1, SameSearch
  <2>7. SearchStands => SearchStands'
    BY <2>1, <2>3, <2>4, <2>5, <2>6 DEF SearchStands, P!Cardinality
  <2> QED BY <2>2, <2>3, <2>7 DEF SearchInv
<1> QED BY <1>1, <1>2, SearchStart, SearchAbsolute, SearchRelative, SearchAlong, SearchFailed DEF P!Next

\* With names without quotes, the file located is the first along the path.
THEOREM FirstAlongPathHolds ==
  ASSUME P!PathAssumption
  PROVE  P!Spec => []P!FirstAlongPath
<1>1. P!Init => SearchInv
  BY SearchInit
<1>2. SearchInv /\ [P!Next]_(P!vars) => SearchInv'
  BY SearchNext
<1>3. SearchInv => P!FirstAlongPath
  BY SearchShown
<1> QED BY <1>1, <1>2, <1>3, PTL DEF P!Spec

-----------------------------------------------------------------------------
(***************************************************************************)
(* The packages side by side: a behaviour of SupportPackages is, for the   *)
(* part it runs, one of that package.                                      *)
(***************************************************************************)
LEMMA PartsRun ==
  Packages =>
    /\ [](~(part = "directories")) \/ D!Spec
    /\ [](~(part = "files")) \/ F!Spec
    /\ [](~(part = "locales")) \/ L!Spec
    /\ [](~(part = "environment")) \/ E!Spec
    /\ [](~(part = "pipes")) \/ X!Spec
    /\ [](~(part = "control_c")) \/ C!Spec
    /\ [](~(part = "startup")) \/ R!Spec
    /\ [](~(part = "paths")) \/ P!Spec
<1>1. PackagesInit =>
        /\ part = "directories" => D!Init
        /\ part = "files" => F!Init
        /\ part = "locales" => L!Init
        /\ part = "environment" => E!Init
        /\ part = "pipes" => X!Init
        /\ part = "control_c" => C!Init
        /\ part = "startup" => R!Init
        /\ part = "paths" => P!Init
  BY DEF PackagesInit
<1>2. [PackagesNext]_packagevars =>
        /\ (part = "directories")' <=> part = "directories"
        /\ part = "directories" => [D!Next]_D!vars
        /\ (part = "files")' <=> part = "files"
        /\ part = "files" => [F!Next]_F!vars
        /\ (part = "locales")' <=> part = "locales"
        /\ part = "locales" => [L!Next]_L!vars
        /\ (part = "environment")' <=> part = "environment"
        /\ part = "environment" => [E!Next]_E!vars
        /\ (part = "pipes")' <=> part = "pipes"
        /\ part = "pipes" => [X!Next]_X!vars
        /\ (part = "control_c")' <=> part = "control_c"
        /\ part = "control_c" => [C!Next]_C!vars
        /\ (part = "startup")' <=> part = "startup"
        /\ part = "startup" => [R!Next]_R!vars
        /\ (part = "paths")' <=> part = "paths"
        /\ part = "paths" => [P!Next]_P!vars
  <2> SUFFICES ASSUME [PackagesNext]_packagevars
               PROVE  /\ part' = part
                      /\ part = "directories" => [D!Next]_D!vars
                      /\ part = "files" => [F!Next]_F!vars
                      /\ part = "locales" => [L!Next]_L!vars
                      /\ part = "environment" => [E!Next]_E!vars
                      /\ part = "pipes" => [X!Next]_X!vars
                      /\ part = "control_c" => [C!Next]_C!vars
                      /\ part = "startup" => [R!Next]_R!vars
                      /\ part = "paths" => [P!Next]_P!vars
    OBVIOUS
  <2>1. CASE UNCHANGED packagevars
    BY <2>1 DEF packagevars, directoryvars, filevars, localevars, envvars, pollvars,
       controlvars, startvars, pathvars, D!vars, F!vars, L!vars, E!vars, X!vars, C!vars,
       R!vars, P!vars
  <2>2. CASE Directories
    BY <2>2 DEF Directories
  <2>3. CASE Files
    BY <2>3 DEF Files
  <2>4. CASE EnvironmentVariables
    BY <2>4 DEF EnvironmentVariables
  <2>5. CASE Polling
    BY <2>5 DEF Polling
  <2>6. CASE Interrupting
    BY <2>6 DEF Interrupting
  <2>7. CASE Localization
    BY <2>7 DEF Localization
  <2>8. CASE Starting
    BY <2>8 DEF Starting
  <2>9. CASE Locating
    BY <2>9 DEF Locating
  <2> QED BY <2>1, <2>2, <2>3, <2>4, <2>5, <2>6, <2>7, <2>8, <2>9 DEF PackagesNext
<1> QED BY <1>1, <1>2, PTL DEF Packages, D!Spec, F!Spec, L!Spec, E!Spec, X!Spec, C!Spec,
           R!Spec, P!Spec

(***************************************************************************)
(* No stream or scandir loses a block or a search handle, or frees one     *)
(* twice: NothingLeaked of the checked packages, for any constants.        *)
(***************************************************************************)
THEOREM LeaksNothing ==
  ASSUME DirectoryAssumption
  PROVE  Packages => []NothingLeaked
<1>1. D!Spec => []D!NothingLeaked
  BY NothingLeakedHolds
<1> QED BY <1>1, PartsRun, PTL DEF NothingLeaked

(***************************************************************************)
(* A stream gives no file twice and every file that stayed: GivenOnce of   *)
(* the checked packages.                                                   *)
(***************************************************************************)
THEOREM GivesOnce ==
  ASSUME DirectoryAssumption
  PROVE  Packages => []GivenOnce
<1>1. D!Spec => []D!GivenOnce
  BY GivenOnceHolds
<1> QED BY <1>1, PartsRun, PTL DEF GivenOnce

(***************************************************************************)
(* scandir returns the table it counts, in order and complete: ScanReturns *)
(* of the checked packages.                                                *)
(***************************************************************************)
THEOREM ReturnsScan ==
  ASSUME DirectoryAssumption
  PROVE  Packages => []ScanReturns
<1>1. D!Spec => []D!ScanReturns
  BY ScanReturnsHolds
<1> QED BY <1>1, PartsRun, PTL DEF ScanReturns

(***************************************************************************)
(* One task at a time has the lock file, whatever the others do to other   *)
(* files: LockHeldByOne of the checked packages.                           *)
(***************************************************************************)
THEOREM OneHoldsLock ==
  ASSUME F!NameAssumption
  PROVE  Packages => []LockHeldByOne
<1>1. F!Spec => []F!LockHeldByOne
  BY LockIsExclusive
<1> QED BY <1>1, PartsRun, PTL DEF LockHeldByOne

(***************************************************************************)
(* __gnat_copy_attribs closes the handle that shares nothing on every way  *)
(* out: NobodyLockedOut of the checked packages.                           *)
(***************************************************************************)
THEOREM NobodyKeptOut ==
  ASSUME F!NameAssumption
  PROVE  Packages => []NobodyLockedOut
<1>1. F!Spec => []F!NobodyLockedOut
  BY NobodyStaysLockedOut
<1> QED BY <1>1, PartsRun, PTL DEF NobodyLockedOut

(***************************************************************************)
(* What one cache of attributes tells comes from one stat: the file at one *)
(* moment, a pretended one that was there, or a missing one with an error. *)
(* AnswersOfOneStat of the checked packages.                               *)
(***************************************************************************)
THEOREM AnswersOfAStat ==
  ASSUME F!NameAssumption, F!QuestionAssumption
  PROVE  Packages => []AnswersOfOneStat
<1>1. F!Spec => []F!AnswersOfOneStat
  BY AnswersAgree
<1> QED BY <1>1, PartsRun, PTL DEF AnswersOfOneStat

(***************************************************************************)
(* The codes of the language and the country are those of the parts of the *)
(* locale's name: CodesOfTheParts of the checked packages.                 *)
(***************************************************************************)
THEOREM FindsCodes ==
  ASSUME \A t, u \in LocaleTasks : t = u, L!NameAssumption, L!TableAssumption
  PROVE  Packages => []CodesOfTheParts
<1>1. L!Spec => []L!CodesOfTheParts
  BY CodesOfThePartsHolds
<1> QED BY <1>1, PartsRun, PTL DEF CodesOfTheParts

(***************************************************************************)
(* What __gnat_clearenv had to delete is gone when it returns, but for     *)
(* what others set: ClearDeletes of the checked packages.                  *)
(***************************************************************************)
THEOREM ClearedEnvironment ==
  ASSUME NumVariables \in Nat
  PROVE  Packages => []ClearDeletes
<1>1. E!Spec => []E!ClearDeletes
  BY ClearDeletesHolds
<1> QED BY <1>1, PartsRun, PTL DEF ClearDeletes

(***************************************************************************)
(* __gnat_expect_poll answers what is true of the pipes and the time:      *)
(* PollAnswers of the checked packages.                                    *)
(***************************************************************************)
THEOREM PollsRight ==
  ASSUME num_fd \in Nat, Timeouts \subseteq Int
  PROVE  Packages => []PollAnswers
<1>1. X!Spec => []X!PollAnswers
  BY PollAnswersHolds
<1> QED BY <1>1, PartsRun, PTL DEF PollAnswers

(***************************************************************************)
(* With one task that installs and uninstalls, Control-C calls a handler   *)
(* that is installed: InterruptsHandled of the checked packages.           *)
(***************************************************************************)
THEOREM HandlesInterrupts ==
  ASSUME \A u, v \in Handling : u = v, Nobody \notin Procs
  PROVE  Packages => []InterruptsHandled
<1>1. C!Spec => []C!InterruptsHandled
  BY InterruptsHandledHolds
<1> QED BY <1>1, PartsRun, PTL DEF InterruptsHandled

(***************************************************************************)
(* The run-time's table of arguments: ArgumentsExpanded of the checked     *)
(* packages, with one task.                                                *)
(***************************************************************************)
THEOREM ExpandsArguments ==
  ASSUME \A t, u \in StartTasks : t = u, R!RateAssumption, R!ArgumentAssumption
  PROVE  Packages => []ArgumentsExpanded
<1>1. R!Spec => []R!ArgumentsExpanded
  BY ArgumentsExpandedHolds
<1> QED BY <1>1, PartsRun, PTL DEF ArgumentsExpanded

(***************************************************************************)
(* The critical section and the event of the list of processes:            *)
(* LiveWhileReferenced of the checked packages, with one task.             *)
(***************************************************************************)
THEOREM LivesWhileReferenced ==
  ASSUME StartTasks # {}, \A t, u \in StartTasks : t = u, R!RateAssumption, R!ArgumentAssumption
  PROVE  Packages => []LiveWhileReferenced
<1>1. R!Spec => []R!LiveWhileReferenced
  BY LiveWhileReferencedHolds
<1> QED BY <1>1, PartsRun, PTL DEF LiveWhileReferenced

(***************************************************************************)
(* What is located along a path: FirstAlongPath of the checked packages,   *)
(* for any names and paths the assumption admits.                          *)
(***************************************************************************)
THEOREM LocatesFirst ==
  ASSUME P!PathAssumption
  PROVE  Packages => []FirstAlongPath
<1>1. P!Spec => []P!FirstAlongPath
  BY FirstAlongPathHolds
<1> QED BY <1>1, PartsRun, PTL DEF FirstAlongPath
==============================================================================
