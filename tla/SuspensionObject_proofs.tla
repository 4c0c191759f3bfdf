----------------------- MODULE SuspensionObject_proofs -----------------------
(***************************************************************************)
(* Theorems about SuspensionObject for any sets of waiting, setting and    *)
(* abortable tasks.                                                        *)
(***************************************************************************)
EXTENDS SuspensionObject, TLAPS

\* Tasks suspended with no Set_True executed for them yet.
Pending == Suspended \ granted

\* State and Waiting are never both set.
StateExcludesWaiting == ~(State /\ Waiting)

\* Whoever waits for a Set_True is behind a reset event and a set Waiting.
PendingIsShut ==
  \A t \in Pending : Waiting /\ ~CV /\ pc[t] # "released"

OnePending == \A t, u \in Pending : t = u

GrantedSuspended == granted \subseteq Suspended

(***************************************************************************)
(* The inductive invariant.  NoEarlyReturn alone is not inductive: that a  *)
(* signal cannot reach a task it was not meant for rests on the event      *)
(* being reset, and S.Waiting being set, as long as somebody waits.        *)
(***************************************************************************)
IInv ==
  /\ TypeOK
  /\ StateExcludesWaiting
  /\ PendingIsShut
  /\ OnePending
  /\ GrantedSuspended

\* The initial state satisfies the inductive invariant.
LEMMA InitIInv == Init => IInv
  BY SuspensionAssumption
  DEF Init, IInv, TypeOK, StateExcludesWaiting, PendingIsShut, OnePending,
      GrantedSuspended, Pending, Suspended, PCs, Operations, Tasks

\* Every step keeps the types.
LEMMA TypePreserved == TypeOK /\ [Next]_vars => TypeOK'
<1> SUFFICES ASSUME TypeOK, [Next]_vars PROVE TypeOK'
  OBVIOUS
<1> USE DEF TypeOK
<1>1. CASE UNCHANGED vars
  BY <1>1 DEF vars
<1>2. ASSUME NEW t \in Tasks, NEW o \in Operations, Call(t, o) PROVE TypeOK'
  BY <1>2 DEF Call, PCs
<1>3. ASSUME NEW t \in Tasks, Enter(t) PROVE TypeOK'
  BY <1>3, SuspensionAssumption DEF Enter, PCs
<1>4. ASSUME NEW t \in Tasks, Section(t) PROVE TypeOK'
  <2>0. /\ pc[t] = "inside" /\ op[t] \in Operations /\ L = t
        /\ UNCHANGED <<op, pending>>
    BY <1>4 DEF Section
  \* Each section leaves L and lets nobody in.
  <2> DEFINE Left == /\ State' \in BOOLEAN /\ Waiting' \in BOOLEAN
                     /\ CV' \in BOOLEAN /\ granted' \subseteq Tasks
                     /\ L' = NoTask
                     /\ pc' \in [Tasks -> PCs]
                     /\ \A u \in Tasks : pc'[u] # "inside"
  <2> SUFFICES Left
    BY <2>0, SuspensionAssumption
  <2>a. ASSUME NEW k \in PCs \ {"inside"}, Leave(t, k)
        PROVE  /\ L' = NoTask /\ pc' \in [Tasks -> PCs]
               /\ \A u \in Tasks : pc'[u] # "inside"
    BY <2>0, <2>a DEF Leave
  <2>1. CASE op[t] = "Set_False" /\ Set_False(t)
    BY <2>1, <2>a DEF Set_False, PCs
  <2>2. CASE op[t] = "Set_True" /\ Set_True(t)
    <3>1. CASE Waiting
      <4>1. pc' = Woken(t) /\ L' = NoTask /\ Waiting' = FALSE /\ State' = FALSE
            /\ CV' = TRUE /\ granted' \subseteq Tasks
        BY <2>2, <3>1 DEF Set_True, Resume, SetEvent, Suspended
      <4>2. pc' \in [Tasks -> PCs] /\ \A u \in Tasks : pc'[u] # "inside"
        BY <2>0, <4>1 DEF Woken, PCs
      <4> QED
        BY <4>1, <4>2
    <3>2. CASE ~Waiting
      BY <2>2, <2>a, <3>2 DEF Set_True, Resume, PCs
    <3> QED
      BY <3>1, <3>2
  <2>3. CASE op[t] = "Suspend_Until_True" /\ Suspend_Until_True(t)
    BY <2>3, <2>a DEF Suspend_Until_True, Refuse, Pass, Announce, PCs
  <2> QED
    BY <1>4, <2>0, <2>1, <2>2, <2>3 DEF Section, Operations
<1>5. ASSUME NEW t \in Tasks, Abort_Undefer(t) PROVE TypeOK'
  BY <1>5 DEF Abort_Undefer, AfterUndefer, PCs
<1>6. ASSUME NEW t \in Tasks, WaitForSingleObject(t) PROVE TypeOK'
  BY <1>6 DEF WaitForSingleObject, PCs
<1>7. ASSUME NEW t \in Tasks, Return(t) PROVE TypeOK'
  BY <1>7 DEF Return, PCs
<1>8. ASSUME NEW t \in Tasks, HandleProgramError(t) PROVE TypeOK'
  BY <1>8 DEF HandleProgramError, PCs
<1>9. ASSUME NEW t \in Tasks, AbortTask(t) PROVE TypeOK'
  BY <1>9, SuspensionAssumption DEF AbortTask
<1> QED
  BY <1>1, <1>2, <1>3, <1>4, <1>5, <1>6, <1>7, <1>8, <1>9 DEF Next, Step

\* Every step keeps the inductive invariant.
LEMMA StepIInv == IInv /\ [Next]_vars => IInv'
<1> SUFFICES ASSUME IInv, [Next]_vars PROVE IInv'
  OBVIOUS
<1>0. TypeOK /\ TypeOK'
  BY TypePreserved DEF IInv
<1> DEFINE Rest == /\ StateExcludesWaiting /\ PendingIsShut
                   /\ OnePending /\ GrantedSuspended
<1>R. Rest
  BY DEF IInv
<1> USE DEF StateExcludesWaiting, PendingIsShut, OnePending,
            GrantedSuspended, Pending, Suspended, TypeOK
<1>1. CASE UNCHANGED vars
  BY <1>0, <1>R, <1>1 DEF vars, IInv
<1>2. ASSUME NEW t \in Tasks, NEW o \in Operations, Call(t, o) PROVE Rest'
  BY <1>0, <1>R, <1>2 DEF Call
<1>3. ASSUME NEW t \in Tasks, Enter(t) PROVE Rest'
  BY <1>0, <1>R, <1>3 DEF Enter
<1>4. ASSUME NEW t \in Tasks, Section(t) PROVE Rest'
  <2>1. CASE op[t] = "Set_False" /\ Set_False(t)
    BY <1>0, <1>R, <1>4, <2>1 DEF Section, Set_False, Leave
  <2>2. CASE op[t] = "Set_True" /\ Set_True(t) /\ ~Waiting
    BY <1>0, <1>R, <1>4, <2>2 DEF Section, Set_True, Resume, Leave
  <2>3. CASE op[t] = "Set_True" /\ Set_True(t) /\ Waiting
    <3>1. /\ ~Waiting' /\ ~State'
          /\ granted' = granted \cup Suspended
          /\ pc[t] = "inside"
      BY <1>4, <2>3 DEF Section, Set_True, Resume, SetEvent, Woken
    <3>2. Suspended' = Suspended
      <4>1. \A u \in Tasks : pc'[u] = CASE u = t             -> "return"
                                        [] pc[u] = "blocked" -> "released"
                                        [] OTHER             -> pc[u]
        BY <2>3 DEF Set_True, Resume, SetEvent, Woken
      <4> QED
        BY <3>1, <4>1
    <3>3. Pending' = {}
      BY <3>1, <3>2
    <3> QED
      BY <1>R, <3>1, <3>2, <3>3
  <2>4. CASE op[t] = "Suspend_Until_True" /\ Suspend_Until_True(t)
    <3>1. pc[t] = "inside" /\ UNCHANGED op
      BY <1>4 DEF Section
    <3>2. CASE Waiting
      BY <1>0, <1>R, <2>4, <3>1, <3>2
      DEF Suspend_Until_True, Refuse, Pass, Announce, Leave
    <3>3. CASE ~Waiting /\ State
      BY <1>0, <1>R, <2>4, <3>1, <3>3
      DEF Suspend_Until_True, Refuse, Pass, Announce, Leave
    <3>4. CASE ~Waiting /\ ~State
      <4>1. /\ Waiting' /\ ~CV' /\ ~State' /\ granted' = granted
            /\ pc' = [pc EXCEPT ![t] = "wait"]
        BY <2>4, <3>4 DEF Suspend_Until_True, Refuse, Pass, Announce, Leave
      <4>2. Suspended \ granted = {}
        BY <1>R, <3>4
      <4>3. Suspended' = Suspended \cup {t} /\ t \notin Suspended
        BY <1>0, <3>1, <4>1
      <4>4. Pending' = {t}
        BY <1>R, <4>1, <4>2, <4>3
      <4>5. pc'[t] = "wait"
        BY <1>0, <4>1
      <4> QED
        BY <1>R, <4>1, <4>3, <4>4, <4>5
    <3> QED
      BY <3>2, <3>3, <3>4
  <2> QED
    BY <1>0, <1>4, <2>1, <2>2, <2>3, <2>4 DEF Section, Operations
<1>5. ASSUME NEW t \in Tasks, Abort_Undefer(t) PROVE Rest'
  <2>1. CASE t \in pending
    <3>1. pc' = [pc EXCEPT ![t] = "aborted"] /\ granted' = granted \ {t}
      BY <1>5, <2>1 DEF Abort_Undefer
    <3>2. Suspended' = Suspended \ {t}
      BY <1>0, <3>1
    <3> QED
      BY <1>0, <1>5, <1>R, <3>1, <3>2 DEF Abort_Undefer
  <2>2. CASE t \notin pending
    <3>1. PICK k \in {"idle", "failed", "sleep"} :
            pc' = [pc EXCEPT ![t] = k] /\ (k = "sleep" <=> pc[t] = "wait")
      BY <1>5, <2>2 DEF Abort_Undefer, AfterUndefer
    <3>2. Suspended' = Suspended /\ granted' = granted
      BY <1>0, <1>5, <2>2, <3>1 DEF Abort_Undefer, AfterUndefer
    <3>3. \A u \in Tasks : pc'[u] = "released" => pc[u] = "released"
      BY <1>0, <3>1
    <3> QED
      BY <1>0, <1>5, <1>R, <3>2, <3>3 DEF Abort_Undefer
  <2> QED
    BY <2>1, <2>2
<1>6. ASSUME NEW t \in Tasks, WaitForSingleObject(t) PROVE Rest'
  BY <1>0, <1>R, <1>6 DEF WaitForSingleObject
<1>7. ASSUME NEW t \in Tasks, Return(t) PROVE Rest'
  BY <1>0, <1>R, <1>7 DEF Return
<1>8. ASSUME NEW t \in Tasks, HandleProgramError(t) PROVE Rest'
  BY <1>0, <1>R, <1>8 DEF HandleProgramError
<1>9. ASSUME NEW t \in Tasks, AbortTask(t) PROVE Rest'
  BY <1>0, <1>R, <1>9 DEF AbortTask
<1> QED
  BY <1>0, <1>1, <1>2, <1>3, <1>4, <1>5, <1>6, <1>7, <1>8, <1>9
  DEF IInv, Next, Step

\* The inductive invariant holds in every reachable state.
LEMMA Invariance == Spec => []IInv
  BY InitIInv, StepIInv, PTL DEF Spec

-----------------------------------------------------------------------------
(* Every variable keeps its type. *)
THEOREM TypeCorrect == Spec => []TypeOK
<1>1. IInv => TypeOK
  BY DEF IInv
<1> QED
  BY <1>1, Invariance, PTL

(* Suspend_Until_True never returns from its wait without a Set_True, with  *)
(* any number of waiters, setters and aborts.                              *)
THEOREM NoEarlyReturnHolds == Spec => []NoEarlyReturn
<1>1. IInv => NoEarlyReturn
  BY DEF IInv, PendingIsShut, Pending, Suspended, NoEarlyReturn
<1> QED
  BY <1>1, Invariance, PTL

(* At most one task waits for a Set_True, and the object is then closed.   *)
THEOREM OneWaiterAndClosedHolds == Spec => []OneWaiterAndClosed
<1>1. IInv => OneWaiterAndClosed
  BY DEF IInv, StateExcludesWaiting, PendingIsShut, OnePending, Pending,
         OneWaiterAndClosed
<1> QED
  BY <1>1, Invariance, PTL

-----------------------------------------------------------------------------
(***************************************************************************)
(* With a single waiting task.                                             *)
(***************************************************************************)
\* Only waiters get into Suspend_Until_True.
WaitersOnly ==
  \A t \in Tasks :
    \/ pc[t] \in {"entering", "inside"} /\ op[t] = "Suspend_Until_True"
    \/ t \in Suspended
    => t \in Waiters

LEMMA WaitersOnlyInvariant == Spec => []WaitersOnly
<1> USE DEF WaitersOnly, Suspended
<1>1. Init => WaitersOnly
  BY DEF Init
<1>2. IInv /\ WaitersOnly /\ [Next]_vars => WaitersOnly'
  <2> SUFFICES ASSUME TypeOK, WaitersOnly, [Next]_vars PROVE WaitersOnly'
    BY DEF IInv
  <2> USE DEF TypeOK
  <2>1. CASE UNCHANGED vars
    BY <2>1 DEF vars
  <2>2. ASSUME NEW t \in Tasks, NEW o \in Operations, Call(t, o)
        PROVE WaitersOnly'
    BY <2>2 DEF Call, MayCall
  <2>3. ASSUME NEW t \in Tasks, Enter(t) PROVE WaitersOnly'
    BY <2>3 DEF Enter
  <2>4. ASSUME NEW t \in Tasks, Section(t) PROVE WaitersOnly'
    <3>1. CASE op[t] = "Set_False" /\ Set_False(t)
      BY <2>4, <3>1 DEF Section, Set_False, Leave
    <3>2. CASE op[t] = "Set_True" /\ Set_True(t)
      <4>1. CASE ~Waiting
        BY <2>4, <3>2, <4>1 DEF Section, Set_True, Resume, Leave
      <4>2. CASE Waiting
        <5>1. \A u \in Tasks : pc'[u] = CASE u = t            -> "return"
                                         [] pc[u] = "blocked" -> "released"
                                         [] OTHER             -> pc[u]
          BY <3>2, <4>2 DEF Set_True, Resume, SetEvent, Woken
        <5>2. UNCHANGED op /\ pc[t] = "inside"
          BY <2>4 DEF Section
        <5> QED
          BY <5>1, <5>2
      <4> QED
        BY <4>1, <4>2
    <3>3. CASE op[t] = "Suspend_Until_True" /\ Suspend_Until_True(t)
      <4>1. UNCHANGED op /\ pc[t] = "inside" /\ t \in Waiters
        BY <2>4, <3>3 DEF Section
      <4>2. PICK k \in {"return", "raise", "wait"} : pc' = [pc EXCEPT ![t] = k]
        BY <3>3 DEF Suspend_Until_True, Refuse, Pass, Announce, Leave
      <4> QED
        BY <4>1, <4>2
    <3> QED
      BY <2>4, <3>1, <3>2, <3>3 DEF Section, Operations
  <2>5. ASSUME NEW t \in Tasks, Abort_Undefer(t) PROVE WaitersOnly'
    BY <2>5 DEF Abort_Undefer, AfterUndefer
  <2>6. ASSUME NEW t \in Tasks, WaitForSingleObject(t) PROVE WaitersOnly'
    BY <2>6 DEF WaitForSingleObject
  <2>7. ASSUME NEW t \in Tasks, Return(t) PROVE WaitersOnly'
    BY <2>7 DEF Return
  <2>8. ASSUME NEW t \in Tasks, HandleProgramError(t) PROVE WaitersOnly'
    BY <2>8 DEF HandleProgramError
  <2>9. ASSUME NEW t \in Tasks, AbortTask(t) PROVE WaitersOnly'
    BY <2>9 DEF AbortTask
  <2> QED
    BY <2>1, <2>2, <2>3, <2>4, <2>5, <2>6, <2>7, <2>8, <2>9 DEF Next, Step
<1> QED
  BY <1>1, <1>2, Invariance, PTL DEF Spec

(* When a single task waits on the object, a task that was released is     *)
(* never stranded behind a reset event, whoever is aborted meanwhile.      *)
THEOREM ReleasedNotStrandedHolds ==
  ASSUME \A v, w \in Waiters : v = w
  PROVE  Spec => []ReleasedNotStranded
<1>1. Init => ReleasedNotStranded
  BY DEF Init, ReleasedNotStranded
<1>2. IInv /\ WaitersOnly /\ ReleasedNotStranded /\ [Next]_vars
      => ReleasedNotStranded'
  <2> SUFFICES ASSUME IInv, WaitersOnly, ReleasedNotStranded, [Next]_vars
               PROVE ReleasedNotStranded'
    OBVIOUS
  <2>0. TypeOK /\ granted \subseteq Suspended
    BY DEF IInv, GrantedSuspended
  <2> USE DEF TypeOK, ReleasedNotStranded
  <2>1. CASE UNCHANGED vars
    BY <2>1 DEF vars
  <2>2. ASSUME NEW t \in Tasks, NEW o \in Operations, Call(t, o)
        PROVE ReleasedNotStranded'
    BY <2>0, <2>2 DEF Call
  <2>3. ASSUME NEW t \in Tasks, Enter(t) PROVE ReleasedNotStranded'
    BY <2>0, <2>3 DEF Enter
  <2>4. ASSUME NEW t \in Tasks, Section(t) PROVE ReleasedNotStranded'
    <3>1. CASE op[t] = "Set_False" /\ Set_False(t)
      BY <2>0, <2>4, <3>1 DEF Section, Set_False, Leave
    <3>2. CASE op[t] = "Set_True" /\ Set_True(t) /\ ~Waiting
      BY <2>0, <2>4, <3>2 DEF Section, Set_True, Resume, Leave
    <3>3. CASE op[t] = "Set_True" /\ Set_True(t) /\ Waiting
      <4>1. CV' /\ granted' \subseteq Tasks
        BY <2>0, <3>3 DEF Set_True, Resume, SetEvent, Woken, Suspended
      <4>2. \A u \in Tasks : pc'[u] # "blocked"
        BY <2>0, <3>3 DEF Set_True, Resume, SetEvent, Woken
      <4> QED
        BY <4>1, <4>2
    <3>4. CASE op[t] = "Suspend_Until_True" /\ Suspend_Until_True(t)
      <4>1. t \in Waiters /\ pc[t] = "inside" /\ t \notin Suspended
        BY <2>4, <3>4 DEF Section, WaitersOnly, Suspended
      <4>2. Suspended \subseteq Waiters
        BY DEF WaitersOnly, Suspended
      <4>3. granted = {} /\ granted' = granted
        BY <2>0, <3>4, <4>1, <4>2 DEF Suspend_Until_True, Refuse, Pass, Announce
      <4> QED
        BY <4>3
    <3> QED
      BY <2>0, <2>4, <3>1, <3>2, <3>3, <3>4 DEF Section, Operations
  <2>5. ASSUME NEW t \in Tasks, Abort_Undefer(t) PROVE ReleasedNotStranded'
    BY <2>0, <2>5 DEF Abort_Undefer, AfterUndefer
  <2>6. ASSUME NEW t \in Tasks, WaitForSingleObject(t)
        PROVE ReleasedNotStranded'
    BY <2>0, <2>6 DEF WaitForSingleObject
  <2>7. ASSUME NEW t \in Tasks, Return(t) PROVE ReleasedNotStranded'
    BY <2>0, <2>7 DEF Return
  <2>8. ASSUME NEW t \in Tasks, HandleProgramError(t)
        PROVE ReleasedNotStranded'
    BY <2>0, <2>8 DEF HandleProgramError
  <2>9. ASSUME NEW t \in Tasks, AbortTask(t) PROVE ReleasedNotStranded'
    BY <2>0, <2>9 DEF AbortTask
  <2> QED
    BY <2>1, <2>2, <2>3, <2>4, <2>5, <2>6, <2>7, <2>8, <2>9 DEF Next, Step
<1> QED
  BY <1>1, <1>2, Invariance, WaitersOnlyInvariant, PTL DEF Spec

-----------------------------------------------------------------------------
(***************************************************************************)
(* The contract.                                                           *)
(***************************************************************************)
LEMMA NobodyAborted ==
  ASSUME Abortable = {}
  PROVE  Spec => [](pending = {})
<1>1. Init => pending = {}
  BY DEF Init
<1>2. pending = {} /\ [Next]_vars => (pending = {})'
  BY DEF Next, vars, Step, Call, Enter, Section, Abort_Undefer,
         WaitForSingleObject, Return, HandleProgramError, AbortTask
<1> QED
  BY <1>1, <1>2, PTL DEF Spec

\* Every step of the code is a step of the contract or leaves it unchanged.
LEMMA StepImplementsContract ==
  IInv /\ pending = {} /\ [Next]_vars => [Contract!Next]_(Contract!vars)
<1> SUFFICES ASSUME IInv, pending = {}, [Next]_vars
             PROVE  [Contract!Next]_(Contract!vars)
  OBVIOUS
<1>0. TypeOK /\ GrantedSuspended /\ StateExcludesWaiting
  BY DEF IInv
<1> USE DEF TypeOK, Suspended, Contract!vars
<1>1. CASE UNCHANGED vars
  BY <1>1 DEF vars
<1>2. ASSUME NEW t \in Tasks, NEW o \in Operations, Call(t, o)
      PROVE UNCHANGED Contract!vars
  BY <1>0, <1>2 DEF Call
<1>3. ASSUME NEW t \in Tasks, Enter(t) PROVE UNCHANGED Contract!vars
  BY <1>0, <1>3 DEF Enter
<1>4. ASSUME NEW t \in Tasks, Section(t)
      PROVE  [Contract!Next]_(Contract!vars)
  <2>0. pc[t] = "inside" /\ op[t] \in Operations
    BY <1>0, <1>4 DEF Section
  <2>1. CASE op[t] = "Set_False" /\ Set_False(t)
    <3>1. Contract!SetFalse
      BY <1>0, <2>0, <2>1 DEF Set_False, Leave, Contract!SetFalse
    <3> QED
      BY <3>1 DEF Contract!Next
  <2>2. CASE op[t] = "Set_True" /\ Set_True(t) /\ ~Waiting
    <3>1. Suspended \ granted = {}
      BY <2>2 DEF IInv, PendingIsShut, Pending
    <3>2. Contract!SetTrue
      BY <1>0, <2>0, <2>2, <3>1 DEF Set_True, Resume, Leave, Contract!SetTrue
    <3> QED
      BY <3>2 DEF Contract!Next
  <2>3. CASE op[t] = "Set_True" /\ Set_True(t) /\ Waiting
    <3>1. /\ State' = State
          /\ granted' = granted \cup (Suspended \ granted)
      BY <1>0, <2>3 DEF Set_True, Resume, SetEvent, Woken, StateExcludesWaiting
    <3>2. Suspended' = Suspended
      <4>1. \A u \in Tasks : pc'[u] = CASE u = t            -> "return"
                                       [] pc[u] = "blocked" -> "released"
                                       [] OTHER             -> pc[u]
        BY <2>3 DEF Set_True, Resume, SetEvent, Woken
      <4> QED
        BY <2>0, <4>1
    <3>3. (Suspended \ granted)' = {}
      BY <3>1, <3>2
    <3>4. CASE Suspended \ granted = {}
      BY <3>1, <3>3, <3>4
    <3>5. CASE Suspended \ granted # {}
      <4>1. Contract!SetTrue
        BY <3>1, <3>3, <3>5 DEF Contract!SetTrue
      <4> QED
        BY <4>1 DEF Contract!Next
    <3> QED
      BY <3>4, <3>5
  <2>4. CASE op[t] = "Suspend_Until_True" /\ Suspend_Until_True(t)
    <3>1. CASE Waiting
      BY <1>0, <2>0, <2>4, <3>1
      DEF Suspend_Until_True, Refuse, Pass, Announce, Leave
    <3>2. CASE ~Waiting /\ State
      <4>1. Contract!Pass
        BY <1>0, <2>0, <2>4, <3>2
        DEF Suspend_Until_True, Refuse, Pass, Announce, Leave, Contract!Pass
      <4> QED
        BY <4>1 DEF Contract!Next
    <3>3. CASE ~Waiting /\ ~State
      <4>1. /\ UNCHANGED <<State, granted>>
            /\ pc' = [pc EXCEPT ![t] = "wait"]
        BY <2>4, <3>3 DEF Suspend_Until_True, Refuse, Pass, Announce, Leave
      <4>2. Suspended \ granted = {}
        BY <3>3 DEF IInv, PendingIsShut, Pending
      <4>3. t \notin granted
        BY <1>0, <2>0 DEF GrantedSuspended
      <4>4. Suspended' = Suspended \cup {t}
        BY <1>0, <4>1
      <4>5. Contract!Suspend(t)
        BY <3>3, <4>1, <4>2, <4>3, <4>4 DEF Contract!Suspend
      <4> QED
        BY <4>5 DEF Contract!Next
    <3> QED
      BY <3>1, <3>2, <3>3
  <2> QED
    BY <1>4, <2>0, <2>1, <2>2, <2>3, <2>4 DEF Section, Operations
<1>5. ASSUME NEW t \in Tasks, Abort_Undefer(t) PROVE UNCHANGED Contract!vars
  <2>1. PICK k \in {"idle", "failed", "sleep"} :
          pc' = [pc EXCEPT ![t] = k] /\ (k = "sleep" <=> pc[t] = "wait")
    BY <1>5 DEF Abort_Undefer, AfterUndefer
  <2>2. Suspended' = Suspended
    BY <1>0, <1>5, <2>1 DEF Abort_Undefer, AfterUndefer
  <2> QED
    BY <1>5, <2>2 DEF Abort_Undefer
<1>6. ASSUME NEW t \in Tasks, WaitForSingleObject(t)
      PROVE UNCHANGED Contract!vars
  BY <1>0, <1>6 DEF WaitForSingleObject
<1>7. ASSUME NEW t \in Tasks, Return(t) PROVE Contract!Next
  <2>1. t \in granted /\ pc[t] = "released"
    BY <1>7 DEF Return, IInv, PendingIsShut, Pending
  <2>2. Suspended' = Suspended \ {t} /\ granted' = granted \ {t}
    BY <1>0, <1>7 DEF Return
  <2>3. Contract!Return(t)
    BY <1>7, <2>1, <2>2 DEF Return, Contract!Return
  <2> QED
    BY <2>3 DEF Contract!Next
<1>8. ASSUME NEW t \in Tasks, HandleProgramError(t)
      PROVE UNCHANGED Contract!vars
  BY <1>0, <1>8 DEF HandleProgramError
<1>9. ASSUME NEW t \in Tasks, AbortTask(t) PROVE UNCHANGED Contract!vars
  BY <1>0, <1>9 DEF AbortTask
<1> QED
  BY <1>1, <1>2, <1>3, <1>4, <1>5, <1>6, <1>7, <1>8, <1>9 DEF Next, Step

(* As long as nobody is aborted, every behaviour of the code is one the    *)
(* package specification allows.                                           *)
THEOREM ContractImplemented ==
  ASSUME Abortable = {}
  PROVE  Spec => ImplementsContract
<1>1. Init => Contract!Init
  BY DEF Init, Contract!Init, Suspended
<1> QED
  BY <1>1, StepImplementsContract, Invariance, NobodyAborted, PTL
  DEF Spec, ImplementsContract, Contract!Spec
=============================================================================
