-------------------------- MODULE SuspensionObject --------------------------
(***************************************************************************)
(* A suspension object of Ada.Synchronous_Task_Control as the Windows body *)
(* of System.Task_Primitives.Operations implements it (s-taprop.adb): two  *)
(* flags, a critical section L and a manual-reset event CV.                *)
(*                                                                         *)
(* The flags are only written inside L, and each protected section makes   *)
(* at most one event call, so a section is one action (Section) between    *)
(* EnterCriticalSection and what follows LeaveCriticalSection.  What is    *)
(* NOT inside L is kept as separate steps: Abort_Undefer, which may raise  *)
(* Abort_Signal, and WaitForSingleObject.                                  *)
(***************************************************************************)
EXTENDS FiniteSets

CONSTANTS
  Waiters,    \* tasks that call Suspend_Until_True
  Setters,    \* tasks that call Set_True and Set_False
  Abortable,  \* tasks another task may abort
  NoTask      \* owner of a critical section nobody is in

Tasks == Waiters \cup Setters

ASSUME SuspensionAssumption == NoTask \notin Tasks /\ Abortable \subseteq Tasks

VARIABLES
  State,      \* S.State
  Waiting,    \* S.Waiting
  L,          \* the thread inside S.L, or NoTask
  CV,         \* S.CV is signalled
  pc,         \* where each task is
  op,         \* the operation each task has in progress
  pending,    \* tasks with an abort pending (Pending_ATC_Level = 0)
  granted     \* history: tasks whose suspension some Set_True has ended

vars == <<State, Waiting, L, CV, pc, op, pending, granted>>

Operations == {"Suspend_Until_True", "Set_True", "Set_False"}

(***************************************************************************)
(* "return", "raise" and "wait" are the three continuations after          *)
(* LeaveCriticalSection, with Abort_Undefer still to run; "sleep" is just  *)
(* before WaitForSingleObject, "blocked" inside it, "released" after it.   *)
(***************************************************************************)
PCs == {"idle", "entering", "inside", "return", "raise", "wait", "sleep",
        "blocked", "released", "failed", "aborted"}

\* Tasks that have announced a wait (S.Waiting) and not come back from it.
Suspended == {t \in Tasks : pc[t] \in {"wait", "sleep", "blocked", "released"}}

Init ==
  /\ State = FALSE
  /\ Waiting = FALSE
  /\ L = NoTask
  /\ CV = FALSE
  /\ pc = [t \in Tasks |-> "idle"]
  /\ op = [t \in Tasks |-> "Set_False"]
  /\ pending = {}
  /\ granted = {}

MayCall(t, o) == t \in (IF o = "Suspend_Until_True" THEN Waiters ELSE Setters)

\* Abort_Defer, on the way into any of the operations.
Call(t, o) ==
  /\ pc[t] = "idle"
  /\ MayCall(t, o)
  /\ pc' = [pc EXCEPT ![t] = "entering"]
  /\ op' = [op EXCEPT ![t] = o]
  /\ UNCHANGED <<State, Waiting, L, CV, pending, granted>>

Enter(t) ==
  /\ pc[t] = "entering"
  /\ L = NoTask
  /\ L' = t
  /\ pc' = [pc EXCEPT ![t] = "inside"]
  /\ UNCHANGED <<State, Waiting, CV, op, pending, granted>>

\* LeaveCriticalSection, and the continuation k the section has chosen.
Leave(t, k) ==
  /\ L' = NoTask
  /\ pc' = [pc EXCEPT ![t] = k]

Set_False(t) ==
  /\ State' = FALSE
  /\ Leave(t, "return")
  /\ UNCHANGED <<Waiting, CV, granted>>

\* After SetEvent every wait in progress is over.
Woken(t) == [u \in Tasks |-> CASE u = t            -> "return"
                              [] pc[u] = "blocked" -> "released"
                              [] OTHER             -> pc[u]]

\* Mutant: PulseEvent, which only reaches a task already in its wait.
PulseEvent(t) == CV' = FALSE /\ pc' = Woken(t)

\* SetEvent on a manual-reset event; t goes on after LeaveCriticalSection.
SetEvent(t) == CV' = TRUE /\ pc' = Woken(t)

\* Mutant: the Set_True that resumes a waiter also leaves the object open.
Resume_Opens(t) ==
  /\ Waiting
  /\ Waiting' = FALSE
  /\ State' = TRUE
  /\ SetEvent(t)
  /\ L' = NoTask
  /\ granted' = granted \cup Suspended

\* Set_True when a task is waiting.
Resume(t) ==
  /\ Waiting
  /\ Waiting' = FALSE
  /\ State' = FALSE
  /\ SetEvent(t)
  /\ L' = NoTask
  /\ granted' = granted \cup Suspended

Set_True(t) ==
  \/ Resume(t)
  \/ /\ ~Waiting
     /\ State' = TRUE
     /\ Leave(t, "return")
     /\ UNCHANGED <<Waiting, CV, granted>>

\* Suspend_Until_True with State set.
Pass(t) ==
  /\ ~Waiting /\ State
  /\ State' = FALSE
  /\ Leave(t, "return")
  /\ UNCHANGED <<Waiting, CV, granted>>

\* Suspend_Until_True, with the event reset, before its wait.
Announce(t) ==
  /\ ~State
  /\ Waiting' = TRUE
  /\ CV' = FALSE
  /\ Leave(t, "wait")
  /\ UNCHANGED <<State, granted>>

\* Mutant: a task that finds another waiting waits too.
Refuse_Waits(t) == Waiting /\ Announce(t)

\* Suspend_Until_True while another task waits: Program_Error.
Refuse(t) ==
  /\ Waiting
  /\ Leave(t, "raise")
  /\ UNCHANGED <<State, Waiting, CV, granted>>

Suspend_Until_True(t) ==
  \/ Refuse(t)
  \/ Pass(t)
  \/ ~Waiting /\ Announce(t)

Section(t) ==
  /\ pc[t] = "inside"
  /\ CASE op[t] = "Set_False"          -> Set_False(t)
       [] op[t] = "Set_True"           -> Set_True(t)
       [] op[t] = "Suspend_Until_True" -> Suspend_Until_True(t)
  /\ UNCHANGED <<op, pending>>

(***************************************************************************)
(* Abort_Undefer brings Deferral_Level back to 0 and raises Abort_Signal   *)
(* if an abort is pending: the rest of the operation is abandoned.         *)
(***************************************************************************)
AfterUndefer == [return |-> "idle", raise |-> "failed", wait |-> "sleep"]

Abort_Undefer(t) ==
  /\ pc[t] \in DOMAIN AfterUndefer
  /\ \/ /\ t \in pending
        /\ pc' = [pc EXCEPT ![t] = "aborted"]
        /\ granted' = granted \ {t}
     \/ /\ t \notin pending
        /\ pc' = [pc EXCEPT ![t] = AfterUndefer[pc[t]]]
        /\ UNCHANGED granted
  /\ UNCHANGED <<State, Waiting, L, CV, op, pending>>

\* Mutant: the event is reset when the wait starts, outside the lock.
ResetThenWait(t) ==
  /\ pc[t] = "sleep"
  /\ CV' = FALSE
  /\ pc' = [pc EXCEPT ![t] = "blocked"]
  /\ UNCHANGED <<State, Waiting, L, op, pending, granted>>

\* WaitForSingleObject (S.CV, Wait_Infinite).
WaitForSingleObject(t) ==
  /\ pc[t] = "sleep"
  /\ pc' = [pc EXCEPT ![t] = IF CV THEN "released" ELSE "blocked"]
  /\ UNCHANGED <<State, Waiting, L, CV, op, pending, granted>>

Return(t) ==
  /\ pc[t] = "released"
  /\ pc' = [pc EXCEPT ![t] = "idle"]
  /\ granted' = granted \ {t}
  /\ UNCHANGED <<State, Waiting, L, CV, op, pending>>

\* The caller handles the Program_Error of Suspend_Until_True.
HandleProgramError(t) ==
  /\ pc[t] = "failed"
  /\ pc' = [pc EXCEPT ![t] = "idle"]
  /\ UNCHANGED <<State, Waiting, L, CV, op, pending, granted>>

(***************************************************************************)
(* Another task aborts t.  t is Runnable for the run time, so              *)
(* Locked_Abort_To_Level only records the abort, and Abort_Task does       *)
(* nothing on this platform: t finds out at its next Abort_Undefer.        *)
(***************************************************************************)
AbortTask(t) ==
  /\ t \in Abortable \ pending
  /\ pc[t] # "aborted"
  /\ pending' = pending \cup {t}
  /\ UNCHANGED <<State, Waiting, L, CV, pc, op, granted>>

\* What the thread of t does once it has called an operation.
Step(t) ==
  \/ Enter(t)
  \/ Section(t)
  \/ Abort_Undefer(t)
  \/ WaitForSingleObject(t)
  \/ Return(t)
  \/ HandleProgramError(t)

Next ==
  \E t \in Tasks :
    \/ \E o \in Operations : Call(t, o)
    \/ Step(t)
    \/ AbortTask(t)

Spec == Init /\ [][Next]_vars

\* The scheduler runs every thread that can run; nobody is forced to call.
FairSpec == Spec /\ \A t \in Tasks : WF_vars(Step(t))

-----------------------------------------------------------------------------
TypeOK ==
  /\ State \in BOOLEAN
  /\ Waiting \in BOOLEAN
  /\ L \in Tasks \cup {NoTask}
  /\ CV \in BOOLEAN
  /\ pc \in [Tasks -> PCs]
  /\ op \in [Tasks -> Operations]
  /\ pending \subseteq Tasks
  /\ granted \subseteq Tasks
  /\ \A t \in Tasks : pc[t] = "inside" <=> L = t

(***************************************************************************)
(* Suspend_Until_True never comes back from its wait unless a Set_True was *)
(* executed while it was suspended (s-taprop.ads:501-505): a signal left   *)
(* in the event by an earlier Set_True wakes nobody.                       *)
(***************************************************************************)
NoEarlyReturn == \A t \in Tasks : pc[t] = "released" => t \in granted

(***************************************************************************)
(* A task whose suspension a Set_True has ended is on its way out of       *)
(* Suspend_Until_True: it is never back in a wait on a reset event         *)
(* ("If a task were suspended on the protected object then this task is    *)
(* released", s-taprop.ads:498).                                           *)
(***************************************************************************)
ReleasedNotStranded ==
  \A t \in granted : /\ pc[t] # "blocked"
                     /\ pc[t] \in {"wait", "sleep"} => CV

(***************************************************************************)
(* Suspend_Until_True raises Program_Error only when another task is       *)
(* waiting on the object at that moment (s-taprop.ads:505).                *)
(***************************************************************************)
ProgramErrorJustified ==
  [][\A t \in Tasks :
       pc[t] = "inside" /\ pc'[t] = "raise" => Suspended \ granted # {}]_vars

(***************************************************************************)
(* At most one task at a time is suspended without a Set_True having been  *)
(* executed for it, and then the object is closed: a Set_True is never     *)
(* kept in State while somebody waits for it (ARM D.10(9), s-taprop.adb    *)
(* Set_True).                                                              *)
(***************************************************************************)
OneWaiterAndClosed ==
  /\ \A t, u \in Suspended \ granted : t = u
  /\ Suspended \ granted # {} => Waiting /\ ~State

\* Liveness: a task that was resumed gets back to its caller.
ResumedReturns == \A t \in Tasks : t \in granted ~> t \notin granted

-----------------------------------------------------------------------------
(***************************************************************************)
(* The contract of the package specification, implemented: the suspended   *)
(* tasks are those that have announced a wait no Set_True has ended, and   *)
(* the steps the contract does not see are stuttering.                     *)
(***************************************************************************)
Contract == INSTANCE SuspensionContract
              WITH open <- State, suspended <- Suspended \ granted,
                   released <- granted

\* Every behaviour, with any number of waiters, is one the contract allows.
ImplementsContract == Contract!Spec

\* With one waiter the code also keeps the promise that a released task
\* returns: the contract's fairness is implemented too.
ImplementsFairContract == Contract!FairSpec
=============================================================================
