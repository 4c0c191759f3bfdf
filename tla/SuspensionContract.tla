------------------------- MODULE SuspensionContract -------------------------
(***************************************************************************)
(* What s-taprop.ads (lines 490-506) promises of a suspension object,      *)
(* without locks, events or threads: a state that is open or closed, at    *)
(* most one task suspended on it, and tasks already released by a Set_True *)
(* that have not returned yet.                                             *)
(***************************************************************************)
CONSTANTS Tasks   \* the tasks that use the object

VARIABLES
  open,       \* the state of the suspension object
  suspended,  \* tasks suspended on the object
  released    \* tasks released, on their way out

vars == <<open, suspended, released>>

Init == open = FALSE /\ suspended = {} /\ released = {}

\* "Set the state to True.  If a task were suspended then this task is
\* released (and the state of the suspension object remains set to False)."
SetTrue ==
  IF suspended = {}
    THEN open' = TRUE /\ UNCHANGED <<suspended, released>>
    ELSE /\ released' = released \cup suspended
         /\ suspended' = {}
         /\ UNCHANGED open

SetFalse == open' = FALSE /\ UNCHANGED <<suspended, released>>

\* "If the state is True then the calling task continues its execution, and
\* the state is set to False."
Pass == open /\ open' = FALSE /\ UNCHANGED <<suspended, released>>

\* "If the state is False then the task is suspended until a Set_True."
Suspend(t) ==
  /\ ~open
  /\ suspended = {}
  /\ t \notin released
  /\ suspended' = {t}
  /\ UNCHANGED <<open, released>>

Return(t) ==
  /\ t \in released
  /\ released' = released \ {t}
  /\ UNCHANGED <<open, suspended>>

Next == SetTrue \/ SetFalse \/ Pass \/ \E t \in Tasks : Suspend(t) \/ Return(t)

Spec == Init /\ [][Next]_vars

\* A released task does return.
FairSpec == Spec /\ \A t \in Tasks : WF_vars(Return(t))

TypeOK ==
  /\ open \in BOOLEAN
  /\ suspended \subseteq Tasks
  /\ released \subseteq Tasks
=============================================================================
