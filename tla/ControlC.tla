------------------------------ MODULE ControlC -------------------------------
(***************************************************************************)
(* Handlers of Control-C: src/cpp/ctrl_c.c with GNAT.Ctrl_C. Tasks install *)
(* and uninstall handlers while the system, on a thread of its own, calls  *)
(* __gnat_int_handler once for each time it is registered. The loads and   *)
(* stores of the shared variables are steps.                               *)
(***************************************************************************)
EXTENDS Integers

CONSTANTS
  Users,     \* the tasks that install and uninstall
  Procs,     \* the handlers they install
  Nobody,    \* no handler
  MaxCalls   \* the bound on their calls

VARIABLES
  Ada_Handler,        \* the handler of GNAT.Ctrl_C
  sigint_intercepted, \* whether it is C_Handler or NULL
  registered,         \* how often __gnat_int_handler is registered
  place,              \* place[u]: where user u's call is
  calls,              \* how many calls were begun
  event               \* the Control-C: [at, called, may, sure], where "may" and
                      \* "sure" are history: the handlers that were installed
                      \* meanwhile, and whether one was at every moment

vars == <<Ada_Handler, sigint_intercepted, registered, place, calls, event>>

NoEvent == [at |-> "none", called |-> Nobody, may |-> {}, sure |-> FALSE]

Init ==
  /\ Ada_Handler = Nobody /\ sigint_intercepted = FALSE /\ registered = 0
  /\ place = [u \in Users |-> "idle"] /\ calls = 0 /\ event = NoEvent

Move(u, from, to) == place[u] = from /\ place' = [place EXCEPT ![u] = to]

-----------------------------------------------------------------------------
Install_Handler(u, proc) ==
  /\ calls < MaxCalls /\ Move(u, "idle", "install")
  /\ calls' = calls + 1
  /\ Ada_Handler' = proc
  /\ event' = [event EXCEPT !.may = @ \cup {proc}]
  /\ UNCHANGED <<sigint_intercepted, registered>>

\* Mutant: the variable is set before it is tested.
Register_Late(u) ==
  /\ Move(u, "install", "store")
  /\ sigint_intercepted' = TRUE
  /\ UNCHANGED <<Ada_Handler, registered, calls, event>>

\* __gnat_install_int_handler: the first handler is registered.
Register(u) ==
  /\ Move(u, "install", "store")
  /\ registered' = IF sigint_intercepted THEN registered ELSE registered + 1
  /\ UNCHANGED <<Ada_Handler, sigint_intercepted, calls, event>>

Store(u) ==
  /\ Move(u, "store", "idle")
  /\ sigint_intercepted' = TRUE
  /\ UNCHANGED <<Ada_Handler, registered, calls, event>>

\* __gnat_uninstall_int_handler.
Uninstall(u) ==
  /\ calls < MaxCalls /\ Move(u, "idle", "clear")
  /\ calls' = calls + 1
  /\ registered' = IF sigint_intercepted /\ registered > 0 THEN registered - 1 ELSE registered
  /\ event' = [event EXCEPT !.sure = FALSE]
  /\ UNCHANGED <<Ada_Handler, sigint_intercepted>>

Clear(u) ==
  /\ Move(u, "clear", "idle")
  /\ sigint_intercepted' = FALSE
  /\ UNCHANGED <<Ada_Handler, registered, calls, event>>

-----------------------------------------------------------------------------
Installed == (\A u \in Users : place[u] = "idle") /\ sigint_intercepted

\* The system's default is taken when nothing is registered.
Interrupt ==
  /\ event.at \in {"none", "called", "default"}
  /\ event' = [at |-> IF registered = 0 THEN "default" ELSE "test", called |-> Nobody,
               may |-> {Ada_Handler} \ {Nobody}, sure |-> Installed]
  /\ UNCHANGED <<Ada_Handler, sigint_intercepted, registered, place, calls>>

\* __gnat_int_handler tests the variable, and reads it again to call it.
TestHandler ==
  /\ event.at = "test"
  /\ event' = [event EXCEPT !.at = IF sigint_intercepted THEN "call" ELSE "default"]
  /\ UNCHANGED <<Ada_Handler, sigint_intercepted, registered, place, calls>>

CallHandler ==
  /\ event.at = "call"
  /\ event' = [event EXCEPT !.at = "called",
                            !.called = IF sigint_intercepted THEN Ada_Handler ELSE Nobody]
  /\ UNCHANGED <<Ada_Handler, sigint_intercepted, registered, place, calls>>

Next ==
  \/ \E u \in Users : \/ Register(u) \/ Store(u) \/ Uninstall(u) \/ Clear(u)
                      \/ \E proc \in Procs : Install_Handler(u, proc)
  \/ Interrupt \/ TestHandler \/ CallHandler

Spec == Init /\ [][Next]_vars

-----------------------------------------------------------------------------
(***************************************************************************)
(* "Set up Handler to be called if the operator hits Ctrl-C, instead of    *)
(* the standard Control-C handler" (g-ctrl_c.ads:50): an interrupt that    *)
(* comes while a handler is installed is never left to the system, also    *)
(* when the handler is replaced meanwhile, and calls one that was          *)
(* installed meanwhile. After the last uninstallation none is called.      *)
(***************************************************************************)
InterruptsHandled ==
  /\ event.at \in {"default", "called"} /\ event.sure => event.at = "called" /\ event.called \in event.may
  /\ Installed => registered > 0
  /\ (\A u \in Users : place[u] = "idle") /\ ~sigint_intercepted => registered = 0

(***************************************************************************)
(* "Reinstall the standard Control-C handler" (g-ctrl_c.ads:54): an        *)
(* interrupt meanwhile goes to the old or the new handler.                 *)
(***************************************************************************)
CallsAHandler == event.at = "called" => event.called # Nobody
=============================================================================
