----------------------------- MODULE ProcessList -----------------------------
(***************************************************************************)
(* The list of child processes and the calls that spawn and wait for them: *)
(* add_handle, __gnat_win32_remove_handle, win32_spawn, win32_wait of      *)
(* src/cpp/adaint.c and __gnat_waitpid of src/cpp/expect.c, by several     *)
(* tasks at once. list is HANDLES_LIST and PID_LIST up to plist_length, cs *)
(* the critical section ProcListCS, evt the auto-reset event ProcListEvt.  *)
(*                                                                         *)
(* A handle names a process object, or none once closed; the system may    *)
(* give its number to the next object. A thread blocked on handles waits   *)
(* for the objects they named when it called. What a task does inside the  *)
(* critical section is one step: nothing in it waits. A process is known   *)
(* by the order in which it was created, which is also its exit code.      *)
(* A CreateProcess that fails is left out: nothing is changed.             *)
(***************************************************************************)
EXTENDS Integers, Sequences, FiniteSets

CONSTANTS
  Spawners,    \* the tasks that call __gnat_portable_no_block_spawn
  Waiters,     \* the tasks that call __gnat_portable_wait
  PidWaiters,  \* the tasks that call __gnat_waitpid
  Handles,     \* the values of handles
  Pids,        \* the process identifiers the system gives
  MaxSpawn,    \* the bound on the processes created
  MAXIMUM_WAIT_OBJECTS,
  ReuseHandles,\* whether the system gives the number of a closed handle again
  NULL, NoTask, NoPid

Tasks == Spawners \cup Waiters \cup PidWaiters
Processes == 1 .. MaxSpawn

Unused == 0
Closed == -1   \* closed, its number not given again

ASSUME MaxSpawnAssumption == MaxSpawn \in Nat
ASSUME NoneAssumption == NULL \notin Handles /\ NoTask \notin Tasks /\ NoPid \notin Pids
ASSUME LimitAssumption == MAXIMUM_WAIT_OBJECTS \in Nat

VARIABLES
  list,      \* sequence of [h, pid]
  cs,        \* the task inside the critical section, or NoTask
  evt,       \* whether ProcListEvt is set
  handle,    \* handle[h]: the process named, Unused or Closed
  pidOf,     \* pidOf[i]: the identifier of process i, NoPid before it is created
  exited,    \* the processes that have ended
  pc,        \* where a task is
  own,       \* own[t]: a handle only t knows
  snap,      \* snap[t]: hl and pidl of win32_wait
  objects,   \* objects[t]: the objects t is blocked on
  got,       \* got[t]: the [h, pid, status] a wait goes on with
  reported   \* history: what win32_wait returned, <<pid, status, process>>

vars == <<list, cs, evt, handle, pidOf, exited, pc, own, snap, objects, got, reported>>

NoGot == [h |-> NULL, pid |-> NoPid, obj |-> 0, status |-> 0]

Init ==
  /\ list = <<>>
  /\ cs = NoTask
  /\ evt = FALSE
  /\ handle = [h \in Handles |-> Unused]
  /\ pidOf = [i \in Processes |-> NoPid]
  /\ exited = {}
  /\ pc = [t \in Tasks |-> "idle"]
  /\ own = [t \in Tasks |-> NULL]
  /\ snap = [t \in Tasks |-> <<>>]
  /\ objects = [t \in Tasks |-> <<>>]
  /\ got = [t \in Tasks |-> NoGot]
  /\ reported = <<>>

-----------------------------------------------------------------------------
(***************************************************************************)
(* The system.                                                             *)
(***************************************************************************)
Created == {i \in Processes : pidOf[i] # NoPid}

\* An object lives while it runs, has a handle or a thread waits for it.
Alive(i) ==
  \/ i \notin exited
  \/ \E h \in Handles : handle[h] = i
  \/ \E t \in Tasks : \E k \in DOMAIN objects[t] : objects[t][k] = i

FreePids == {p \in Pids : \A i \in Created : pidOf[i] = p => ~Alive(i)}
FreeHandles == {h \in Handles : handle[h] = Unused}

CloseHandle(h) ==
  handle' = IF h \in Handles
            THEN [handle EXCEPT ![h] = IF ReuseHandles THEN Unused ELSE Closed]
            ELSE handle

\* A child ends.
Exit(i) ==
  /\ i \in Created \ exited
  /\ exited' = exited \cup {i}
  /\ UNCHANGED <<list, cs, evt, handle, pidOf, pc, own, snap, objects, got, reported>>

-----------------------------------------------------------------------------
\* A critical section may be entered again by the task inside.
EnterCS(t) == cs \in {NoTask, t}

Goto(t, label) == pc' = [pc EXCEPT ![t] = label]

(***************************************************************************)
(* win32_spawn: the process exists, and may end, before its handle is in   *)
(* the list; a blocking spawn waits for it and never lists it.             *)
(***************************************************************************)
win32_spawn(t, blocking) ==
  /\ pc[t] = "idle" /\ t \in Spawners
  /\ \E i \in Processes \ Created, h \in FreeHandles, p \in FreePids :
       /\ \A j \in Processes \ Created : i <= j
       /\ handle' = [handle EXCEPT ![h] = i]
       /\ pidOf' = [pidOf EXCEPT ![i] = p]
       /\ own' = [own EXCEPT ![t] = h]
       /\ got' = [got EXCEPT ![t] = [NoGot EXCEPT !.pid = p]]
  /\ Goto(t, IF blocking THEN "child" ELSE "add")
  /\ UNCHANGED <<list, cs, evt, exited, snap, objects, reported>>

BlockingSpawnEnds(t) ==
  /\ pc[t] = "child" /\ handle[own[t]] \in exited
  /\ CloseHandle(own[t])
  /\ own' = [own EXCEPT ![t] = NULL]
  /\ got' = [got EXCEPT ![t] = NoGot]
  /\ Goto(t, "idle")
  /\ UNCHANGED <<list, cs, evt, pidOf, exited, snap, objects, reported>>

add_handle(t) ==
  /\ pc[t] = "add" /\ EnterCS(t)
  /\ list' = Append(list, [h |-> own[t], pid |-> got[t].pid])
  /\ evt' = TRUE
  /\ own' = [own EXCEPT ![t] = NULL]
  /\ got' = [got EXCEPT ![t] = NoGot]
  /\ Goto(t, "idle")
  /\ UNCHANGED <<cs, handle, pidOf, exited, snap, objects, reported>>

(***************************************************************************)
(* __gnat_win32_remove_handle (h, pid): the first entry with the handle or *)
(* the identifier goes, the last one takes its place, and h, not the       *)
(* entry's handle, is closed. The event is set after the critical section. *)
(***************************************************************************)
Entries(h, pid) == {j \in DOMAIN list : list[j].h = h \/ list[j].pid = pid}

\* Mutant: the last entry does not take the place of the one removed.
RemoveEntry_Truncate(j) == list' = SubSeq(list, 1, Len(list) - 1)

RemoveEntry(j) ==
  list' = [k \in 1 .. Len(list) - 1 |-> IF k = j THEN list[Len(list)] ELSE list[k]]

win32_remove_handle(t, h, pid, then, else) ==
  /\ EnterCS(t)
  /\ IF Entries(h, pid) = {}
     THEN UNCHANGED <<list, handle>> /\ Goto(t, else)
     ELSE /\ RemoveEntry(CHOOSE j \in Entries(h, pid) : \A k \in Entries(h, pid) : j <= k)
          /\ CloseHandle(h)
          /\ Goto(t, then)

\* Mutant: no task is woken for a list that is empty.
SignalListChanged_Listed(t) ==
  /\ pc[t] \in {"signal", "pidsignal"}
  /\ evt' = (evt \/ list # <<>>)
  /\ Goto(t, IF pc[t] = "signal" THEN "return" ELSE "idle")
  /\ UNCHANGED <<list, cs, handle, pidOf, exited, own, snap, objects, got, reported>>

SignalListChanged(t) ==
  /\ pc[t] \in {"signal", "pidsignal"}
  /\ evt' = TRUE
  /\ Goto(t, IF pc[t] = "signal" THEN "return" ELSE "idle")
  /\ UNCHANGED <<list, cs, handle, pidOf, exited, own, snap, objects, got, reported>>

-----------------------------------------------------------------------------
(***************************************************************************)
(* win32_wait.                                                             *)
(***************************************************************************)
Wait(t) ==
  /\ pc[t] = "idle" /\ t \in Waiters
  /\ Goto(t, "start")
  /\ UNCHANGED <<list, cs, evt, handle, pidOf, exited, own, snap, objects, got, reported>>

\* The length is read outside the critical section; 0 is ECHILD.
StartWait(t) ==
  /\ pc[t] = "start"
  /\ Goto(t, IF list = <<>> THEN "idle" ELSE "copy")
  /\ UNCHANGED <<list, cs, evt, handle, pidOf, exited, own, snap, objects, got, reported>>

\* With too many entries it returns EINVAL from inside the critical section.
CopyList(t) ==
  /\ pc[t] = "copy" /\ EnterCS(t)
  /\ IF Len(list) < MAXIMUM_WAIT_OBJECTS
     THEN snap' = [snap EXCEPT ![t] = list] /\ Goto(t, "call") /\ UNCHANGED cs
     ELSE cs' = t /\ Goto(t, "idle") /\ UNCHANGED snap
  /\ UNCHANGED <<list, evt, handle, pidOf, exited, own, objects, got, reported>>

\* A handle that was closed in between makes the call fail: EINVAL.
WaitForMultipleObjects(t) ==
  /\ pc[t] = "call"
  /\ IF \A k \in DOMAIN snap[t] : handle[snap[t][k].h] \in Processes
     THEN /\ objects' = [objects EXCEPT ![t] = [k \in DOMAIN snap[t] |-> handle[snap[t][k].h]]]
          /\ Goto(t, "blocked") /\ UNCHANGED snap
     ELSE Goto(t, "idle") /\ snap' = [snap EXCEPT ![t] = <<>>] /\ UNCHANGED objects
  /\ UNCHANGED <<list, cs, evt, handle, pidOf, exited, own, got, reported>>

\* The event comes first; the wait resets it.
ListChanged(t) ==
  /\ pc[t] = "blocked" /\ evt
  /\ evt' = FALSE
  /\ snap' = [snap EXCEPT ![t] = <<>>]
  /\ objects' = [objects EXCEPT ![t] = <<>>]
  /\ Goto(t, "start")
  /\ UNCHANGED <<list, cs, handle, pidOf, exited, own, got, reported>>

\* Else the first object that is signaled.
ChildEnded(t) ==
  /\ pc[t] = "blocked" /\ ~evt
  /\ \E pos \in DOMAIN objects[t] :
       /\ objects[t][pos] \in exited
       /\ \A k \in 1 .. pos - 1 : objects[t][k] \notin exited
       /\ got' = [got EXCEPT ![t] = [h |-> snap[t][pos].h, pid |-> snap[t][pos].pid,
                                     obj |-> objects[t][pos], status |-> 0]]
  /\ snap' = [snap EXCEPT ![t] = <<>>]
  /\ objects' = [objects EXCEPT ![t] = <<>>]
  /\ Goto(t, "exitcode")
  /\ UNCHANGED <<list, cs, evt, handle, pidOf, exited, own, reported>>

\* What the handle names now; 0 stands for STILL_ACTIVE or nothing at all.
GetExitCodeProcess(t) ==
  /\ pc[t] = "exitcode"
  /\ got' = [got EXCEPT ![t].status = IF handle[got[t].h] \in exited THEN handle[got[t].h] ELSE 0]
  /\ Goto(t, "remove")
  /\ UNCHANGED <<list, cs, evt, handle, pidOf, exited, own, snap, objects, reported>>

\* Mutant: the process is reported whether or not it was still listed.
RemoveEnded_Always(t) ==
  /\ pc[t] = "remove"
  /\ win32_remove_handle(t, got[t].h, NoPid, "signal", "signal")
  /\ UNCHANGED <<cs, evt, pidOf, exited, own, snap, objects, got, reported>>

\* Not found: another task waiting has already handled this process.
RemoveEnded(t) ==
  /\ pc[t] = "remove"
  /\ win32_remove_handle(t, got[t].h, NoPid, "signal", "start")
  /\ UNCHANGED <<cs, evt, pidOf, exited, own, snap, objects, got, reported>>

ReturnFromWait(t) ==
  /\ pc[t] = "return"
  /\ reported' = Append(reported, got[t])
  /\ got' = [got EXCEPT ![t] = NoGot]
  /\ Goto(t, "idle")
  /\ UNCHANGED <<list, cs, evt, handle, pidOf, exited, own, snap, objects>>

-----------------------------------------------------------------------------
(***************************************************************************)
(* __gnat_waitpid: by a handle of its own.                                 *)
(***************************************************************************)
OpenProcess(t, pid) ==
  /\ pc[t] = "idle" /\ t \in PidWaiters
  /\ LET named == {i \in Created : pidOf[i] = pid /\ Alive(i)}
     IN  IF named = {}
         THEN Goto(t, "pidremove") /\ UNCHANGED <<handle, own>>
         ELSE \E i \in named, h \in FreeHandles :
                /\ handle' = [handle EXCEPT ![h] = i]
                /\ own' = [own EXCEPT ![t] = h]
                /\ Goto(t, "pidwait")
  /\ got' = [got EXCEPT ![t] = [NoGot EXCEPT !.pid = pid]]
  /\ UNCHANGED <<list, cs, evt, pidOf, exited, snap, objects, reported>>

WaitForSingleObject(t) ==
  /\ pc[t] = "pidwait" /\ handle[own[t]] \in exited
  /\ CloseHandle(own[t])
  /\ own' = [own EXCEPT ![t] = NULL]
  /\ Goto(t, "pidremove")
  /\ UNCHANGED <<list, cs, evt, pidOf, exited, snap, objects, got, reported>>

\* remove_handle (NULL, pid): the entry goes, its handle stays open.
RemoveWaited(t) ==
  /\ pc[t] = "pidremove"
  /\ win32_remove_handle(t, NULL, got[t].pid, "pidsignal", "idle")
  /\ UNCHANGED <<cs, evt, pidOf, exited, own, snap, objects, got, reported>>

-----------------------------------------------------------------------------
\* The steps of a call that was begun.
Step(t) ==
  \/ BlockingSpawnEnds(t) \/ add_handle(t) \/ SignalListChanged(t)
  \/ StartWait(t) \/ CopyList(t) \/ WaitForMultipleObjects(t) \/ ListChanged(t)
  \/ ChildEnded(t) \/ GetExitCodeProcess(t) \/ RemoveEnded(t) \/ ReturnFromWait(t)
  \/ WaitForSingleObject(t) \/ RemoveWaited(t)

Next ==
  \/ \E i \in Processes : Exit(i)
  \/ \E t \in Tasks : \/ Step(t) \/ Wait(t)
                      \/ \E blocking \in BOOLEAN : win32_spawn(t, blocking)
                      \/ \E pid \in Pids : OpenProcess(t, pid)

\* A thread runs until it blocks, and children end.
Fairness ==
  /\ \A i \in Processes : WF_vars(Exit(i))
  /\ \A t \in Tasks : WF_vars(Step(t))

Spec == Init /\ [][Next]_vars
FairSpec == Spec /\ Fairness

-----------------------------------------------------------------------------
TypeOK ==
  /\ list \in Seq([h : Handles, pid : Pids])
  /\ cs \in Tasks \cup {NoTask}
  /\ evt \in BOOLEAN
  /\ handle \in [Handles -> Processes \cup {Unused, Closed}]
  /\ pidOf \in [Processes -> Pids \cup {NoPid}]
  /\ exited \subseteq Created
  /\ pc \in [Tasks -> {"idle", "child", "add", "start", "copy", "call", "blocked", "exitcode",
                       "remove", "signal", "return", "pidwait", "pidremove", "pidsignal"}]
  /\ own \in [Tasks -> Handles \cup {NULL}]

(***************************************************************************)
(* A handle in the list is open, names the process whose identifier stands *)
(* beside it and is there once: no wait closes a handle that the list or a *)
(* spawn still counts on, whatever handle it comes back with.              *)
(***************************************************************************)
ListedHandlesOpen ==
  /\ \A j \in DOMAIN list : /\ handle[list[j].h] \in Processes
                            /\ pidOf[handle[list[j].h]] = list[j].pid
  /\ \A j, k \in DOMAIN list : list[j].h = list[k].h => j = k

(***************************************************************************)
(* Every child is reported by one wait at most, with its own exit code:    *)
(* "if not found another process waiting has already handled this process" *)
(* (adaint.c:2035).                                                        *)
(***************************************************************************)
ReportedOnce ==
  \A j, k \in DOMAIN reported :
    /\ reported[j].obj \in exited
    /\ reported[j].status = reported[j].obj
    /\ reported[j].obj = reported[k].obj => j = k

(***************************************************************************)
(* "Synchronization code, to be thread safe" (adaint.c:1774): a task that  *)
(* is back from its call is not inside the critical section.               *)
(***************************************************************************)
LockReleased == cs # NoTask => pc[cs] # "idle"

(***************************************************************************)
(* A wait ends once the children have. "If the ProcListEvt has been        *)
(* signaled then the list of processes has been updated [...] just loop    *)
(* over" (adaint.c:2008): the event wakes one waiter for a change of the   *)
(* list, and the others must not be left on their copies. With two tasks   *)
(* they are not; with three one can be, on a copy of an empty list.        *)
(***************************************************************************)
WaitEnds == \A t \in Waiters : (pc[t] = "start") ~> (pc[t] = "idle")
=============================================================================
