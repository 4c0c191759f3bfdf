--------------------------- MODULE ProtectedEntries ---------------------------
(***************************************************************************)
(* Protected objects with entries: Protected_Entry_Call, the timed call,   *)
(* PO_Do_Or_Queue, PO_Service_Entries and Requeue_Call of s-tpobop.adb,    *)
(* with the caller's side in s-taenca.adb: waiting, the time-out, and the  *)
(* cancellation of a call that may be requeued meanwhile.                  *)
(*                                                                         *)
(* Whoever holds an object's lock executes the entry bodies of the calls   *)
(* that are open, its own or another task's.  What is left of the nested   *)
(* calls of PO_Do_Or_Queue, PO_Service_Entries and Requeue_Call in a task  *)
(* is its agenda, the innermost first.  Entry bodies are nondeterministic: *)
(* they set the barriers of their object and complete or requeue the call. *)
(*                                                                         *)
(* A section under a caller's ATCB lock is one action, but for "polling"   *)
(* and the time-out, where the caller holds it between two actions: the    *)
(* state of a call is read and written by its caller under this lock and   *)
(* by the server under its object's, so that the reads and the writes of   *)
(* the two interleave.  Left out: ceilings, priorities, exceptions, queue  *)
(* length limits, asynchronous calls.                                      *)
(***************************************************************************)
EXTENDS Naturals, Sequences, SequencesExt

CONSTANTS
  Callers,      \* tasks that make entry calls
  Setters,      \* tasks that call protected procedures
  NoTask,       \* no task
  Objects,      \* protected objects
  Entries,      \* indices of the entries of an object
  Modes,        \* modes of call made
  Deferred,     \* whether calls are made with abort already deferred
  Requeues,     \* [from, to, with_abort] of the requeue statements
  Abortable,    \* the callers that may be aborted
  MaxRequeues,  \* bound on the requeues of a call
  MaxCalls      \* bound on the calls of each task

Call_Modes == {"Simple_Call", "Conditional_Call", "Timed_Call"}

ASSUME EntriesAssumption ==
  /\ Callers \cap Setters = {}
  /\ NoTask \notin Callers \cup Setters
  /\ Objects # {}
  /\ Entries \subseteq Nat /\ Entries # {}
  /\ Modes \subseteq Call_Modes
  /\ Deferred \subseteq BOOLEAN
  /\ Requeues \subseteq [from : Objects, to : Objects, with_abort : BOOLEAN]
  /\ Abortable \subseteq Callers
  /\ MaxRequeues \in Nat
  /\ MaxCalls \in Nat

Tasks == Callers \cup Setters

ATC_Level_Infinity == 20

VARIABLES
  \* the Entry_Call_Record of each caller
  State, Mode, With_Abort, Cancellation_Attempted, Called_PO, E,
  \* the objects
  owner, depth, Entry_Queues, Call_In_Progress, open,
  \* the callers' ATCBs
  Task_State, Pending_ATC_Level,
  CV,              \* the event of the caller's condition variable
  \* control
  pc, agenda,
  Test_PO,         \* the object Lock_Server has read
  Timedout,        \* the wait's time-out is over
  deferred,        \* the call is made with abort already deferred
  requeues, calls

record  == <<State, Mode, With_Abort, Cancellation_Attempted, Called_PO, E>>
locks   == <<owner, depth>>
objects == <<Entry_Queues, Call_In_Progress, open>>
atcbs   == <<Task_State, Pending_ATC_Level, CV>>
control == <<pc, agenda, Test_PO, Timedout, deferred, requeues, calls>>
vars == <<record, locks, objects, atcbs, control>>

Over == {"Done", "Cancelled"}

States == {"Never_Abortable", "Was_Abortable", "Now_Abortable"} \cup Over

\* What a record not in use holds.
AnyObject == CHOOSE o \in Objects : TRUE
AnyEntry == CHOOSE e \in Entries : TRUE

Init ==
  /\ State = [c \in Callers |-> "Done"]
  /\ Mode = [c \in Callers |-> "Simple_Call"]
  /\ With_Abort = [c \in Callers |-> TRUE]
  /\ Cancellation_Attempted = [c \in Callers |-> FALSE]
  /\ Called_PO = [c \in Callers |-> AnyObject]
  /\ E = [c \in Callers |-> AnyEntry]
  /\ owner = [o \in Objects |-> NoTask]
  /\ depth = [o \in Objects |-> 0]
  /\ Entry_Queues = [o \in Objects |-> [e \in Entries |-> <<>>]]
  /\ Call_In_Progress = [o \in Objects |-> NoTask]
  /\ open = [o \in Objects |-> {}]
  /\ Task_State = [c \in Callers |-> "Runnable"]
  /\ Pending_ATC_Level = [c \in Callers |-> ATC_Level_Infinity]
  /\ CV = [c \in Callers |-> FALSE]
  /\ pc = [t \in Tasks |-> "idle"]
  /\ agenda = [t \in Tasks |-> <<>>]
  /\ Test_PO = Called_PO
  /\ Timedout = [c \in Callers |-> FALSE]
  /\ deferred = [c \in Callers |-> FALSE]
  /\ requeues = [c \in Callers |-> 0]
  /\ calls = [t \in Tasks |-> 0]

-----------------------------------------------------------------------------
(* Locks, queues and agendas.                                              *)

Free(t, o) == owner[o] \in {NoTask, t}

\* Windows' critical sections: the owner may enter again.
Lock(t, o) ==
  /\ owner' = [owner EXCEPT ![o] = t]
  /\ depth' = [depth EXCEPT ![o] = @ + 1]

Unlock(o) ==
  /\ owner' = [owner EXCEPT ![o] = IF depth[o] = 1 THEN NoTask ELSE @]
  /\ depth' = [depth EXCEPT ![o] = @ - 1]

\* Another task may lock c's ATCB.
ATCBFree(c) == pc[c] \notin {"polling", "timing", "marking"}

Go(t, here, there) == pc[t] = here /\ pc' = [pc EXCEPT ![t] = there]

Do(o, c)      == [act |-> "do", obj |-> o, call |-> c]
Service(o)    == [act |-> "service", obj |-> o]
Queue(o, c)   == [act |-> "queue", obj |-> o, call |-> c]
\* new: the state that the call is to have when it is queued.
Update(o, c, new) == [act |-> "update", obj |-> o, call |-> c, new |-> new]
Check(o, c)   == [act |-> "check", obj |-> o, call |-> c]
\* serving: the body is executed by PO_Service_Entries.
Body(o, c, serving)  == [act |-> "body", obj |-> o, call |-> c, serving |-> serving]
After(o, c, serving) == [act |-> "after", obj |-> o, call |-> c, serving |-> serving]

At(t, act) == agenda[t] # <<>> /\ Head(agenda[t]).act = act

Continue(t, frames) == agenda' = [agenda EXCEPT ![t] = frames \o Tail(@)]

Onqueue(c) == \E o \in Objects, e \in Entries : Contains(Entry_Queues[o][e], c)

\* New_State of Update_For_Queue_To_PO.
New_State(with_abort, state) ==
  IF with_abort /\ state = "Was_Abortable" THEN "Now_Abortable" ELSE state

\* Mutant: the caller is told but not woken.
Wakeup_Entry_Caller_Silent(c, new) ==
  /\ State' = [State EXCEPT ![c] = new]
  /\ UNCHANGED CV

\* Wakeup_Entry_Caller, with the caller's ATCB locked.
Wakeup_Entry_Caller(c, new) ==
  /\ State' = [State EXCEPT ![c] = new]
  /\ CV' = [CV EXCEPT ![c] = @ \/ Task_State[c] = "Entry_Caller_Sleep"]

\* Exit_One_ATC_Level, from level 2.
Exit_One_ATC_Level(c) ==
  Pending_ATC_Level' = [Pending_ATC_Level EXCEPT
                          ![c] = IF @ = 1 THEN ATC_Level_Infinity ELSE @]

\* The call of c is to be given up: Pending_ATC_Level < ATC_Nesting_Level.
Pending(c) == Pending_ATC_Level[c] < 2

-----------------------------------------------------------------------------
(* Executing calls with an object's lock held.                             *)

\* Mutant: the call stays abortable while its body executes.
NotAbortable_Skipped(c) == UNCHANGED State

\* "Not abortable while service is in progress".
NotAbortable(c) ==
  State' = [State EXCEPT ![c] = IF @ = "Now_Abortable" THEN "Was_Abortable" ELSE @]

\* PO_Do_Or_Queue, open barrier: the body begins.
DoBegin(t) ==
  /\ At(t, "do")
  /\ LET o == Head(agenda[t]).obj
         c == Head(agenda[t]).call
     IN  /\ E[c] \in open[o]
         /\ NotAbortable(c)
         /\ Call_In_Progress' = [Call_In_Progress EXCEPT ![o] = c]
         /\ Continue(t, <<Body(o, c, FALSE)>>)
  /\ UNCHANGED <<Mode, With_Abort, Cancellation_Attempted, Called_PO, E, locks,
                 Entry_Queues, open, atcbs, pc, Test_PO, Timedout, deferred,
                 requeues, calls>>

\* PO_Do_Or_Queue, closed barrier: the call is queued.
DoQueue(t) ==
  /\ At(t, "do")
  /\ LET o == Head(agenda[t]).obj
         c == Head(agenda[t]).call
     IN  /\ E[c] \notin open[o]
         /\ Mode[c] # "Conditional_Call" \/ ~With_Abort[c]
         /\ Continue(t, <<Queue(o, c)>>)
  /\ UNCHANGED <<record, locks, objects, atcbs, pc, Test_PO, Timedout, deferred,
                 requeues, calls>>

\* Update_For_Queue_To_PO reads the state of the call.
ReadState(t) ==
  /\ At(t, "queue")
  /\ LET o == Head(agenda[t]).obj
         c == Head(agenda[t]).call
     IN  Continue(t, <<Update(o, c, New_State(With_Abort[c], State[c]))>>)
  /\ UNCHANGED <<record, locks, objects, atcbs, pc, Test_PO, Timedout, deferred,
                 requeues, calls>>

\* Queuing.Enqueue, which only the holders of the object's lock see, and the
\* write of Update_For_Queue_To_PO: a time-out may have come after the read.
Enqueue(t) ==
  /\ At(t, "update")
  /\ LET o == Head(agenda[t]).obj
         c == Head(agenda[t]).call
     IN  /\ Entry_Queues' = [Entry_Queues EXCEPT ![o][E[c]] = Append(@, c)]
         /\ State' = [State EXCEPT ![c] = Head(agenda[t]).new]
  /\ Continue(t, <<>>)
  /\ UNCHANGED <<Mode, With_Abort, Cancellation_Attempted, Called_PO, E, locks,
                 Call_In_Progress, open, atcbs, pc, Test_PO, Timedout, deferred,
                 requeues, calls>>

\* PO_Do_Or_Queue, closed barrier: a conditional call ends.
DoCancel(t) ==
  /\ At(t, "do")
  /\ LET o == Head(agenda[t]).obj
         c == Head(agenda[t]).call
     IN  /\ E[c] \notin open[o]
         /\ Mode[c] = "Conditional_Call" /\ With_Abort[c]
         /\ ATCBFree(c)
         /\ Wakeup_Entry_Caller(c, "Cancelled")
  /\ Continue(t, <<>>)
  /\ UNCHANGED <<Mode, With_Abort, Cancellation_Attempted, Called_PO, E, locks,
                 objects, Task_State, Pending_ATC_Level, pc, Test_PO, Timedout,
                 deferred, requeues, calls>>

\* The entry body: it sets barriers and returns, the call in progress.
BodyCompletes(t) ==
  /\ At(t, "body")
  /\ LET f == Head(agenda[t])
     IN  /\ \E b \in SUBSET Entries : open' = [open EXCEPT ![f.obj] = b]
         /\ Continue(t, <<After(f.obj, f.call, f.serving)>>)
  /\ UNCHANGED <<record, locks, Entry_Queues, Call_In_Progress, atcbs, pc,
                 Test_PO, Timedout, deferred, requeues, calls>>

\* The entry body executes a requeue statement: Requeue_Protected_Entry.
BodyRequeues(t, r, e) ==
  /\ At(t, "body")
  /\ LET f == Head(agenda[t])
     IN  /\ r.from = f.obj
         /\ requeues[f.call] < MaxRequeues
         /\ requeues' = [requeues EXCEPT ![f.call] = @ + 1]
         /\ \E b \in SUBSET Entries : open' = [open EXCEPT ![f.obj] = b]
         /\ E' = [E EXCEPT ![f.call] = e]
         /\ Called_PO' = [Called_PO EXCEPT ![f.call] = r.to]
         /\ With_Abort' = [With_Abort EXCEPT ![f.call] = r.with_abort]
         /\ Call_In_Progress' = [Call_In_Progress EXCEPT ![f.obj] = NoTask]
         /\ Continue(t, <<After(f.obj, f.call, f.serving)>>)
  /\ UNCHANGED <<State, Mode, Cancellation_Attempted, locks, Entry_Queues, atcbs,
                 pc, Test_PO, Timedout, deferred, calls>>

\* The body served the call to completion.
AfterDone(t) ==
  /\ At(t, "after")
  /\ LET f == Head(agenda[t])
     IN  /\ Call_In_Progress[f.obj] # NoTask
         /\ ATCBFree(f.call)
         /\ Call_In_Progress' = [Call_In_Progress EXCEPT ![f.obj] = NoTask]
         /\ Wakeup_Entry_Caller(f.call, "Done")
  /\ Continue(t, <<>>)
  /\ UNCHANGED <<Mode, With_Abort, Cancellation_Attempted, Called_PO, E, locks,
                 Entry_Queues, open, Task_State, Pending_ATC_Level, pc, Test_PO,
                 Timedout, deferred, requeues, calls>>

\* What PO_Service_Entries does after Requeue_Call.
Afterwards(f) == IF f.serving THEN <<Check(f.obj, f.call)>> ELSE <<>>

\* Requeue_Call to another object.
RequeueOther(t) ==
  /\ At(t, "after")
  /\ LET f   == Head(agenda[t])
         new == Called_PO[f.call]
     IN  /\ Call_In_Progress[f.obj] = NoTask
         /\ new # f.obj
         /\ Free(t, new)
         /\ Lock(t, new)
         /\ Continue(t, <<Do(new, f.call), Service(new)>> \o Afterwards(f))
  /\ UNCHANGED <<record, objects, atcbs, pc, Test_PO, Timedout, deferred,
                 requeues, calls>>

\* Requeue_Call to the same object: cancelled, without the caller's lock and
\* without waking it, queued, or tried at once.
RequeueSame(t) ==
  /\ At(t, "after")
  /\ LET f == Head(agenda[t])
         c == f.call
         queue == ~With_Abort[c] \/ Mode[c] # "Conditional_Call"
     IN  /\ Call_In_Progress[f.obj] = NoTask
         /\ Called_PO[c] = f.obj
         /\ \/ /\ With_Abort[c] /\ Cancellation_Attempted[c]
               /\ State' = [State EXCEPT ![c] = "Cancelled"]
               /\ Continue(t, Afterwards(f))
            \/ /\ ~(With_Abort[c] /\ Cancellation_Attempted[c])
               /\ Continue(t, <<IF queue THEN Queue(f.obj, c) ELSE Do(f.obj, c)>>
                                 \o Afterwards(f))
               /\ UNCHANGED State
  /\ UNCHANGED <<Mode, With_Abort, Cancellation_Attempted, Called_PO, E, locks,
                 objects, atcbs, pc, Test_PO, Timedout, deferred, requeues, calls>>

\* "exit when Entry_Call.State = Cancelled": the loop goes on, or its object is
\* unlocked.
AfterRequeue(t) ==
  /\ At(t, "check")
  /\ LET f == Head(agenda[t])
     IN  \/ /\ State[f.call] = "Cancelled"
            /\ agenda' = [agenda EXCEPT ![t] = Tail(Tail(@))]
            /\ Unlock(f.obj)
         \/ /\ State[f.call] # "Cancelled"
            /\ Continue(t, <<>>)
            /\ UNCHANGED locks
  /\ UNCHANGED <<record, objects, atcbs, pc, Test_PO, Timedout, deferred,
                 requeues, calls>>

Selectable(o, e) == e \in open[o] /\ Entry_Queues[o][e] # <<>>

\* PO_Service_Entries: the first open entry with a call, by index.
ServiceSelect(t, e) ==
  /\ At(t, "service")
  /\ LET o == Head(agenda[t]).obj
         c == Head(Entry_Queues[o][e])
     IN  /\ Selectable(o, e)
         /\ \A e2 \in Entries : Selectable(o, e2) => e <= e2
         /\ Entry_Queues' = [Entry_Queues EXCEPT ![o][e] = Tail(@)]
         /\ NotAbortable(c)
         /\ Call_In_Progress' = [Call_In_Progress EXCEPT ![o] = c]
         /\ agenda' = [agenda EXCEPT ![t] = <<Body(o, c, TRUE)>> \o @]
  /\ UNCHANGED <<Mode, With_Abort, Cancellation_Attempted, Called_PO, E, locks,
                 open, atcbs, pc, Test_PO, Timedout, deferred, requeues, calls>>

\* Mutant: the object is unlocked without another look at the barriers.
ServiceEnd_Early(t) ==
  /\ At(t, "service")
  /\ Unlock(Head(agenda[t]).obj)
  /\ Continue(t, <<>>)
  /\ UNCHANGED <<record, objects, atcbs, pc, Test_PO, Timedout, deferred,
                 requeues, calls>>

\* PO_Service_Entries: nothing to serve, the object is unlocked.
ServiceEnd(t) ==
  /\ At(t, "service")
  /\ LET o == Head(agenda[t]).obj
     IN  /\ \A e \in Entries : ~Selectable(o, e)
         /\ Unlock(o)
  /\ Continue(t, <<>>)
  /\ UNCHANGED <<record, objects, atcbs, pc, Test_PO, Timedout, deferred,
                 requeues, calls>>

ServerStep(t) ==
  \/ DoBegin(t) \/ DoQueue(t) \/ DoCancel(t) \/ ReadState(t) \/ Enqueue(t)
  \/ BodyCompletes(t)
  \/ \E r \in Requeues, e \in Entries : BodyRequeues(t, r, e)
  \/ AfterDone(t) \/ RequeueOther(t) \/ RequeueSame(t) \/ AfterRequeue(t)
  \/ \E e \in Entries : ServiceSelect(t, e)
  \/ ServiceEnd(t)

-----------------------------------------------------------------------------
(* Calling.                                                                *)

\* A protected procedure sets barriers and calls Service_Entries.
CallProcedure(s, o, b) ==
  /\ calls[s] < MaxCalls
  /\ owner[o] = NoTask
  /\ Go(s, "idle", "calling")
  /\ Lock(s, o)
  /\ open' = [open EXCEPT ![o] = b]
  /\ agenda' = [agenda EXCEPT ![s] = <<Service(o)>>]
  /\ calls' = [calls EXCEPT ![s] = @ + 1]
  /\ UNCHANGED <<record, Entry_Queues, Call_In_Progress, atcbs, Test_PO, Timedout,
                 deferred, requeues>>

ReturnProcedure(s) ==
  /\ agenda[s] = <<>>
  /\ Go(s, "calling", "idle")
  /\ UNCHANGED <<record, locks, objects, atcbs, agenda, Test_PO, Timedout,
                 deferred, requeues, calls>>

\* Protected_Entry_Call and Timed_Protected_Entry_Call up to PO_Do_Or_Queue.
CallEntry(c, m, o, e, d) ==
  /\ calls[c] < MaxCalls
  /\ owner[o] = NoTask
  /\ Go(c, "idle", "calling")
  /\ Lock(c, o)
  /\ Mode' = [Mode EXCEPT ![c] = m]
  /\ Cancellation_Attempted' = [Cancellation_Attempted EXCEPT ![c] = FALSE]
  /\ State' = [State EXCEPT ![c] = IF d THEN "Never_Abortable" ELSE "Now_Abortable"]
  /\ E' = [E EXCEPT ![c] = e]
  /\ Called_PO' = [Called_PO EXCEPT ![c] = o]
  /\ With_Abort' = [With_Abort EXCEPT ![c] = TRUE]
  /\ deferred' = [deferred EXCEPT ![c] = d]
  /\ agenda' = [agenda EXCEPT ![c] = <<Do(o, c), Service(o)>>]
  /\ calls' = [calls EXCEPT ![c] = @ + 1]
  /\ UNCHANGED <<objects, atcbs, Test_PO, Timedout, requeues>>

\* Once the object is unlocked: "try to avoid waiting for completed or
\* cancelled calls".  A timed call keeps its lock, the others yield.
AfterCall(c) ==
  /\ agenda[c] = <<>>
  /\ \/ /\ State[c] \in Over
        /\ Go(c, "calling", "leaving")
        /\ Exit_One_ATC_Level(c)
        /\ UNCHANGED Task_State
     \/ /\ State[c] \notin Over
        /\ Go(c, "calling", IF Mode[c] = "Timed_Call" THEN "polling" ELSE "yielding")
        /\ Task_State' = [Task_State EXCEPT ![c] = "Entry_Caller_Sleep"]
        /\ UNCHANGED Pending_ATC_Level
  /\ UNCHANGED <<record, locks, objects, CV, agenda, Test_PO, Timedout, deferred,
                 requeues, calls>>

Relock(c) ==
  /\ Go(c, "yielding", "polling")
  /\ UNCHANGED <<record, locks, objects, atcbs, agenda, Test_PO, Timedout,
                 deferred, requeues, calls>>

\* Check_Pending_Actions_For_Entry_Call gives its lock up for the server's.
PollCancel(c) ==
  /\ Pending(c) /\ State[c] = "Now_Abortable"
  /\ Go(c, "polling", "locking")
  /\ Test_PO' = [Test_PO EXCEPT ![c] = Called_PO[c]]
  /\ UNCHANGED <<record, locks, objects, atcbs, agenda, Timedout, deferred,
                 requeues, calls>>

\* The wait is over.
PollOver(c) ==
  /\ State[c] \in Over
  /\ Go(c, "polling", "leaving")
  /\ Task_State' = [Task_State EXCEPT ![c] = "Runnable"]
  /\ Exit_One_ATC_Level(c)
  /\ UNCHANGED <<record, locks, objects, CV, agenda, Test_PO, Timedout, deferred,
                 requeues, calls>>

StillWaiting(c) == State[c] \notin Over /\ ~(Pending(c) /\ State[c] = "Now_Abortable")

TimedWait(c) == Mode[c] = "Timed_Call" /\ ~Timedout[c]

\* Sleep, or Timed_Sleep, which does not sleep when an abort is pending.
PollSleep(c) ==
  /\ StillWaiting(c)
  /\ ~(TimedWait(c) /\ Pending(c))
  /\ Go(c, "polling", "asleep")
  /\ CV' = [CV EXCEPT ![c] = FALSE]
  /\ UNCHANGED <<record, locks, objects, Task_State, Pending_ATC_Level, agenda,
                 Test_PO, Timedout, deferred, requeues, calls>>

Wake(c) ==
  /\ CV[c]
  /\ Go(c, "asleep", "polling")
  /\ UNCHANGED <<record, locks, objects, atcbs, agenda, Test_PO, Timedout,
                 deferred, requeues, calls>>

\* Mutant: the caller sleeps on when the time-out is over.
TimeOut_SleepsOn(c) ==
  /\ TimedWait(c)
  /\ pc[c] = "asleep"
  /\ Timedout' = [Timedout EXCEPT ![c] = TRUE]
  /\ Cancellation_Attempted' = [Cancellation_Attempted EXCEPT ![c] = TRUE]
  /\ Pending_ATC_Level' = [Pending_ATC_Level EXCEPT ![c] = IF Pending(c) THEN @ ELSE 1]
  /\ UNCHANGED <<State, Mode, With_Abort, Called_PO, E, locks, objects, Task_State,
                 CV, pc, agenda, Test_PO, deferred, requeues, calls>>

\* Timed_Sleep returns with Timedout: try to cancel the call.
TimeOut(c) ==
  /\ TimedWait(c)
  /\ pc[c] = "asleep" \/ (pc[c] = "polling" /\ StillWaiting(c))
  /\ pc' = [pc EXCEPT ![c] = "timing"]
  /\ Timedout' = [Timedout EXCEPT ![c] = TRUE]
  /\ Cancellation_Attempted' = [Cancellation_Attempted EXCEPT ![c] = TRUE]
  /\ Pending_ATC_Level' = [Pending_ATC_Level EXCEPT ![c] = IF Pending(c) THEN @ ELSE 1]
  /\ UNCHANGED <<State, Mode, With_Abort, Called_PO, E, locks, objects, Task_State, CV,
                 agenda, Test_PO, deferred, requeues, calls>>

\* Mutant: a call that ended meanwhile is marked as well.
Unmarked_Any(c) == TRUE

\* "if Entry_Call.State < Was_Abortable", with the caller's lock alone.
Unmarked(c) == State[c] = "Never_Abortable"

TestState(c) ==
  /\ Go(c, "timing", IF Unmarked(c) THEN "marking" ELSE "polling")
  /\ UNCHANGED <<record, locks, objects, atcbs, agenda, Test_PO, Timedout,
                 deferred, requeues, calls>>

\* "Entry_Call.State := Now_Abortable", whatever the state is by now.
MarkAbortable(c) ==
  /\ Go(c, "marking", "polling")
  /\ State' = [State EXCEPT ![c] = "Now_Abortable"]
  /\ UNCHANGED <<Mode, With_Abort, Cancellation_Attempted, Called_PO, E, locks,
                 objects, atcbs, agenda, Test_PO, Timedout, deferred, requeues,
                 calls>>

\* Mutant: the object locked is not compared with the call's.
AnyServer(c) == TRUE

\* Lock_Server has the lock of the object that the call is on.
SameServer(c) == Test_PO[c] = Called_PO[c]

\* Lock_Server finds the call requeued, and tries again.
LockServerAgain(c) ==
  /\ pc[c] = "locking"
  /\ owner[Test_PO[c]] = NoTask
  /\ ~SameServer(c)
  /\ Test_PO' = [Test_PO EXCEPT ![c] = Called_PO[c]]
  /\ UNCHANGED <<record, locks, objects, atcbs, pc, agenda, Timedout, deferred,
                 requeues, calls>>

\* "Onqueue (Entry_Call) and then Entry_Call.State = Now_Abortable".
Cancellable(c) == Onqueue(c) /\ State[c] = "Now_Abortable"

\* Queuing.Dequeue: the call is taken off where it is found.
Without(q, c) == IF Contains(q, c) THEN RemoveAt(q, CHOOSE i \in DOMAIN q : q[i] = c) ELSE q

Dequeue_Call(c) ==
  Entry_Queues' = [Entry_Queues EXCEPT ![Test_PO[c]][E[c]] = Without(@, c)]

\* The call can be cancelled: it is taken off its queue, and the object served.
CancelCall(c) ==
  /\ owner[Test_PO[c]] = NoTask
  /\ SameServer(c)
  /\ Cancellable(c)
  /\ Go(c, "locking", "cancelling")
  /\ Lock(c, Test_PO[c])
  /\ Dequeue_Call(c)
  /\ State' = [State EXCEPT ![c] = IF Cancellation_Attempted[c] THEN "Cancelled" ELSE "Done"]
  /\ agenda' = [agenda EXCEPT ![c] = <<Service(Test_PO[c])>>]
  /\ UNCHANGED <<Mode, With_Abort, Cancellation_Attempted, Called_PO, E,
                 Call_In_Progress, open, atcbs, Test_PO, Timedout, deferred,
                 requeues, calls>>

\* It cannot any more: Unlock_Server.
DoNotCancel(c) ==
  /\ owner[Test_PO[c]] = NoTask
  /\ SameServer(c)
  /\ ~Cancellable(c)
  /\ Go(c, "locking", "polling")
  /\ UNCHANGED <<record, locks, objects, atcbs, agenda, Test_PO, Timedout,
                 deferred, requeues, calls>>

AfterCancel(c) ==
  /\ agenda[c] = <<>>
  /\ Go(c, "cancelling", "polling")
  /\ UNCHANGED <<record, locks, objects, atcbs, agenda, Test_PO, Timedout,
                 deferred, requeues, calls>>

\* Undefer_Abort_Nestable: the call returns, or the task is aborted.  The
\* record is left for the next call.
Leave(c) ==
  /\ Go(c, "leaving", IF Pending_ATC_Level[c] = 0 /\ ~deferred[c] THEN "aborted" ELSE "idle")
  /\ Mode' = [Mode EXCEPT ![c] = "Simple_Call"]
  /\ With_Abort' = [With_Abort EXCEPT ![c] = TRUE]
  /\ Cancellation_Attempted' = [Cancellation_Attempted EXCEPT ![c] = FALSE]
  /\ Called_PO' = [Called_PO EXCEPT ![c] = AnyObject]
  /\ E' = [E EXCEPT ![c] = AnyEntry]
  /\ CV' = [CV EXCEPT ![c] = FALSE]
  /\ Test_PO' = [Test_PO EXCEPT ![c] = AnyObject]
  /\ Timedout' = [Timedout EXCEPT ![c] = FALSE]
  /\ deferred' = [deferred EXCEPT ![c] = FALSE]
  /\ requeues' = [requeues EXCEPT ![c] = 0]
  /\ UNCHANGED <<State, locks, objects, Task_State, Pending_ATC_Level, agenda,
                 calls>>

InCall(c) == pc[c] \notin {"idle", "leaving", "aborted"}

\* Somebody aborts c: Locked_Abort_To_Level (c, 0).  A further abort would only
\* wake it again.
AbortTask(c) ==
  /\ c \in Abortable
  /\ Pending_ATC_Level[c] > 0
  /\ ATCBFree(c)
  /\ Cancellation_Attempted' = [Cancellation_Attempted EXCEPT ![c] = @ \/ InCall(c)]
  /\ CV' = [CV EXCEPT ![c] = @ \/ Task_State[c] = "Entry_Caller_Sleep"]
  /\ Pending_ATC_Level' = [Pending_ATC_Level EXCEPT ![c] = 0]
  /\ UNCHANGED <<State, Mode, With_Abort, Called_PO, E, locks, objects,
                 Task_State, control>>

CallerStep(c) ==
  \/ AfterCall(c) \/ Relock(c) \/ PollCancel(c) \/ PollOver(c) \/ PollSleep(c)
  \/ TestState(c) \/ MarkAbortable(c) \/ Wake(c) \/ LockServerAgain(c) \/ CancelCall(c) \/ DoNotCancel(c)
  \/ AfterCancel(c) \/ Leave(c)

ProgramStep ==
  \/ \E s \in Setters, o \in Objects, b \in SUBSET Entries : CallProcedure(s, o, b)
  \/ \E c \in Callers, m \in Modes, o \in Objects, e \in Entries, d \in Deferred :
       CallEntry(c, m, o, e, d)

Next ==
  \/ ProgramStep
  \/ \E t \in Tasks : ServerStep(t)
  \/ \E s \in Setters : ReturnProcedure(s)
  \/ \E c \in Callers : CallerStep(c) \/ TimeOut(c) \/ AbortTask(c)

Spec == Init /\ [][Next]_vars

\* Tasks run, entry bodies end and time passes.  Nobody has to make or abort a
\* call.
FairSpec ==
  /\ Spec
  /\ \A t \in Tasks : WF_vars(ServerStep(t))
  /\ \A s \in Setters : WF_vars(ReturnProcedure(s))
  /\ \A c \in Callers : WF_vars(CallerStep(c)) /\ WF_vars(TimeOut(c))

-----------------------------------------------------------------------------
(* Properties.                                                             *)

Frames(t) == {agenda[t][i] : i \in 1..Len(agenda[t])}

\* The frames of c's call: it is being tried, served or requeued by a task.
InService(c) ==
  \E t \in Tasks : \E f \in Frames(t) :
    f.act \in {"do", "queue", "update", "body", "after"} /\ f.call = c

\* Types, and that only the owner of an object executes its bodies.
TypeOK ==
  /\ State \in [Callers -> States]
  /\ Mode \in [Callers -> Call_Modes]
  /\ With_Abort \in [Callers -> BOOLEAN]
  /\ Cancellation_Attempted \in [Callers -> BOOLEAN]
  /\ Called_PO \in [Callers -> Objects]
  /\ E \in [Callers -> Entries]
  /\ owner \in [Objects -> Tasks \cup {NoTask}]
  /\ depth \in [Objects -> Nat]
  /\ \A o \in Objects, e \in Entries : Entry_Queues[o][e] \in Seq(Callers)
  /\ Call_In_Progress \in [Objects -> Callers \cup {NoTask}]
  /\ open \in [Objects -> SUBSET Entries]
  /\ Task_State \in [Callers -> {"Runnable", "Entry_Caller_Sleep"}]
  /\ Pending_ATC_Level \in [Callers -> {0, 1, ATC_Level_Infinity}]
  /\ CV \in [Callers -> BOOLEAN]
  /\ Test_PO \in [Callers -> Objects]
  /\ Timedout \in [Callers -> BOOLEAN]
  /\ \A t \in Tasks : \A f \in Frames(t) : owner[f.obj] = t

(***************************************************************************)
(* A call is in one place: in one queue, once, that of the entry and the   *)
(* object its record names, or with the task that serves it, and in none   *)
(* once it is over.  Requeues and cancellation move it while the caller    *)
(* follows the record from object to object without a lock.                *)
(***************************************************************************)
QueuedOnce ==
  \A c \in Callers, o \in Objects, e \in Entries :
    Contains(Entry_Queues[o][e], c) =>
      /\ o = Called_PO[c] /\ e = E[c]
      /\ State[c] \notin Over /\ ~InService(c)
      /\ \A i, j \in 1..Len(Entry_Queues[o][e]) :
           Entry_Queues[o][e][i] = c /\ Entry_Queues[o][e][j] = c => i = j

(***************************************************************************)
(* The caller does not return while its call is queued or its entry body   *)
(* executes, with its parameters on the caller's stack: neither a time-out *)
(* nor an abort gets it out ("Not abortable while service is in progress").*)
(***************************************************************************)
CallerStays ==
  \A c \in Callers : Onqueue(c) \/ InService(c) => InCall(c) /\ State[c] \notin Over

(***************************************************************************)
(* "If State >= Done, it will not change until the task does another entry *)
(* call at this level" (s-taskin.ads:306-308): no two of service, time-out *)
(* and abort both end a call, and none revives it.                         *)
(***************************************************************************)
OverIsFinal ==
  [][\A c \in Callers : State[c] \in Over /\ pc[c] # "idle" => State'[c] = State[c]]_vars

(***************************************************************************)
(* A call that was requeued without abort leaves its queue only to be      *)
(* served: no time-out and no abort takes it off.                          *)
(***************************************************************************)
StaysQueued ==
  [][\A c \in Callers : ~With_Abort[c] /\ Onqueue(c) => (Onqueue(c) \/ InService(c))']_vars

(***************************************************************************)
(* PO_Service_Entries "keeps checking barriers until all of them are       *)
(* closed" (s-tpobop.ads:104-106): an object is not left unlocked with a   *)
(* call queued on an open entry.                                           *)
(***************************************************************************)
NoOpenEntryLeft ==
  \A o \in Objects, e \in Entries : owner[o] = NoTask => ~Selectable(o, e)

(***************************************************************************)
(* "We just sleep until we get a wakeup for some status change"            *)
(* (s-taenca.adb:543-544): a caller does not sleep, with nobody to wake it,*)
(* when its call is over.                                                  *)
(***************************************************************************)
NoLostCompletion ==
  \A c \in Callers : pc[c] = "asleep" /\ State[c] \in Over => CV[c]

(***************************************************************************)
(* Nor does it sleep when its call is to be cancelled and can be: "we need *)
(* to keep waiting until the call has actually completed or been cancelled *)
(* successfully" (s-taenca.adb:586-587).                                   *)
(***************************************************************************)
NoLostCancellation ==
  \A c \in Callers :
    pc[c] = "asleep" /\ Pending(c) /\ State[c] = "Now_Abortable" => CV[c]

(***************************************************************************)
(* After the time-out the state is Now_Abortable "so that the call is      *)
(* marked as cancelled by Check_Pending_Actions_For_Entry_Call below"      *)
(* (s-taenca.adb:573-574): it is no longer Never_Abortable when the caller *)
(* looks at it, or sleeps for good.                                        *)
(***************************************************************************)
TimeOutTakesEffect ==
  \A c \in Callers :
    Timedout[c] /\ pc[c] \in {"polling", "asleep"} => State[c] # "Never_Abortable"

\* t is to lock an object that u holds.
WaitsFor(t, u) ==
  /\ At(t, "after")
  /\ LET f == Head(agenda[t])
     IN  /\ Call_In_Progress[f.obj] = NoTask
         /\ Called_PO[f.call] # f.obj /\ owner[Called_PO[f.call]] = u
  /\ u # t

(***************************************************************************)
(* Locks are taken so as "to prevent deadlock" (s-taskin.ads:54-55): tasks *)
(* that hold one object each do not wait for each other's.                 *)
(***************************************************************************)
NoCircularWait ==
  \A S \in SUBSET Tasks \ {{}} : \E t \in S : \A u \in S : ~WaitsFor(t, u)

(***************************************************************************)
(* Update_For_Queue_To_PO asserts of a conditional call that it has not    *)
(* been abortable when it is queued (s-tpobop.adb:1096-1099).              *)
(***************************************************************************)
ConditionalQueued ==
  \A c \in Callers : Onqueue(c) /\ Mode[c] = "Conditional_Call" =>
    State[c] = "Never_Abortable"

\* A call that is over returns: the caller is woken and gets all its locks.
CompletedReturns ==
  \A c \in Callers : InCall(c) /\ State[c] \in Over ~> ~InCall(c)

\* A call that timed out or whose task is aborted ends, unless it is protected
\* from that (abort deferred, or requeued without abort).
GivenUpEnds ==
  \A c \in Callers :
    InCall(c) /\ Pending(c) ~> ~InCall(c) \/ deferred[c] \/ ~With_Abort[c]
=============================================================================
