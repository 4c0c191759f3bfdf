----------------------------- MODULE AsyncDelays -----------------------------
(***************************************************************************)
(* Asynchronous select statements with a delay as trigger: the timer queue *)
(* and the Timer_Server task of System.Tasking.Async_Delays (s-taasde.adb) *)
(* with the part of the abort machinery it drives (Locked_Abort_To_Level,  *)
(* Do_Pending_Action, Exit_One_ATC_Level) and the Timed_Sleep/Wakeup it    *)
(* sleeps in.                                                              *)
(*                                                                         *)
(* Every client runs, MaxSelects times, the expansion that the comment of  *)
(* s-taasde.ads shows.  Its Delay_Block lives on its stack, at the same    *)
(* address in every round, so a client and its block have one name.        *)
(*                                                                         *)
(* A section under the lock of Timer_Server or of a client is one action.  *)
(* The one lock seen across actions is a client's, held by the server      *)
(* between marking a block and aborting its owner, because the fields of a *)
(* block are written outside any lock.  Clock readings are whole numbers.  *)
(***************************************************************************)
EXTENDS Naturals, FiniteSets

CONSTANTS
  Clients,           \* tasks with an asynchronous select, and their blocks
  Header,            \* the block Timer_Queue
  MaxTime,           \* bound on the clock
  MaxDelay,          \* largest delay a client asks for
  MaxSensibleDelay,  \* OSP.Max_Sensible_Delay
  MaxSelects         \* bound on the rounds of each client

ASSUME AsyncAssumption ==
  /\ Header \notin Clients
  /\ MaxTime \in Nat
  /\ MaxDelay \in Nat
  /\ MaxSensibleDelay \in Nat \ {0}
  /\ MaxSelects \in Nat

Nodes == Clients \cup {Header}

DurationLast == MaxTime + MaxDelay + MaxSensibleDelay + 1

ATC_Level_Infinity == 20

VARIABLES
  \* the Delay_Blocks
  Succ, Pred, Resume_Time, Timed_Out, Level,
  \* the clients' ATCBs
  ATC_Nesting_Level, Pending_ATC_Level, Pending_Action, Aborting,
  CV,               \* the event of the client's condition variable
  pc,               \* where each client is
  selects,          \* rounds each client has begun
  \* Timer_Server
  Timer_Attention, Next_Wakeup_Time, Now, Dequeued,
  serverCV,         \* the event of its condition variable
  server,           \* where it is
  \* Monotonic_Clock
  now

blocks  == <<Succ, Pred, Resume_Time, Timed_Out, Level>>
atcbs   == <<ATC_Nesting_Level, Pending_ATC_Level, Pending_Action, Aborting, CV>>
clients == <<pc, selects>>
serverVars == <<Timer_Attention, Next_Wakeup_Time, Now, Dequeued, serverCV, server>>
vars == <<blocks, atcbs, clients, serverVars, now>>

\* "linking" to "enqueued": in Time_Enqueue; "delaying": asleep in Timed_Delay;
\* "cleaning" to "exiting": in Cancel_Async_Delay; "leaving": its undefer.
ClientPCs == {"outside", "declared", "linking", "enqueued", "abortable", "delaying",
              "cleaning", "unlinking", "exiting", "leaving"}

\* "waking" is after the sleep or instead of it; "marking" and "aborting" are
\* between the two holds of the server's lock in the service loop.
ServerPCs == {"top", "asleep", "waking", "serving", "marking", "aborting"}

LesserOf(a, b) == IF a < b THEN a ELSE b

Init ==
  /\ Succ = [n \in Nodes |-> n]
  /\ Pred = [n \in Nodes |-> n]
  /\ Resume_Time = [n \in Nodes |-> IF n = Header THEN DurationLast ELSE 0]
  /\ Timed_Out = [c \in Clients |-> FALSE]
  /\ Level = [c \in Clients |-> ATC_Level_Infinity]
  /\ ATC_Nesting_Level = [c \in Clients |-> 1]
  /\ Pending_ATC_Level = [c \in Clients |-> ATC_Level_Infinity]
  /\ Pending_Action = [c \in Clients |-> FALSE]
  /\ Aborting = [c \in Clients |-> FALSE]
  /\ CV = [c \in Clients |-> FALSE]
  /\ pc = [c \in Clients |-> "outside"]
  /\ selects = [c \in Clients |-> 0]
  /\ Timer_Attention = FALSE
  /\ Next_Wakeup_Time = DurationLast
  /\ Now = 0
  /\ Dequeued = Header
  /\ serverCV = FALSE
  /\ server = "top"
  /\ now = 0

\* The server holds the lock of c's ATCB.
ServerHolds(c) == server = "aborting" /\ Dequeued = c

MoveClient(c, from, to) == pc[c] = from /\ pc' = [pc EXCEPT ![c] = to]

-----------------------------------------------------------------------------
(* The client.                                                             *)

\* The block is declared: Timed_Out has its default, the links are not yet set.
Declare(c) ==
  /\ selects[c] < MaxSelects
  /\ MoveClient(c, "outside", "declared")
  /\ selects' = [selects EXCEPT ![c] = @ + 1]
  /\ Timed_Out' = [Timed_Out EXCEPT ![c] = FALSE]
  /\ UNCHANGED <<Succ, Pred, Resume_Time, Level, atcbs, serverVars, now>>

\* Enqueue_Duration with T <= 0: the block is marked, nothing is queued.
EnqueueExpired(c) ==
  /\ MoveClient(c, "declared", "outside")
  /\ Timed_Out' = [Timed_Out EXCEPT ![c] = TRUE]
  /\ UNCHANGED <<Succ, Pred, Resume_Time, Level, atcbs, selects, serverVars, now>>

\* Enqueue_Duration with T > 0 and the part of Time_Enqueue before its lock.
EnqueueDuration(c, T) ==
  /\ now + T <= MaxTime
  /\ MoveClient(c, "declared", "linking")
  /\ ATC_Nesting_Level' = [ATC_Nesting_Level EXCEPT ![c] = @ + 1]
  /\ Level' = [Level EXCEPT ![c] = ATC_Nesting_Level[c] + 1]
  /\ Resume_Time' = [Resume_Time EXCEPT
                       ![c] = now + LesserOf(T, MaxSensibleDelay)]
  /\ UNCHANGED <<Succ, Pred, Timed_Out, Pending_ATC_Level, Pending_Action,
                 Aborting, CV, selects, serverVars, now>>

\* q is where the search of Time_Enqueue from the head of the queue stops: the
\* first queued block, or the header, that does not resume before time t.
StopsAt(q, t) ==
  /\ q = Header \/ Succ[q] # q
  /\ Resume_Time[q] >= t
  /\ Pred[q] = Header \/ Resume_Time[Pred[q]] < t

\* Mutant: the server is not woken for a new head.
SignalIfFirst_Silent(c) == UNCHANGED <<Timer_Attention, serverCV>>

\* A block that became the head of the queue has the server look at it.
SignalIfFirst(c) ==
  IF Succ'[Header] = c
    THEN Timer_Attention' = TRUE /\ serverCV' = TRUE
    ELSE UNCHANGED <<Timer_Attention, serverCV>>

\* The locked part of Time_Enqueue.
TimeEnqueue(c) ==
  /\ MoveClient(c, "linking", "enqueued")
  /\ \E q \in Nodes :
       /\ StopsAt(q, Resume_Time[c])
       /\ Succ' = [Succ EXCEPT ![c] = q, ![Pred[q]] = c]
       /\ Pred' = [Pred EXCEPT ![c] = Pred[q], ![q] = c]
  /\ SignalIfFirst(c)
  /\ UNCHANGED <<Resume_Time, Timed_Out, Level, atcbs, selects,
                 Next_Wakeup_Time, Now, Dequeued, server, now>>

AbortDue(c) == Pending_ATC_Level[c] < ATC_Nesting_Level[c]

(***************************************************************************)
(* Undefer_Abort with Deferral_Level going to 0, and Do_Pending_Action if  *)
(* an action is pending: raise Abort_Signal, which the cleanup handler of  *)
(* the abortable part catches, or carry on at k.  (ATC_Hack, which raises  *)
(* it again on the way out of nested selects, is never set here: its guard *)
(* in Exit_One_ATC_Level contradicts AbortEndsWithSelect.)                 *)
(***************************************************************************)
Undefer(c, k) ==
  /\ Pending_Action[c] => ~ServerHolds(c)
  /\ Pending_Action' = [Pending_Action EXCEPT ![c] = FALSE]
  /\ LET raise == Pending_Action[c] /\ AbortDue(c) /\ ~Aborting[c]
     IN /\ Aborting' = [Aborting EXCEPT ![c] = @ \/ raise]
        /\ pc' = [pc EXCEPT ![c] = IF raise THEN "cleaning" ELSE k]
  /\ UNCHANGED <<blocks, ATC_Nesting_Level, Pending_ATC_Level, CV, selects,
                 serverVars, now>>

\* abort_undefer.all, at the start of the abortable part.
StartAbortable(c) == pc[c] = "enqueued" /\ Undefer(c, "abortable")

\* The abortable part calls the run time, and polls for abort on the way out.
PollAbort(c) == pc[c] = "abortable" /\ Undefer(c, "abortable")

\* Mutant: no test for an abort before going to sleep.
TimedDelay_Unchecked(c) ==
  /\ pc[c] = "abortable" \/ (pc[c] = "delaying" /\ CV[c])
  /\ ~ServerHolds(c)
  /\ CV' = [CV EXCEPT ![c] = FALSE]
  /\ pc' = [pc EXCEPT ![c] = "delaying"]
  /\ UNCHANGED <<blocks, ATC_Nesting_Level, Pending_ATC_Level, Pending_Action,
                 Aborting, selects, serverVars, now>>

(***************************************************************************)
(* Timed_Delay in the abortable part, for longer than the model runs:      *)
(* under its own lock the client sleeps, resetting its event first, unless *)
(* an abort is due; woken, it looks again.                                 *)
(***************************************************************************)
TimedDelay(c) ==
  /\ pc[c] = "abortable" \/ (pc[c] = "delaying" /\ CV[c])
  /\ ~ServerHolds(c)
  /\ \/ /\ AbortDue(c)
        /\ pc' = [pc EXCEPT ![c] = "enqueued"]   \* Undefer_Abort comes next
        /\ UNCHANGED CV
     \/ /\ ~AbortDue(c)
        /\ CV' = [CV EXCEPT ![c] = FALSE]
        /\ pc' = [pc EXCEPT ![c] = "delaying"]
  /\ UNCHANGED <<blocks, ATC_Nesting_Level, Pending_ATC_Level, Pending_Action,
                 Aborting, selects, serverVars, now>>

\* The abortable part completes.
CompleteAbortable(c) ==
  /\ MoveClient(c, "abortable", "cleaning")
  /\ UNCHANGED <<blocks, atcbs, selects, serverVars, now>>

\* Mutant: the block is not marked cancelled.
CancelUnmarked(c) ==
  /\ MoveClient(c, "cleaning", "unlinking")
  /\ UNCHANGED <<blocks, atcbs, selects, serverVars, now>>

\* Cancel_Async_Delay, up to its first lock: the block is marked cancelled.
CancelAsyncDelay(c) ==
  /\ MoveClient(c, "cleaning", "unlinking")
  /\ Level' = [Level EXCEPT ![c] = ATC_Level_Infinity]
  /\ UNCHANGED <<Succ, Pred, Resume_Time, Timed_Out, atcbs, selects,
                 serverVars, now>>

\* The block leaves the queue (again, if the server has removed it).
CancelUnlink(c) ==
  /\ MoveClient(c, "unlinking", "exiting")
  /\ Succ' = [Succ EXCEPT ![Pred[c]] = Succ[c], ![c] = c]
  /\ Pred' = [Pred EXCEPT ![Succ[c]] = Pred[c], ![c] = c]
  /\ UNCHANGED <<Resume_Time, Timed_Out, Level, atcbs, selects, serverVars, now>>

\* Exit_One_ATC_Level, under the client's own lock.
ExitOneATCLevel(c) ==
  /\ ~ServerHolds(c)
  /\ MoveClient(c, "exiting", "leaving")
  /\ ATC_Nesting_Level' = [ATC_Nesting_Level EXCEPT ![c] = @ - 1]
  /\ IF Pending_ATC_Level[c] = ATC_Nesting_Level[c] - 1
       THEN /\ Pending_ATC_Level' = [Pending_ATC_Level EXCEPT
                                       ![c] = ATC_Level_Infinity]
            /\ Aborting' = [Aborting EXCEPT ![c] = FALSE]
       ELSE UNCHANGED <<Pending_ATC_Level, Aborting>>
  /\ UNCHANGED <<blocks, Pending_Action, CV, selects, serverVars, now>>

\* Undefer_Abort_Nestable at the end of Cancel_Async_Delay.
LeaveSelect(c) == pc[c] = "leaving" /\ Undefer(c, "outside")

-----------------------------------------------------------------------------
(* Timer_Server.                                                           *)

\* The top of the loop: sleep, unless a client has asked for attention.
ServerTop ==
  /\ server = "top"
  /\ IF Timer_Attention
       THEN server' = "waking" /\ UNCHANGED <<Next_Wakeup_Time, serverCV>>
       ELSE /\ Next_Wakeup_Time' = IF Next_Wakeup_Time = DurationLast
                                     THEN now + MaxSensibleDelay
                                     ELSE Next_Wakeup_Time
            /\ IF Next_Wakeup_Time' > now
                 THEN server' = "asleep" /\ serverCV' = FALSE
                 ELSE server' = "waking" /\ UNCHANGED serverCV
  /\ UNCHANGED <<blocks, atcbs, clients, Timer_Attention, Now, Dequeued, now>>

\* Timed_Sleep returns: the event was set, or the time has come (in which case
\* Cond_Timed_Wait may set the event itself).
ServerWake ==
  /\ server = "asleep"
  /\ serverCV \/ now >= Next_Wakeup_Time
  /\ server' = "waking"
  /\ serverCV' = TRUE
  /\ UNCHANGED <<blocks, atcbs, clients, Timer_Attention, Next_Wakeup_Time,
                 Now, Dequeued, now>>

\* Mutant: the last block is taken off when the first has expired.
ServeTail(t) ==
  LET head == Succ[Header]
      tail == Pred[Header]
  IN IF Resume_Time[head] <= t
       THEN /\ Dequeued' = tail
            /\ Succ' = [Succ EXCEPT ![Pred[tail]] = Header, ![tail] = tail]
            /\ Pred' = [Pred EXCEPT ![Header] = Pred[tail], ![tail] = tail]
            /\ server' = "marking"
            /\ UNCHANGED Next_Wakeup_Time
       ELSE /\ Next_Wakeup_Time' = Resume_Time[head]
            /\ server' = "top"
            /\ UNCHANGED <<Succ, Pred, Dequeued>>

\* One look at the head of the queue, at time t: take it off, or stop serving.
ServeHead(t) ==
  LET head == Succ[Header]
  IN IF Resume_Time[head] <= t
       THEN /\ Dequeued' = head
            /\ Succ' = [Succ EXCEPT ![Header] = Succ[head], ![head] = head]
            /\ Pred' = [Pred EXCEPT ![Succ[head]] = Pred[head], ![head] = head]
            /\ server' = "marking"
            /\ UNCHANGED Next_Wakeup_Time
       ELSE /\ Next_Wakeup_Time' = Resume_Time[head]
            /\ server' = "top"
            /\ UNCHANGED <<Succ, Pred, Dequeued>>

\* The wait is over and the server still has its lock: read the clock, serve.
ServerServe ==
  /\ server = "waking"
  /\ Timer_Attention' = FALSE
  /\ Now' = now
  /\ ServeHead(now)
  /\ UNCHANGED <<Resume_Time, Timed_Out, Level, atcbs, clients, serverCV, now>>

\* The service loop goes round, with the Now it has.
ServerNext ==
  /\ server = "serving"
  /\ ServeHead(Now)
  /\ UNCHANGED <<Resume_Time, Timed_Out, Level, atcbs, clients,
                 Timer_Attention, Now, serverCV, now>>

\* Without its own lock, with that of Dequeued.Self_Id: Timed_Out := True.
ServerMark ==
  /\ server = "marking"
  /\ server' = "aborting"
  /\ Timed_Out' = [Timed_Out EXCEPT ![Dequeued] = TRUE]
  /\ UNCHANGED <<Succ, Pred, Resume_Time, Level, atcbs, clients,
                 Timer_Attention, Next_Wakeup_Time, Now, Dequeued, serverCV, now>>

\* Mutant: a task in Delay_Sleep is not woken.
LockedAbortSilent(c, l) ==
  /\ UNCHANGED CV
  /\ IF Pending_ATC_Level[c] > l
       THEN /\ Pending_ATC_Level' = [Pending_ATC_Level EXCEPT ![c] = l]
            /\ Pending_Action' = [Pending_Action EXCEPT ![c] = TRUE]
       ELSE UNCHANGED <<Pending_ATC_Level, Pending_Action>>

\* Locked_Abort_To_Level (Timer_Server_ID, Dequeued.Self_Id, Dequeued.Level - 1).
LockedAbortToLevel(c, l) ==
  /\ CV' = [CV EXCEPT ![c] = @ \/ (~Aborting[c] /\ pc[c] = "delaying")]
  /\ IF Pending_ATC_Level[c] > l
       THEN /\ Pending_ATC_Level' = [Pending_ATC_Level EXCEPT ![c] = l]
            /\ Pending_Action' = [Pending_Action EXCEPT ![c] = TRUE]
       ELSE UNCHANGED <<Pending_ATC_Level, Pending_Action>>

ServerAbort ==
  /\ server = "aborting"
  /\ server' = "serving"
  /\ LockedAbortToLevel(Dequeued, Level[Dequeued] - 1)
  /\ UNCHANGED <<blocks, ATC_Nesting_Level, Aborting, clients, Timer_Attention,
                 Next_Wakeup_Time, Now, Dequeued, serverCV, now>>

-----------------------------------------------------------------------------
Tick ==
  /\ now < MaxTime
  /\ now' = now + 1
  /\ UNCHANGED <<blocks, atcbs, clients, serverVars>>

Server == ServerTop \/ ServerWake \/ ServerServe \/ ServerNext \/ ServerMark
            \/ ServerAbort

\* What the thread of c does inside the run time, whatever the program does.
RunTimeStep(c) ==
  \/ EnqueueExpired(c)
  \/ \E T \in 1..MaxDelay : EnqueueDuration(c, T)
  \/ TimeEnqueue(c)
  \/ StartAbortable(c)
  \/ pc[c] = "delaying" /\ TimedDelay(c)
  \/ CancelAsyncDelay(c)
  \/ CancelUnlink(c)
  \/ ExitOneATCLevel(c)
  \/ LeaveSelect(c)

\* What the program of c chooses to do.
ProgramStep(c) ==
  \/ Declare(c)
  \/ PollAbort(c)
  \/ pc[c] = "abortable" /\ TimedDelay(c)
  \/ CompleteAbortable(c)

Next ==
  \/ Server
  \/ Tick
  \/ \E c \in Clients : RunTimeStep(c) \/ ProgramStep(c)

Spec == Init /\ [][Next]_vars

(***************************************************************************)
(* Time passes, the server runs and a client inside the run time gets on.  *)
(* An abortable part is obliged to nothing.                                *)
(***************************************************************************)
FairSpec ==
  /\ Spec
  /\ WF_vars(Tick)
  /\ WF_vars(Server)
  /\ \A c \in Clients : WF_vars(RunTimeStep(c))

-----------------------------------------------------------------------------
TypeOK ==
  /\ Succ \in [Nodes -> Nodes]
  /\ Pred \in [Nodes -> Nodes]
  /\ Resume_Time \in [Nodes -> 0..DurationLast]
  /\ Timed_Out \in [Clients -> BOOLEAN]
  /\ Level \in [Clients -> {2, ATC_Level_Infinity}]
  /\ ATC_Nesting_Level \in [Clients -> {1, 2}]
  /\ Pending_ATC_Level \in [Clients -> {1, ATC_Level_Infinity - 1, ATC_Level_Infinity}]
  /\ Pending_Action \in [Clients -> BOOLEAN]
  /\ Aborting \in [Clients -> BOOLEAN]
  /\ CV \in [Clients -> BOOLEAN]
  /\ pc \in [Clients -> ClientPCs]
  /\ selects \in [Clients -> 0..MaxSelects]
  /\ Timer_Attention \in BOOLEAN
  /\ Next_Wakeup_Time \in 0..DurationLast
  /\ Now \in 0..MaxTime
  /\ Dequeued \in Nodes
  /\ serverCV \in BOOLEAN
  /\ server \in ServerPCs
  /\ now \in 0..MaxTime

Queued(c) == Succ[c] # c

\* A client's block is in scope and may be on the queue.
MayBeQueued(c) == pc[c] \in {"enqueued", "abortable", "delaying", "cleaning",
                             "unlinking"}

(***************************************************************************)
(* The queue stays a circular doubly linked list in the order of the       *)
(* resume times, whatever the client that cancels and the server that      *)
(* dequeues take off it, and in whichever order; and a block is off it     *)
(* before its client lets it go out of scope (Cancel_Async_Delay).         *)
(***************************************************************************)
LinksAgree == \A n \in Nodes : Pred[Succ[n]] = n /\ Succ[Pred[n]] = n

InOrder == \A n \in Nodes : Succ[n] # Header /\ n # Header =>
                              Resume_Time[n] <= Resume_Time[Succ[n]]

OffQueueInTime == \A c \in Clients : Queued(c) => MayBeQueued(c)

QueueWellFormed == LinksAgree /\ InOrder /\ OffQueueInTime

(***************************************************************************)
(* While the server sleeps it is either about to be woken or due to wake   *)
(* no later than the first delay of the queue expires: the insertion of an *)
(* earlier delay is never missed, wherever the server was when it happened *)
(* (Timer_Attention, Next_Wakeup_Time).                                    *)
(***************************************************************************)
NoMissedDeadline ==
  server = "asleep" =>
    serverCV \/ \A c \in Clients : Queued(c) => Next_Wakeup_Time <= Resume_Time[c]

(***************************************************************************)
(* A client asleep in its abortable part when its delay has expired and    *)
(* its abort was recorded has its event set: neither the reset in          *)
(* Cond_Timed_Wait nor a change of state loses the wakeup.                 *)
(***************************************************************************)
NoLostAbortWakeup ==
  \A c \in Clients : pc[c] = "delaying" /\ AbortDue(c) => CV[c]

(***************************************************************************)
(* The server reads Level without knowing whether the select is still      *)
(* there (s-taasde.adb:367-368).  Even so an abort that can be raised is   *)
(* recorded only while a select of the client is open, and is used up or   *)
(* forgotten when that select is left: none stays behind for what follows. *)
(* (Which delay the open select has is another matter: AbortIsTimeout.)    *)
(***************************************************************************)
AbortEndsWithSelect ==
  \A c \in Clients :
    /\ \/ Pending_ATC_Level[c] >= ATC_Level_Infinity - 1
       \/ AbortDue(c)
    /\ Aborting[c] => Pending_ATC_Level[c] = ATC_Nesting_Level[c] - 1

(***************************************************************************)
(* An abortable part is aborted because the delay of its own select has    *)
(* expired, and finds it marked so: the select then executes the triggered *)
(* statements ("if Timed_Out then", s-taasde.ads:46-90).  Not so when the  *)
(* server dequeued the block of an earlier select at the same address.     *)
(***************************************************************************)
AbortIsTimeout ==
  \A c \in Clients : Aborting[c] => Timed_Out[c] /\ Resume_Time[c] <= now

\* Abort_Signal is only raised in the abortable part of a select (s-taasde.ads).
RaisedInAbortablePart ==
  [][\A c \in Clients : Aborting'[c] /\ ~Aborting[c] =>
       pc[c] \in {"enqueued", "abortable"}]_vars

(***************************************************************************)
(* "... that is OK because we always restart the next iteration at the     *)
(* head of the queue" (s-taasde.adb:355-360): what other tasks do while    *)
(* the server is between two holds of its lock does no harm.  In           *)
(* particular no delay is reported as timed out before its time.           *)
(***************************************************************************)
NoPrematureTimeout ==
  \A c \in Clients :
    pc[c] \notin {"outside", "declared"} /\ Timed_Out[c] => Resume_Time[c] <= now

(***************************************************************************)
(* The assertion of Exit_One_ATC_Level (s-tasuti.adb:222-223): a pending   *)
(* abort is for the level the task exits to or for one outside it.         *)
(***************************************************************************)
ExitLevelAssertion ==
  \A c \in Clients :
    pc[c] = "exiting" /\ ~ServerHolds(c)
      => \/ Pending_ATC_Level[c] = ATC_Level_Infinity
         \/ Pending_ATC_Level[c] <= ATC_Nesting_Level[c] - 1

\* Every delay that expires is taken off the queue: nobody waits for it forever.
ExpiredIsServed ==
  \A c \in Clients : Queued(c) /\ Resume_Time[c] <= now ~> ~Queued(c)

\* A client asleep in its abortable part when its delay times out gets out.
TimeoutInterruptsSleep ==
  \A c \in Clients : pc[c] = "delaying" /\ Timed_Out[c] ~> pc[c] # "delaying"
=============================================================================
