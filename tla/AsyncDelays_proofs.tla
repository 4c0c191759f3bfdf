-------------------------- MODULE AsyncDelays_proofs --------------------------
(***************************************************************************)
(* Theorems about AsyncDelays for any set of clients and any bounds on the *)
(* clock, the delays and the number of selects.                            *)
(***************************************************************************)
EXTENDS AsyncDelays, WellFoundedInduction, TLAPS

\* The client is inside its select statement, one ATC level down.
InSelect(c) == pc[c] \in {"linking", "enqueued", "abortable", "delaying",
                          "cleaning", "unlinking", "exiting"}

LevelMatches ==
  \A c \in Clients :
    /\ ATC_Nesting_Level[c] = IF InSelect(c) THEN 2 ELSE 1
    /\ Level[c] = 2 <=> pc[c] \in {"linking", "enqueued", "abortable",
                                   "delaying", "cleaning"}

\* A task that is being aborted runs its cleanup.
AbortingCleansUp ==
  \A c \in Clients : Aborting[c] => pc[c] \in {"cleaning", "unlinking", "exiting"}

\* Between the two holds of its lock the server has a client's block.
DequeuedIsBlock ==
  /\ server \in {"marking", "aborting"} => Dequeued \in Clients
  /\ Now <= now

HeaderIsLast == Resume_Time[Header] = DurationLast

(***************************************************************************)
(* The inductive invariant of the abort protocol.  AbortEndsWithSelect     *)
(* is inductive only together with what Level and ATC_Nesting_Level are at *)
(* each point of the client: the server reads both without knowing where   *)
(* the client is.                                                          *)
(***************************************************************************)
AInv ==
  /\ TypeOK
  /\ HeaderIsLast
  /\ LevelMatches
  /\ AbortingCleansUp
  /\ DequeuedIsBlock
  /\ AbortEndsWithSelect
  /\ NoLostAbortWakeup

\* Constants make sense.
LEMMA Constants ==
  /\ DurationLast \in Nat
  /\ MaxTime < DurationLast
  /\ MaxTime + MaxSensibleDelay < DurationLast
  /\ MaxTime + MaxDelay < DurationLast
  /\ MaxTime \in Nat /\ MaxDelay \in Nat /\ MaxSensibleDelay \in Nat
  /\ MaxSelects \in Nat
  /\ Header \in Nodes /\ Clients \subseteq Nodes
  /\ Header \notin Clients
  BY AsyncAssumption DEF AsyncAssumption, DurationLast, Nodes

LEMMA InitAInv == Init => AInv
<1> SUFFICES ASSUME Init PROVE AInv
  OBVIOUS
<1> USE Constants DEF Init
<1>1. TypeOK
  <2>1. /\ Succ \in [Nodes -> Nodes] /\ Pred \in [Nodes -> Nodes]
        /\ Resume_Time \in [Nodes -> 0..DurationLast]
    OBVIOUS
  <2>2. /\ Timed_Out \in [Clients -> BOOLEAN]
        /\ Pending_Action \in [Clients -> BOOLEAN]
        /\ Aborting \in [Clients -> BOOLEAN]
        /\ CV \in [Clients -> BOOLEAN]
    OBVIOUS
  <2>3. /\ Level \in [Clients -> {2, ATC_Level_Infinity}]
        /\ ATC_Nesting_Level \in [Clients -> {1, 2}]
        /\ Pending_ATC_Level \in [Clients ->
             {1, ATC_Level_Infinity - 1, ATC_Level_Infinity}]
        /\ pc \in [Clients -> ClientPCs]
        /\ selects \in [Clients -> 0..MaxSelects]
    BY DEF ClientPCs
  <2>4. /\ Next_Wakeup_Time \in 0..DurationLast
        /\ Now \in 0..MaxTime /\ now \in 0..MaxTime
        /\ Dequeued \in Nodes
    OBVIOUS
  <2> QED
    BY <2>1, <2>2, <2>3, <2>4 DEF TypeOK, ServerPCs
<1>2. HeaderIsLast /\ DequeuedIsBlock
  BY DEF HeaderIsLast, DequeuedIsBlock
<1>3. LevelMatches
  BY DEF LevelMatches, InSelect, ATC_Level_Infinity
<1>4. AbortingCleansUp /\ NoLostAbortWakeup
  BY DEF AbortingCleansUp, NoLostAbortWakeup
<1>5. AbortEndsWithSelect
  BY DEF AbortEndsWithSelect, ATC_Level_Infinity
<1> QED
  BY <1>1, <1>2, <1>3, <1>4, <1>5 DEF AInv

\* Client steps keep the types.
LEMMA ClientTypes ==
  ASSUME AInv, NEW c \in Clients, RunTimeStep(c) \/ ProgramStep(c)
  PROVE  TypeOK'
<1> USE Constants DEF AInv, TypeOK, ATC_Level_Infinity, ClientPCs, MoveClient
<1> DEFINE Rest == <<serverVars, now>>
<1>1. CASE Declare(c)
  BY <1>1 DEF Declare, atcbs, serverVars
<1>2. CASE EnqueueExpired(c)
  BY <1>2 DEF EnqueueExpired, atcbs, serverVars
<1>3. ASSUME NEW T \in 1..MaxDelay, EnqueueDuration(c, T) PROVE TypeOK'
  <2>1. ATC_Nesting_Level[c] = 1
    BY <1>3 DEF EnqueueDuration, LevelMatches, InSelect
  <2>2. now + LesserOf(T, MaxSensibleDelay) \in 0..DurationLast
    BY <1>3 DEF EnqueueDuration, LesserOf
  <2> QED
    BY <1>3, <2>1, <2>2 DEF EnqueueDuration, serverVars
<1>4. CASE TimeEnqueue(c)
  <2>1. PICK q \in Nodes :
           /\ Succ' = [Succ EXCEPT ![c] = q, ![Pred[q]] = c]
           /\ Pred' = [Pred EXCEPT ![c] = Pred[q], ![q] = c]
    BY <1>4 DEF TimeEnqueue
  <2>2. Succ' \in [Nodes -> Nodes] /\ Pred' \in [Nodes -> Nodes]
    BY <2>1
  <2>3. Timer_Attention' \in BOOLEAN /\ serverCV' \in BOOLEAN
    BY <1>4 DEF TimeEnqueue, SignalIfFirst
  <2> QED
    BY <1>4, <2>2, <2>3 DEF TimeEnqueue, atcbs
<1>5. ASSUME NEW k \in ClientPCs, Undefer(c, k) PROVE TypeOK'
  BY <1>5 DEF Undefer, blocks, serverVars
<1>6. CASE StartAbortable(c) \/ PollAbort(c) \/ LeaveSelect(c)
  BY <1>5, <1>6 DEF StartAbortable, PollAbort, LeaveSelect
<1>7. CASE TimedDelay(c)
  BY <1>7 DEF TimedDelay, blocks, serverVars
<1>8. CASE CompleteAbortable(c)
  BY <1>8 DEF CompleteAbortable, blocks, atcbs, serverVars
<1>9. CASE CancelAsyncDelay(c)
  BY <1>9 DEF CancelAsyncDelay, atcbs, serverVars
<1>10. CASE CancelUnlink(c)
  BY <1>10 DEF CancelUnlink, atcbs, serverVars
<1>11. CASE ExitOneATCLevel(c)
  <2>1. ATC_Nesting_Level[c] = 2
    BY <1>11 DEF ExitOneATCLevel, LevelMatches, InSelect
  <2>2. ATC_Nesting_Level' \in [Clients -> {1, 2}]
    BY <1>11, <2>1 DEF ExitOneATCLevel
  <2>3. /\ Pending_ATC_Level' \in [Clients -> {1, 19, 20}]
        /\ Aborting' \in [Clients -> BOOLEAN]
    <3>1. Pending_ATC_Level \in [Clients -> {1, 19, 20}]
      OBVIOUS
    <3> QED
      BY <1>11, <3>1 DEF ExitOneATCLevel
  <2> QED
    BY <1>11, <2>2, <2>3 DEF ExitOneATCLevel, blocks, serverVars
<1> QED
  BY <1>1, <1>2, <1>3, <1>4, <1>6, <1>7, <1>8, <1>9, <1>10, <1>11
  DEF RunTimeStep, ProgramStep

\* Server steps and the clock keep the types.
LEMMA ServerTypes ==
  ASSUME AInv, Server \/ Tick
  PROVE  TypeOK'
<1> USE Constants DEF AInv, TypeOK, ServerPCs
<1>1. CASE ServerTop
  <2>1. /\ Next_Wakeup_Time' \in 0..DurationLast
        /\ server' \in ServerPCs /\ serverCV' \in BOOLEAN
    <3>1. now + MaxSensibleDelay \in 0..DurationLast
      OBVIOUS
    <3> QED
      BY <1>1, <3>1 DEF ServerTop
  <2> QED
    BY <1>1, <2>1 DEF ServerTop, blocks, atcbs, clients
<1>2. CASE ServerWake
  BY <1>2 DEF ServerWake, blocks, atcbs, clients
<1>3. ASSUME NEW t \in 0..MaxTime, ServeHead(t)
      PROVE  /\ Succ' \in [Nodes -> Nodes] /\ Pred' \in [Nodes -> Nodes]
             /\ Next_Wakeup_Time' \in 0..DurationLast
             /\ Dequeued' \in Nodes /\ server' \in ServerPCs
  BY <1>3 DEF ServeHead
<1>4. CASE ServerServe
  BY <1>3, <1>4 DEF ServerServe, atcbs, clients
<1>5. CASE ServerNext
  BY <1>3, <1>5 DEF ServerNext, atcbs, clients
<1>6. CASE ServerMark
  BY <1>6 DEF ServerMark, DequeuedIsBlock, atcbs, clients
<1>7. CASE ServerAbort
  <2>1. Dequeued \in Clients /\ Level[Dequeued] - 1 \in {1, 19}
    BY <1>7 DEF ServerAbort, DequeuedIsBlock, ATC_Level_Infinity
  <2>2. Pending_ATC_Level \in [Clients -> {1, 19, 20}]
    BY DEF ATC_Level_Infinity
  <2>3. /\ CV' \in [Clients -> BOOLEAN]
        /\ Pending_ATC_Level' \in [Clients -> {1, 19, 20}]
        /\ Pending_Action' \in [Clients -> BOOLEAN]
    BY <1>7, <2>1, <2>2 DEF ServerAbort, LockedAbortToLevel
  <2> QED
    BY <1>7, <2>3 DEF ServerAbort, blocks, clients, ATC_Level_Infinity
<1>8. CASE Tick
  BY <1>8 DEF Tick, blocks, atcbs, clients, serverVars
<1> QED
  BY <1>1, <1>2, <1>4, <1>5, <1>6, <1>7, <1>8 DEF Server

\* Client steps keep the rest of the invariant.
LEMMA ClientAInv ==
  ASSUME AInv, NEW c \in Clients, RunTimeStep(c) \/ ProgramStep(c)
  PROVE  AInv'
<1>0. TypeOK /\ TypeOK'
  BY ClientTypes DEF AInv
<1> USE Constants DEF TypeOK, LevelMatches, InSelect, AbortingCleansUp,
                  DequeuedIsBlock, HeaderIsLast, AbortEndsWithSelect,
                  NoLostAbortWakeup, AbortDue, ATC_Level_Infinity, MoveClient
<1> DEFINE Rest == /\ HeaderIsLast /\ LevelMatches /\ AbortingCleansUp
                   /\ DequeuedIsBlock /\ AbortEndsWithSelect
                   /\ NoLostAbortWakeup
<1>R. Rest
  BY DEF AInv
<1> SUFFICES Rest'
  BY <1>0 DEF AInv
<1>1. CASE Declare(c)
  BY <1>0, <1>R, <1>1 DEF Declare, atcbs, serverVars
<1>2. CASE EnqueueExpired(c)
  BY <1>0, <1>R, <1>2 DEF EnqueueExpired, atcbs, serverVars
<1>3. ASSUME NEW T \in 1..MaxDelay, EnqueueDuration(c, T) PROVE Rest'
  <2>1. Resume_Time'[Header] = Resume_Time[Header]
    BY <1>0, <1>3 DEF EnqueueDuration
  <2> QED
    BY <1>0, <1>R, <1>3, <2>1 DEF EnqueueDuration, serverVars
<1>4. CASE TimeEnqueue(c)
  BY <1>0, <1>R, <1>4 DEF TimeEnqueue, atcbs
<1>5. ASSUME NEW k \in {"abortable", "outside"}, Undefer(c, k),
             pc[c] \in {"enqueued", "abortable", "leaving"},
             k = "outside" <=> pc[c] = "leaving"
      PROVE  Rest'
  <2>1. CASE Pending_Action[c] /\ AbortDue(c) /\ ~Aborting[c]
    <3>1. /\ pc' = [pc EXCEPT ![c] = "cleaning"]
          /\ Aborting' = [Aborting EXCEPT ![c] = TRUE]
      BY <1>0, <1>5, <2>1 DEF Undefer
    <3>2. pc[c] # "leaving"
      BY <1>0, <1>R, <2>1
    <3> QED
      BY <1>0, <1>R, <1>5, <2>1, <3>1, <3>2 DEF Undefer, blocks, serverVars
  <2>2. CASE ~(Pending_Action[c] /\ AbortDue(c) /\ ~Aborting[c])
    <3>1. /\ pc' = [pc EXCEPT ![c] = k]
          /\ \A d \in Clients : Aborting'[d] <=> Aborting[d]
      BY <1>0, <1>5, <2>2 DEF Undefer
    <3> QED
      BY <1>0, <1>R, <1>5, <3>1 DEF Undefer, blocks, serverVars
  <2> QED
    BY <2>1, <2>2
<1>6. CASE StartAbortable(c) \/ PollAbort(c) \/ LeaveSelect(c)
  <2>1. CASE StartAbortable(c) \/ PollAbort(c)
    <3>1. Undefer(c, "abortable") /\ pc[c] \in {"enqueued", "abortable"}
      BY <2>1 DEF StartAbortable, PollAbort
    <3> QED
      BY <1>5, <3>1
  <2>2. CASE LeaveSelect(c)
    <3>1. Undefer(c, "outside") /\ pc[c] = "leaving"
      BY <2>2 DEF LeaveSelect
    <3> QED
      BY <1>5, <3>1
  <2> QED
    BY <1>6, <2>1, <2>2
<1>7. CASE TimedDelay(c)
  <2>1. CASE AbortDue(c)
    BY <1>0, <1>R, <1>7, <2>1 DEF TimedDelay, blocks, serverVars
  <2>2. CASE ~AbortDue(c)
    BY <1>0, <1>R, <1>7, <2>2 DEF TimedDelay, blocks, serverVars
  <2> QED
    BY <2>1, <2>2
<1>8. CASE CompleteAbortable(c)
  BY <1>0, <1>R, <1>8 DEF CompleteAbortable, blocks, atcbs, serverVars
<1>9. CASE CancelAsyncDelay(c)
  BY <1>0, <1>R, <1>9 DEF CancelAsyncDelay, atcbs, serverVars
<1>10. CASE CancelUnlink(c)
  BY <1>0, <1>R, <1>10 DEF CancelUnlink, atcbs, serverVars
<1>11. CASE ExitOneATCLevel(c)
  BY <1>0, <1>R, <1>11 DEF ExitOneATCLevel, blocks, serverVars
<1> QED
  BY <1>1, <1>2, <1>3, <1>4, <1>6, <1>7, <1>8, <1>9, <1>10, <1>11
  DEF RunTimeStep, ProgramStep

\* Server steps and the clock keep the rest of the invariant.
LEMMA ServerAInv ==
  ASSUME AInv, Server \/ Tick
  PROVE  AInv'
<1>0. TypeOK /\ TypeOK'
  BY ServerTypes DEF AInv
<1> USE Constants DEF TypeOK, LevelMatches, InSelect, AbortingCleansUp,
                  DequeuedIsBlock, HeaderIsLast, AbortEndsWithSelect,
                  NoLostAbortWakeup, AbortDue
<1> DEFINE Rest == /\ HeaderIsLast /\ LevelMatches /\ AbortingCleansUp
                   /\ DequeuedIsBlock /\ AbortEndsWithSelect
                   /\ NoLostAbortWakeup
<1>R. Rest
  BY DEF AInv
<1> SUFFICES Rest'
  BY <1>0 DEF AInv
<1>1. CASE ServerTop
  BY <1>0, <1>R, <1>1 DEF ServerTop, blocks, atcbs, clients
<1>2. CASE ServerWake
  BY <1>0, <1>R, <1>2 DEF ServerWake, blocks, atcbs, clients
<1>3. ASSUME NEW t \in 0..now, ServeHead(t)
      PROVE  server' \in {"marking", "aborting"} => Dequeued' \in Clients
  BY <1>0, <1>R, <1>3 DEF ServeHead, Nodes
<1>4. CASE ServerServe
  <2>1. Now' <= now' /\ (server' \in {"marking", "aborting"} => Dequeued' \in Clients)
    BY <1>0, <1>3, <1>4 DEF ServerServe
  <2> QED
    BY <1>0, <1>R, <1>4, <2>1 DEF ServerServe, atcbs, clients
<1>5. CASE ServerNext
  <2>1. server' \in {"marking", "aborting"} => Dequeued' \in Clients
    BY <1>0, <1>R, <1>3, <1>5 DEF ServerNext
  <2> QED
    BY <1>0, <1>R, <1>5, <2>1 DEF ServerNext, atcbs, clients
<1>6. CASE ServerMark
  BY <1>0, <1>R, <1>6 DEF ServerMark, atcbs, clients
<1>7. CASE ServerAbort
  <2> DEFINE c == Dequeued
  <2>1. c \in Clients
    BY <1>R, <1>7 DEF ServerAbort
  <2>2. CASE Level[c] = 2
    <3>1. LockedAbortToLevel(c, 1) /\ ATC_Nesting_Level[c] = 2
      BY <1>R, <1>7, <2>1, <2>2 DEF ServerAbort
    <3> QED
      BY <1>0, <1>R, <1>7, <2>1, <3>1
      DEF ServerAbort, LockedAbortToLevel, blocks, clients, ATC_Level_Infinity
  <2>3. CASE Level[c] = 20
    <3>1. LockedAbortToLevel(c, 19)
      BY <1>7, <2>1, <2>3 DEF ServerAbort
    <3> QED
      BY <1>0, <1>R, <1>7, <2>1, <3>1
      DEF ServerAbort, LockedAbortToLevel, blocks, clients, ATC_Level_Infinity
  <2> QED
    BY <1>0, <2>1, <2>2, <2>3 DEF ATC_Level_Infinity
<1>8. CASE Tick
  BY <1>0, <1>R, <1>8 DEF Tick, blocks, atcbs, clients, serverVars
<1> QED
  BY <1>1, <1>2, <1>4, <1>5, <1>6, <1>7, <1>8 DEF Server

\* The invariant of the abort protocol holds in every reachable state.
LEMMA AbortInvariance == Spec => []AInv
<1>1. AInv /\ [Next]_vars => AInv'
  <2>1. CASE UNCHANGED vars
    BY <2>1
    DEF vars, blocks, atcbs, clients, serverVars, AInv, TypeOK, HeaderIsLast,
        LevelMatches, InSelect, AbortingCleansUp, DequeuedIsBlock,
        AbortEndsWithSelect, AbortDue, NoLostAbortWakeup
  <2> QED
    BY <2>1, ClientAInv, ServerAInv DEF Next
<1> QED
  BY <1>1, InitAInv, PTL DEF Spec

-----------------------------------------------------------------------------
(* Every variable keeps its type.                                          *)
THEOREM TypeCorrect == Spec => []TypeOK
<1>1. AInv => TypeOK
  BY DEF AInv
<1> QED
  BY <1>1, AbortInvariance, PTL

(* No abort that the server records stays behind when the select that was  *)
(* open then is left, however cancellation and abort interleave.           *)
THEOREM AbortEndsWithSelectHolds == Spec => []AbortEndsWithSelect
<1>1. AInv => AbortEndsWithSelect
  BY DEF AInv
<1> QED
  BY <1>1, AbortInvariance, PTL

(* A client asleep in its abortable part never misses its abort.           *)
THEOREM NoLostAbortWakeupHolds == Spec => []NoLostAbortWakeup
<1>1. AInv => NoLostAbortWakeup
  BY DEF AInv
<1> QED
  BY <1>1, AbortInvariance, PTL

-----------------------------------------------------------------------------
(***************************************************************************)
(* The queue.  S and P stand for Succ and Pred.                            *)
(***************************************************************************)
Inverse(S, P) == \A n \in Nodes : P[S[n]] = n /\ S[P[n]] = n

\* pos numbers the queue from the header on: the list has no second circle.
Ranks(S, P, pos) ==
  /\ pos \in [Nodes -> Nat]
  /\ \A c \in Clients : S[c] # c => pos[P[c]] < pos[c]

\* A non-empty set of numbers has a least one.
LEMMA LeastNumber ==
  ASSUME NEW T \in SUBSET Nat, T # {}
  PROVE  \E n \in T : \A m \in T : n <= m
<1>1. PICK n \in T : \A m \in T : <<m, n>> \notin OpToRel(<, Nat)
  BY NatLessThanWellFounded, WFMin
<1>2. \A m \in T : ~(m < n)
  BY <1>1 DEF OpToRel
<1> QED
  BY <1>2

UnlinkSucc(S, P, x) == [S EXCEPT ![P[x]] = S[x], ![x] = x]
UnlinkPred(S, P, x) == [P EXCEPT ![S[x]] = P[x], ![x] = x]

\* Taking a node off keeps the links inverse of each other.
LEMMA UnlinkLinks ==
  ASSUME NEW S \in [Nodes -> Nodes], NEW P \in [Nodes -> Nodes], Inverse(S, P),
         NEW x \in Clients
  PROVE  LET S2 == UnlinkSucc(S, P, x)
             P2 == UnlinkPred(S, P, x)
         IN /\ Inverse(S2, P2)
            /\ S2[x] = x /\ P2[x] = x
            /\ \A n \in Nodes \ {x} : S2[n] = IF n = P[x] THEN S[x] ELSE S[n]
            /\ \A n \in Nodes \ {x} : P2[n] = IF n = S[x] THEN P[x] ELSE P[n]
<1> DEFINE S2 == UnlinkSucc(S, P, x)
           P2 == UnlinkPred(S, P, x)
<1>0. x \in Nodes
  BY DEF Nodes
<1>1. \A n \in Nodes : S2[n] = IF n = x THEN x
                              ELSE IF n = P[x] THEN S[x] ELSE S[n]
  BY <1>0 DEF UnlinkSucc
<1>2. \A n \in Nodes : P2[n] = IF n = x THEN x
                              ELSE IF n = S[x] THEN P[x] ELSE P[n]
  BY <1>0 DEF UnlinkPred
<1>3. Inverse(S2, P2)
  <2> HIDE DEF S2, P2
  <2> QED
    BY <1>0, <1>1, <1>2 DEF Inverse
<1> QED
  BY <1>0, <1>1, <1>2, <1>3

InsertSucc(S, P, x, q) == [S EXCEPT ![x] = q, ![P[q]] = x]
InsertPred(S, P, x, q) == [P EXCEPT ![x] = P[q], ![q] = x]

\* Putting an unlinked node before q keeps the links inverse of each other.
LEMMA InsertLinks ==
  ASSUME NEW S \in [Nodes -> Nodes], NEW P \in [Nodes -> Nodes], Inverse(S, P),
         NEW x \in Clients, S[x] = x, NEW q \in Nodes, q # x
  PROVE  LET S2 == InsertSucc(S, P, x, q)
             P2 == InsertPred(S, P, x, q)
         IN /\ Inverse(S2, P2)
            /\ P[q] # x
            /\ \A n \in Nodes : S2[n] = IF n = x THEN q
                                         ELSE IF n = P[q] THEN x ELSE S[n]
            /\ \A n \in Nodes : P2[n] = IF n = x THEN P[q]
                                         ELSE IF n = q THEN x ELSE P[n]
<1> DEFINE S2 == InsertSucc(S, P, x, q)
           P2 == InsertPred(S, P, x, q)
<1>0. x \in Nodes /\ P[x] = x
  BY DEF Nodes, Inverse
<1>1. P[q] # x
  BY <1>0 DEF Inverse
<1>2. \A n \in Nodes : S2[n] = IF n = x THEN q
                              ELSE IF n = P[q] THEN x ELSE S[n]
  BY <1>0, <1>1 DEF InsertSucc
<1>3. \A n \in Nodes : P2[n] = IF n = x THEN P[q]
                              ELSE IF n = q THEN x ELSE P[n]
  BY <1>0, <1>1 DEF InsertPred
<1>4. Inverse(S2, P2)
  <2> HIDE DEF S2, P2
  <2> QED
    BY <1>0, <1>1, <1>2, <1>3 DEF Inverse
<1> QED
  BY <1>1, <1>2, <1>3, <1>4

Ranked == \E pos : Ranks(Succ, Pred, pos)

TimesBounded == \A c \in Clients : Resume_Time[c] < DurationLast

\* The server about to sleep, or asleep and not called, has the time it will
\* wake at no later than any queued delay.
WakeupCovers ==
  \/ server = "top" /\ ~Timer_Attention
  \/ server = "asleep" /\ ~serverCV
  => \A c \in Clients : Queued(c) => Next_Wakeup_Time <= Resume_Time[c]

(***************************************************************************)
(* The inductive invariant of the queue.  Order between neighbours says    *)
(* that the head is the earliest delay only if every queued block can be   *)
(* reached from the header: that is what the ranks are for.                *)
(***************************************************************************)
QInv ==
  /\ Inverse(Succ, Pred)
  /\ InOrder
  /\ OffQueueInTime
  /\ Ranked
  /\ TimesBounded
  /\ WakeupCovers

\* The head of the queue is the earliest of the queued delays.
LEMMA HeadFirst ==
  ASSUME AInv, QInv, NEW c \in Clients, Queued(c)
  PROVE  Resume_Time[Succ[Header]] <= Resume_Time[c]
<1> DEFINE head == Succ[Header]
           Early(d) == d \in Clients /\ Queued(d) /\ Resume_Time[d] < Resume_Time[head]
<1>1. PICK pos : Ranks(Succ, Pred, pos)
  BY DEF QInv, Ranked
<1>2. TypeOK /\ Inverse(Succ, Pred) /\ InOrder
  BY DEF AInv, QInv
<1>3. SUFFICES ASSUME Early(c) PROVE FALSE
  BY <1>2, Constants DEF TypeOK
<1> DEFINE T == {n \in Nat : \E d \in Clients : Early(d) /\ pos[d] = n}
<1>4. T \in SUBSET Nat /\ T # {}
  BY <1>1, <1>3, Constants DEF Ranks
<1>5. PICK n \in T : \A m \in T : n <= m
  BY <1>4, LeastNumber
<1>6. PICK d \in Clients : Early(d) /\ pos[d] = n
  BY <1>5
<1>7. Pred[d] # Header
  BY <1>2, <1>6, Constants DEF Inverse, TypeOK
<1>8. Pred[d] \in Clients /\ Queued(Pred[d])
  BY <1>2, <1>6, <1>7, Constants DEF Inverse, TypeOK, Queued, Nodes
<1>9. Resume_Time[Pred[d]] <= Resume_Time[d]
  BY <1>2, <1>6, <1>7, <1>8, Constants DEF Inverse, InOrder
<1>10. Early(Pred[d])
  BY <1>2, <1>6, <1>8, <1>9, Constants DEF TypeOK
<1>11. pos[Pred[d]] < n /\ pos[Pred[d]] \in Nat
  BY <1>1, <1>6, <1>8, Constants DEF Ranks, Queued
<1> QED
  BY <1>5, <1>8, <1>10, <1>11

LEMMA InitQInv == Init => QInv
<1> SUFFICES ASSUME Init PROVE QInv
  OBVIOUS
<1>1. Ranks(Succ, Pred, [n \in Nodes |-> 0])
  BY Constants DEF Init, Ranks
<1>2. Ranked
  BY <1>1 DEF Ranked
<1> QED
  BY <1>2, Constants DEF Init, QInv, Inverse, InOrder, OffQueueInTime, Queued,
     TimesBounded, WakeupCovers

\* Taking a block off keeps the queue's part of the invariant.
LEMMA UnlinkQueue ==
  ASSUME TypeOK, HeaderIsLast, QInv, NEW x \in Clients,
         Succ' = [Succ EXCEPT ![Pred[x]] = Succ[x], ![x] = x],
         Pred' = [Pred EXCEPT ![Succ[x]] = Pred[x], ![x] = x],
         UNCHANGED Resume_Time
  PROVE  /\ Inverse(Succ', Pred')
         /\ InOrder' /\ Ranked' /\ TimesBounded'
         /\ \A c \in Clients : Queued(c)' => Queued(c)
         /\ ~Queued(x)'
<1> USE Constants DEF TypeOK, QInv, Queued
<1>0. /\ Succ \in [Nodes -> Nodes] /\ Pred \in [Nodes -> Nodes]
      /\ Inverse(Succ, Pred) /\ x \in Clients
  OBVIOUS
<1>1. /\ Inverse(Succ', Pred')
      /\ Succ'[x] = x /\ Pred'[x] = x
      /\ \A n \in Nodes \ {x} : Succ'[n] = IF n = Pred[x] THEN Succ[x] ELSE Succ[n]
      /\ \A n \in Nodes \ {x} : Pred'[n] = IF n = Succ[x] THEN Pred[x] ELSE Pred[n]
  <2>1. /\ Succ' = UnlinkSucc(Succ, Pred, x)
        /\ Pred' = UnlinkPred(Succ, Pred, x)
    BY DEF UnlinkSucc, UnlinkPred
  <2> HIDE DEF TypeOK, QInv, Queued
  <2> DEFINE S2 == UnlinkSucc(Succ, Pred, x)
             P2 == UnlinkPred(Succ, Pred, x)
  <2>2. /\ Inverse(S2, P2)
        /\ S2[x] = x /\ P2[x] = x
        /\ \A n \in Nodes \ {x} : S2[n] = IF n = Pred[x] THEN Succ[x] ELSE Succ[n]
        /\ \A n \in Nodes \ {x} : P2[n] = IF n = Succ[x] THEN Pred[x] ELSE Pred[n]
    BY <1>0, UnlinkLinks
  <2> HIDE DEF S2, P2
  <2>3. Succ' = S2 /\ Pred' = P2
    BY <2>1 DEF S2, P2
  <2> QED
    BY <2>2, <2>3
<1>2. \A c \in Clients : Queued(c)' => Queued(c)
  BY <1>1 DEF Inverse
<1>3. InOrder'
  <2>1. SUFFICES ASSUME NEW n \in Nodes, Succ'[n] # Header, n # Header
                 PROVE  Resume_Time[n] <= Resume_Time[Succ'[n]]
    BY DEF InOrder
  <2>2. CASE n = x
    BY <1>1, <2>1, <2>2 DEF InOrder
  <2>3. CASE n # x /\ n # Pred[x]
    BY <1>1, <2>1, <2>3 DEF InOrder
  <2>4. CASE n # x /\ n = Pred[x]
    <3>1. Succ'[n] = Succ[x] /\ Succ[n] = x
      BY <1>1, <2>4 DEF Inverse
    <3>2. Resume_Time[n] <= Resume_Time[x] /\ Resume_Time[x] <= Resume_Time[Succ[x]]
      BY <2>1, <3>1 DEF InOrder
    <3> QED
      BY <3>1, <3>2
  <2> QED
    BY <2>2, <2>3, <2>4
<1>4. Ranked'
  <2>1. PICK pos : Ranks(Succ, Pred, pos)
    BY DEF Ranked
  <2>2. Ranks(Succ', Pred', pos)
    <3>1. ASSUME NEW c \in Clients, Succ'[c] # c PROVE pos[Pred'[c]] < pos[c]
      <4>1. c # x /\ Succ[c] # c
        BY <1>1, <1>2, <3>1
      <4>2. CASE c # Succ[x]
        BY <1>1, <2>1, <4>1, <4>2 DEF Ranks
      <4>3. CASE c = Succ[x]
        <5>1. Pred'[c] = Pred[x] /\ Pred[c] = x /\ Succ[x] # x
          BY <1>1, <4>1, <4>3 DEF Inverse
        <5>2. pos[Pred[x]] < pos[x] /\ pos[x] < pos[c]
          BY <2>1, <4>1, <5>1 DEF Ranks
        <5>3. pos[Pred[x]] \in Nat /\ pos[x] \in Nat /\ pos[c] \in Nat
          BY <2>1 DEF Ranks
        <5> HIDE DEF TypeOK, QInv
        <5> QED
          BY <5>1, <5>2, <5>3
      <4> QED
        BY <4>2, <4>3
    <3> QED
      BY <2>1, <3>1 DEF Ranks
  <2> QED
    BY <2>2 DEF Ranked
<1>5. TimesBounded'
  BY DEF TimesBounded
<1> QED
  BY <1>1, <1>2, <1>3, <1>4, <1>5

\* Client steps keep the queue's part of the invariant.
LEMMA EnqueueQueue ==
  ASSUME AInv, QInv, NEW c \in Clients, TimeEnqueue(c)
  PROVE  QInv'
<1>0. /\ TypeOK /\ HeaderIsLast
      /\ Inverse(Succ, Pred) /\ InOrder /\ OffQueueInTime /\ TimesBounded
      /\ Ranked /\ WakeupCovers
  BY DEF AInv, QInv
<1>1. PICK q \in Nodes :
        /\ StopsAt(q, Resume_Time[c])
        /\ Succ' = InsertSucc(Succ, Pred, c, q)
        /\ Pred' = InsertPred(Succ, Pred, c, q)
  BY DEF TimeEnqueue, InsertSucc, InsertPred
<1>2. pc[c] = "linking" /\ pc' = [pc EXCEPT ![c] = "enqueued"]
  BY DEF TimeEnqueue, MoveClient
<1>3. Succ[c] = c /\ q # c /\ c \in Nodes
  BY <1>0, <1>1, <1>2, Constants DEF OffQueueInTime, Queued, MayBeQueued, StopsAt
<1>4. /\ Inverse(Succ', Pred')
      /\ Pred[q] # c
      /\ \A n \in Nodes : Succ'[n] = IF n = c THEN q
                                      ELSE IF n = Pred[q] THEN c ELSE Succ[n]
      /\ \A n \in Nodes : Pred'[n] = IF n = c THEN Pred[q]
                                      ELSE IF n = q THEN c ELSE Pred[n]
  BY <1>0, <1>1, <1>3, InsertLinks DEF TypeOK
<1>5. UNCHANGED Resume_Time /\ Pred[q] \in Nodes /\ Succ[Pred[q]] = q
  BY <1>0 DEF TimeEnqueue, TypeOK, Inverse
<1>6. /\ Resume_Time[q] >= Resume_Time[c]
      /\ Pred[q] = Header \/ Resume_Time[Pred[q]] < Resume_Time[c]
  BY <1>1 DEF StopsAt
<1>7. \A d \in Clients : Queued(d)' => d = c \/ Queued(d)
  <2> SUFFICES ASSUME NEW d \in Clients, Succ'[d] # d, d # c PROVE Succ[d] # d
    BY DEF Queued
  <2>1. CASE d # Pred[q]
    BY <1>4, <2>1, Constants
  <2>2. CASE d = Pred[q]
    BY <1>1, <1>5, <2>2, Constants DEF StopsAt
  <2> QED
    BY <2>1, <2>2
<1>8. InOrder'
  BY <1>0, <1>3, <1>4, <1>5, <1>6, Constants DEF InOrder, TypeOK
<1>9. OffQueueInTime'
  BY <1>0, <1>2, <1>7 DEF OffQueueInTime, MayBeQueued, TypeOK
<1>10. Ranked'
  <2>1. PICK pos : Ranks(Succ, Pred, pos)
    BY <1>0 DEF Ranked
  <2> DEFINE a == pos[Pred[q]]
             up == [n \in Nodes |-> IF n = c THEN a + 1
                                   ELSE IF pos[n] > a THEN pos[n] + 1 ELSE pos[n]]
  <2>2. up \in [Nodes -> Nat] /\ a \in Nat
    BY <1>5, <2>1 DEF Ranks
  <2>3. ASSUME NEW d \in Clients, Succ'[d] # d PROVE up[Pred'[d]] < up[d]
    <3>0. d \in Nodes /\ pos \in [Nodes -> Nat]
      BY <2>1, Constants DEF Ranks
    <3>1. CASE d = c
      <4>1. Pred'[d] = Pred[q] /\ up[Pred[q]] = a /\ up[d] = a + 1
        BY <1>4, <1>5, <2>2, <3>0, <3>1
      <4> QED
        BY <2>2, <4>1
    <3>2. CASE d = q
      <4>1. Queued(d)
        BY <1>3, <1>7, <2>3, <3>2 DEF Queued
      <4>2. pos[Pred[q]] < pos[q]
        BY <2>1, <3>2, <4>1 DEF Ranks, Queued
      <4>3. Pred'[d] = c /\ up[c] = a + 1 /\ up[d] = pos[q] + 1
        BY <1>3, <1>4, <3>0, <3>2, <4>2
      <4> QED
        <5>1. a \in Nat /\ pos[q] \in Nat /\ a < pos[q]
          BY <2>2, <3>0, <4>2
        <5> HIDE DEF a, up
        <5> QED
          BY <4>3, <5>1
    <3>3. CASE d # c /\ d # q
      <4>1. Queued(d) /\ Pred'[d] = Pred[d] /\ Pred[d] \in Nodes
        BY <1>0, <1>4, <1>7, <2>3, <3>0, <3>3 DEF Queued, TypeOK
      <4>2. Pred[d] # c
        BY <1>0, <1>3, <3>0, <3>3 DEF Inverse, TypeOK
      <4>3. pos[Pred[d]] < pos[d]
        BY <2>1, <4>1 DEF Ranks, Queued
      <4> QED
        <5> DEFINE x == pos[Pred[d]]
                   y == pos[d]
        <5>1. x \in Nat /\ y \in Nat /\ x < y
          BY <3>0, <4>1, <4>3
        <5>2. /\ up[Pred'[d]] = IF x > a THEN x + 1 ELSE x
              /\ up[d] = IF y > a THEN y + 1 ELSE y
          BY <3>0, <3>3, <4>1, <4>2
        <5> HIDE DEF x, y, up, a
        <5> QED
          BY <2>2, <5>1, <5>2
    <3> QED
      BY <3>1, <3>2, <3>3
  <2>4. Ranks(Succ', Pred', up)
    BY <2>2, <2>3 DEF Ranks
  <2> QED
    BY <2>4 DEF Ranked
<1>11. TimesBounded'
  BY <1>0, <1>5 DEF TimesBounded
<1>12. WakeupCovers'
  <2>0. UNCHANGED <<server, Next_Wakeup_Time>>
    BY DEF TimeEnqueue
  <2>1. CASE Succ'[Header] = c
    BY <2>0, <2>1 DEF TimeEnqueue, SignalIfFirst, WakeupCovers
  <2>2. CASE Succ'[Header] # c
    <3>1. Pred[q] # Header
      BY <1>4, <2>2, Constants
    <3>2. Pred[q] \in Clients /\ Queued(Pred[q])
      BY <1>1, <1>5, <3>1 DEF StopsAt, Queued, Nodes
    <3>3. UNCHANGED <<Timer_Attention, serverCV>>
      BY <2>2 DEF TimeEnqueue, SignalIfFirst
    <3>4. WakeupCovers /\ Resume_Time[Pred[q]] < Resume_Time[c]
      BY <1>0, <1>6, <3>1
    <3>5. /\ Next_Wakeup_Time \in Nat
          /\ \A d \in Clients : Resume_Time[d] \in Nat
      BY <1>0, Constants DEF TypeOK
    <3>6. SUFFICES ASSUME \/ server = "top" /\ ~Timer_Attention
                          \/ server = "asleep" /\ ~serverCV,
                          NEW d \in Clients, Queued(d)'
                   PROVE  Next_Wakeup_Time <= Resume_Time[d]
      BY <1>5, <2>0, <3>3 DEF WakeupCovers
    <3>7. CASE d = c
      BY <3>2, <3>4, <3>5, <3>6, <3>7 DEF WakeupCovers
    <3>8. CASE Queued(d)
      BY <3>4, <3>6, <3>8 DEF WakeupCovers
    <3> QED
      BY <1>7, <3>6, <3>7, <3>8
  <2> QED
    BY <2>1, <2>2
<1> QED
  BY <1>4, <1>8, <1>9, <1>10, <1>11, <1>12 DEF QInv

LEMMA ClientQInv ==
  ASSUME AInv, QInv, NEW c \in Clients, RunTimeStep(c) \/ ProgramStep(c)
  PROVE  QInv'
<1>0. /\ TypeOK /\ HeaderIsLast
      /\ Inverse(Succ, Pred) /\ InOrder /\ OffQueueInTime /\ TimesBounded
      /\ Ranked /\ WakeupCovers
  BY DEF AInv, QInv
<1>q. ASSUME UNCHANGED <<Succ, Pred, Resume_Time, serverVars>>,
             pc' \in [Clients -> ClientPCs],
             \A d \in Clients : MayBeQueued(d) => MayBeQueued(d)'
      PROVE  QInv'
  BY <1>0, <1>q
  DEF QInv, Inverse, InOrder, OffQueueInTime, Queued, Ranked, TimesBounded,
      WakeupCovers, serverVars
<1>t. TypeOK'
  BY ClientTypes
<1> USE DEF MoveClient, MayBeQueued
<1>1. CASE Declare(c)
  BY <1>0, <1>q, <1>t, <1>1 DEF Declare, TypeOK
<1>2. CASE EnqueueExpired(c)
  BY <1>0, <1>q, <1>t, <1>2 DEF EnqueueExpired, TypeOK
<1>3. ASSUME NEW T \in 1..MaxDelay, EnqueueDuration(c, T) PROVE QInv'
  <2>0. c \in Nodes /\ Succ[c] = c
    BY <1>0, <1>3, Constants DEF EnqueueDuration, OffQueueInTime, Queued
  <2>1. /\ UNCHANGED <<Succ, Pred, serverVars>>
        /\ pc' = [pc EXCEPT ![c] = "linking"]
        /\ \A n \in Nodes \ {c} : Resume_Time'[n] = Resume_Time[n]
        /\ Resume_Time'[c] = now + LesserOf(T, MaxSensibleDelay)
    BY <1>0, <1>3, Constants DEF EnqueueDuration, TypeOK
  <2>2. TimesBounded'
    <3>1. Resume_Time'[c] < DurationLast
      BY <1>0, <1>3, <2>1, Constants DEF LesserOf, TypeOK
    <3> QED
      BY <1>0, <2>1, <3>1, Constants DEF TimesBounded
  <2>3. InOrder'
    <3>1. ASSUME NEW n \in Nodes, n # c PROVE Succ[n] # c
      BY <1>0, <2>0, <3>1 DEF Inverse
    <3>2. Resume_Time'[c] <= Resume_Time'[c]
      BY <1>t, <2>0 DEF TypeOK
    <3> QED
      BY <1>0, <2>0, <2>1, <3>1, <3>2 DEF InOrder, TypeOK
  <2>4. OffQueueInTime'
    BY <1>0, <1>3, <2>0, <2>1
    DEF OffQueueInTime, Queued, EnqueueDuration, TypeOK
  <2>5. WakeupCovers'
    BY <1>0, <2>0, <2>1, Constants DEF WakeupCovers, Queued, serverVars
  <2>6. Ranked' /\ Inverse(Succ', Pred')
    BY <1>0, <2>1 DEF Ranked, Inverse
  <2> QED
    BY <2>2, <2>3, <2>4, <2>5, <2>6 DEF QInv
<1>4. CASE TimeEnqueue(c)
  BY <1>4, EnqueueQueue
<1>5. ASSUME NEW k \in ClientPCs, Undefer(c, k),
             MayBeQueued(c) => k \in {"abortable"}
      PROVE  QInv'
  <2>1. \A d \in Clients : MayBeQueued(d) => MayBeQueued(d)'
    BY <1>0, <1>5 DEF Undefer, TypeOK
  <2> QED
    BY <1>q, <1>t, <1>5, <2>1 DEF Undefer, blocks, TypeOK
<1>6. CASE StartAbortable(c) \/ PollAbort(c) \/ LeaveSelect(c)
  <2>1. "abortable" \in ClientPCs /\ "outside" \in ClientPCs
    BY DEF ClientPCs
  <2>2. CASE StartAbortable(c) \/ PollAbort(c)
    BY <1>5, <2>1, <2>2 DEF StartAbortable, PollAbort
  <2>3. CASE LeaveSelect(c)
    BY <1>5, <2>1, <2>3 DEF LeaveSelect
  <2> QED
    BY <1>6, <2>2, <2>3
<1>7. CASE TimedDelay(c)
  BY <1>0, <1>q, <1>t, <1>7 DEF TimedDelay, blocks, TypeOK
<1>8. CASE CompleteAbortable(c)
  BY <1>0, <1>q, <1>t, <1>8 DEF CompleteAbortable, blocks, TypeOK
<1>9. CASE CancelAsyncDelay(c)
  BY <1>0, <1>q, <1>t, <1>9 DEF CancelAsyncDelay, TypeOK
<1>10. CASE CancelUnlink(c)
  <2>1. /\ Succ' = [Succ EXCEPT ![Pred[c]] = Succ[c], ![c] = c]
        /\ Pred' = [Pred EXCEPT ![Succ[c]] = Pred[c], ![c] = c]
        /\ UNCHANGED <<Resume_Time, serverVars>>
        /\ pc' = [pc EXCEPT ![c] = "exiting"]
    BY <1>10 DEF CancelUnlink
  <2>2. /\ Inverse(Succ', Pred')
        /\ InOrder' /\ Ranked' /\ TimesBounded'
        /\ \A d \in Clients : Queued(d)' => Queued(d)
        /\ ~Queued(c)'
    BY <1>0, <2>1, UnlinkQueue
  <2>3. OffQueueInTime'
    BY <1>0, <2>1, <2>2 DEF OffQueueInTime, TypeOK
  <2>4. WakeupCovers'
    BY <1>0, <2>1, <2>2 DEF WakeupCovers, serverVars
  <2> QED
    BY <2>2, <2>3, <2>4 DEF QInv
<1>11. CASE ExitOneATCLevel(c)
  BY <1>0, <1>q, <1>t, <1>11 DEF ExitOneATCLevel, blocks, TypeOK
<1> QED
  BY <1>1, <1>2, <1>3, <1>4, <1>6, <1>7, <1>8, <1>9, <1>10, <1>11
  DEF RunTimeStep, ProgramStep

LEMMA ServerQInv ==
  ASSUME AInv, QInv, Server \/ Tick
  PROVE  QInv'
<1>0. /\ TypeOK /\ HeaderIsLast /\ DequeuedIsBlock
      /\ Inverse(Succ, Pred) /\ InOrder /\ OffQueueInTime /\ TimesBounded
      /\ Ranked /\ WakeupCovers
  BY DEF AInv, QInv
<1>q. ASSUME UNCHANGED <<Succ, Pred, Resume_Time, pc>>, WakeupCovers'
      PROVE  QInv'
  BY <1>0, <1>q
  DEF QInv, Inverse, InOrder, OffQueueInTime, Queued, MayBeQueued, Ranked,
      TimesBounded
<1>1. CASE ServerTop
  <2>1. CASE Timer_Attention
    BY <1>0, <1>1, <1>q, <2>1
    DEF ServerTop, WakeupCovers, Queued, blocks, clients
  <2>2. CASE ~Timer_Attention
    <3>1. \A c \in Clients : Queued(c) => /\ Next_Wakeup_Time <= Resume_Time[c]
                                          /\ Resume_Time[c] < DurationLast
      BY <1>0, <1>1, <2>2 DEF ServerTop, WakeupCovers, TimesBounded
    <3>2. CASE Next_Wakeup_Time = DurationLast
      <4>1. \A c \in Clients : ~Queued(c)
        BY <1>0, <3>1, <3>2, Constants DEF TypeOK
      <4>2. \A c \in Clients : ~Queued(c)'
        BY <1>1, <4>1 DEF ServerTop, Queued, blocks
      <4> QED
        BY <1>1, <1>q, <4>2 DEF ServerTop, WakeupCovers, blocks, clients
    <3>3. CASE Next_Wakeup_Time # DurationLast
      BY <1>1, <1>q, <2>2, <3>1, <3>3
      DEF ServerTop, WakeupCovers, Queued, blocks, clients
    <3> QED
      BY <3>2, <3>3
  <2> QED
    BY <2>1, <2>2
<1>2. CASE ServerWake
  BY <1>q, <1>2 DEF ServerWake, WakeupCovers, blocks, clients
<1>3. ASSUME NEW t \in 0..now, ServeHead(t), UNCHANGED <<Resume_Time, pc>>
      PROVE  QInv'
  <2> DEFINE head == Succ[Header]
  <2>1. CASE Resume_Time[head] <= t
    <3>1. head \in Clients
      BY <1>0, <2>1, Constants DEF HeaderIsLast, TypeOK, Nodes
    <3>2. Pred[head] = Header
      BY <1>0, Constants DEF Inverse
    <3>3. /\ Succ' = [Succ EXCEPT ![Pred[head]] = Succ[head], ![head] = head]
          /\ Pred' = [Pred EXCEPT ![Succ[head]] = Pred[head], ![head] = head]
          /\ server' = "marking"
      BY <1>3, <2>1, <3>2 DEF ServeHead
    <3>4. /\ Inverse(Succ', Pred')
          /\ InOrder' /\ Ranked' /\ TimesBounded'
          /\ \A d \in Clients : Queued(d)' => Queued(d)
      BY <1>0, <1>3, <3>1, <3>3, UnlinkQueue
    <3>5. OffQueueInTime'
      BY <1>0, <1>3, <3>4 DEF OffQueueInTime, MayBeQueued
    <3>6. WakeupCovers'
      BY <3>3 DEF WakeupCovers
    <3> QED
      BY <3>4, <3>5, <3>6 DEF QInv
  <2>2. CASE ~(Resume_Time[head] <= t)
    <3>1. /\ UNCHANGED <<Succ, Pred>>
          /\ Next_Wakeup_Time' = Resume_Time[head]
      BY <1>3, <2>2 DEF ServeHead
    <3>2. \A c \in Clients : Queued(c) => Resume_Time[head] <= Resume_Time[c]
      BY HeadFirst
    <3>3. WakeupCovers'
      BY <1>3, <3>1, <3>2 DEF WakeupCovers, Queued
    <3> QED
      BY <1>3, <1>q, <3>1, <3>3
  <2> QED
    BY <2>1, <2>2
<1>4. CASE ServerServe
  BY <1>0, <1>3, <1>4, Constants DEF ServerServe, TypeOK, clients
<1>5. CASE ServerNext
  BY <1>0, <1>3, <1>5, Constants DEF ServerNext, TypeOK, DequeuedIsBlock, clients
<1>6. CASE ServerMark
  BY <1>q, <1>6 DEF ServerMark, WakeupCovers, clients
<1>7. CASE ServerAbort
  BY <1>q, <1>7 DEF ServerAbort, WakeupCovers, blocks, clients
<1>8. CASE Tick
  BY <1>0, <1>q, <1>8 DEF Tick, WakeupCovers, Queued, blocks, clients, serverVars
<1> QED
  BY <1>1, <1>2, <1>4, <1>5, <1>6, <1>7, <1>8 DEF Server

\* The queue's part of the invariant holds in every reachable state.
LEMMA QueueInvariance == Spec => []QInv
<1>1. AInv /\ QInv /\ [Next]_vars => QInv'
  <2>1. CASE UNCHANGED vars
    BY <2>1
    DEF vars, blocks, clients, serverVars, QInv, Inverse, InOrder,
        OffQueueInTime, Queued, MayBeQueued, Ranked, TimesBounded, WakeupCovers
  <2> QED
    BY <2>1, ClientQInv, ServerQInv DEF Next
<1> QED
  BY <1>1, InitQInv, AbortInvariance, PTL DEF Spec

-----------------------------------------------------------------------------
(* The timer queue is a sorted doubly linked circle, and no block is on it *)
(* outside its select statement.                                           *)
THEOREM QueueWellFormedHolds == Spec => []QueueWellFormed
<1>1. QInv => QueueWellFormed
  BY DEF QInv, QueueWellFormed, Inverse, LinksAgree
<1> QED
  BY <1>1, QueueInvariance, PTL

(* A sleeping server that nobody has called wakes in time for every delay. *)
THEOREM NoMissedDeadlineHolds == Spec => []NoMissedDeadline
<1>1. QInv => NoMissedDeadline
  BY DEF QInv, WakeupCovers, NoMissedDeadline
<1> QED
  BY <1>1, QueueInvariance, PTL

(* Abort_Signal is raised in no other place than an abortable part.        *)
THEOREM RaisedInAbortablePartHolds == Spec => RaisedInAbortablePart
<1> DEFINE Raised(c) == Aborting'[c] /\ ~Aborting[c]
<1>1. ASSUME AInv, [Next]_vars, NEW c \in Clients, Raised(c)
      PROVE  pc[c] \in {"enqueued", "abortable"}
  <2>1. CASE UNCHANGED vars
    BY <1>1, <2>1 DEF vars, atcbs
  <2>2. CASE Server \/ Tick
    BY <1>1, <2>2
    DEF Server, Tick, ServerTop, ServerWake, ServerServe, ServerNext,
        ServerMark, ServerAbort, atcbs
  <2>3. ASSUME NEW d \in Clients, NEW k \in ClientPCs, Undefer(d, k),
               pc[d] \in {"enqueued", "abortable", "leaving"}
        PROVE  pc[c] \in {"enqueued", "abortable"}
    <3>1. d = c /\ AbortDue(c)
      BY <1>1, <2>3 DEF AInv, TypeOK, Undefer
    <3>2. pc[c] # "leaving"
      BY <1>1, <3>1
      DEF AInv, LevelMatches, InSelect, AbortDue, TypeOK, ATC_Level_Infinity
    <3> QED
      BY <2>3, <3>1, <3>2
  <2>4. ASSUME NEW d \in Clients, RunTimeStep(d) \/ ProgramStep(d)
        PROVE  pc[c] \in {"enqueued", "abortable"}
    <3>1. CASE StartAbortable(d) \/ PollAbort(d) \/ LeaveSelect(d)
      <4>1. "abortable" \in ClientPCs /\ "outside" \in ClientPCs
        BY DEF ClientPCs
      <4> QED
        BY <2>3, <3>1, <4>1 DEF StartAbortable, PollAbort, LeaveSelect
    <3>2. CASE ExitOneATCLevel(d)
      BY <1>1, <3>2 DEF ExitOneATCLevel, AInv, TypeOK
    <3> QED
      BY <1>1, <2>4, <3>1, <3>2
      DEF RunTimeStep, ProgramStep, Declare, EnqueueExpired, EnqueueDuration,
          TimeEnqueue, TimedDelay, CompleteAbortable, CancelAsyncDelay,
          CancelUnlink, atcbs
  <2> QED
    BY <1>1, <2>1, <2>2, <2>4 DEF Next
<1>2. AInv /\ [Next]_vars =>
        [\A c \in Clients : Raised(c) => pc[c] \in {"enqueued", "abortable"}]_vars
  BY <1>1
<1> QED
  BY <1>2, AbortInvariance, PTL DEF Spec, RaisedInAbortablePart

-----------------------------------------------------------------------------
(* Time-outs.                                                              *)

\* A client declares the block of its next select where it had the one that
\* the server has taken off the queue and not marked yet.
Reuses(c) == Declare(c) /\ server = "marking" /\ Dequeued = c

\* The block of a client that has not enqueued it is not timed out, and what
\* the server is about to mark has expired.
TimeoutsDue ==
  /\ NoPrematureTimeout
  /\ \A c \in Clients : pc[c] = "declared" => ~Timed_Out[c]
  /\ server = "marking" => pc[Dequeued] # "declared" /\ Resume_Time[Dequeued] <= now

\* What the server takes off the queue is a client's block, and expired.
LEMMA DequeuedExpired ==
  ASSUME AInv, QInv, NEW t \in 0..MaxTime, t <= now, ServeHead(t), server' = "marking"
  PROVE  /\ Dequeued' \in Clients /\ pc[Dequeued'] \notin {"outside", "declared"}
         /\ Resume_Time[Dequeued'] <= now
<1> DEFINE head == Succ[Header]
<1> USE Constants
<1>1. Dequeued' = head /\ Resume_Time[head] <= t
  BY DEF ServeHead
<1>2. head \in Nodes /\ Resume_Time \in [Nodes -> 0..DurationLast] /\ now \in 0..MaxTime
  BY DEF AInv, TypeOK
<1>3. head # Header
  BY <1>1, <1>2 DEF AInv, HeaderIsLast
<1>4. head \in Clients /\ Pred[head] = Header
  BY <1>2, <1>3 DEF Nodes, QInv, Inverse
<1>5. Succ[head] # head
  BY <1>2, <1>3, <1>4 DEF QInv, Inverse
<1>6. pc[head] \notin {"outside", "declared"}
  BY <1>4, <1>5 DEF QInv, OffQueueInTime, Queued, MayBeQueued
<1> QED
  BY <1>1, <1>2, <1>4, <1>6

LEMMA ClientTimeouts ==
  ASSUME AInv, TimeoutsDue, NEW c \in Clients, ~Reuses(c), RunTimeStep(c) \/ ProgramStep(c)
  PROVE  TimeoutsDue'
<1> USE DEF TimeoutsDue, NoPrematureTimeout, MoveClient
<1>0. TypeOK /\ now \in Nat
  BY AsyncAssumption DEF AInv, TypeOK
<1>1. CASE Declare(c)
  BY <1>0, <1>1 DEF Declare, TypeOK, Reuses, serverVars
<1>2. CASE EnqueueExpired(c)
  BY <1>0, <1>2 DEF EnqueueExpired, TypeOK, serverVars
<1>3. ASSUME NEW T \in 1..MaxDelay, EnqueueDuration(c, T)  PROVE TimeoutsDue'
  BY <1>0, <1>3 DEF EnqueueDuration, TypeOK, serverVars, Nodes
<1>4. CASE TimeEnqueue(c)
  BY <1>0, <1>4 DEF TimeEnqueue, TypeOK
<1>5. ASSUME NEW k \in {"abortable", "outside"}, Undefer(c, k),
             pc[c] \in {"enqueued", "abortable", "leaving"}
      PROVE  TimeoutsDue'
  BY <1>0, <1>5 DEF Undefer, TypeOK, blocks, serverVars
<1>6. CASE StartAbortable(c) \/ PollAbort(c) \/ LeaveSelect(c)
  BY <1>5, <1>6 DEF StartAbortable, PollAbort, LeaveSelect
<1>7. CASE TimedDelay(c)
  <2>1. pc[c] \in {"abortable", "delaying"} /\ \E k \in {"enqueued", "delaying"} : pc' = [pc EXCEPT ![c] = k]
    BY <1>7 DEF TimedDelay
  <2> QED
    BY <1>0, <1>7, <2>1 DEF TimedDelay, TypeOK, blocks, serverVars
<1>8. CASE CompleteAbortable(c) \/ CancelAsyncDelay(c) \/ CancelUnlink(c) \/ ExitOneATCLevel(c)
  <2>1. /\ pc[c] \notin {"outside", "declared"}
        /\ \E k \in {"cleaning", "unlinking", "exiting", "leaving"} : pc' = [pc EXCEPT ![c] = k]
        /\ UNCHANGED <<Resume_Time, Timed_Out, serverVars, now>>
    BY <1>8 DEF CompleteAbortable, CancelAsyncDelay, CancelUnlink, ExitOneATCLevel, blocks
  <2> QED
    BY <1>0, <2>1 DEF TypeOK, serverVars
<1> QED
  BY <1>1, <1>2, <1>3, <1>4, <1>6, <1>7, <1>8 DEF RunTimeStep, ProgramStep

LEMMA ServerTimeouts ==
  ASSUME AInv, QInv, TimeoutsDue, Server \/ Tick
  PROVE  TimeoutsDue'
<1> USE DEF TimeoutsDue, NoPrematureTimeout
<1>0. TypeOK /\ now \in 0..MaxTime /\ Now \in 0..MaxTime /\ Now <= now /\ now \in Nat
  BY AsyncAssumption DEF AInv, TypeOK, DequeuedIsBlock
<1>1. CASE ServerTop \/ ServerWake \/ ServerAbort
  BY <1>1 DEF ServerTop, ServerWake, ServerAbort, blocks, clients
<1>2. ASSUME NEW t \in 0..MaxTime, t <= now, ServeHead(t),
             UNCHANGED <<Resume_Time, Timed_Out, pc, now>>
      PROVE  TimeoutsDue'
  <2>1. server' = "marking" => pc[Dequeued'] # "declared" /\ Resume_Time[Dequeued'] <= now
    BY <1>2, DequeuedExpired
  <2> QED
    BY <1>2, <2>1
<1>3. CASE ServerServe
  BY <1>0, <1>2, <1>3 DEF ServerServe, clients
<1>4. CASE ServerNext
  BY <1>0, <1>2, <1>4 DEF ServerNext, clients
<1>5. CASE ServerMark
  BY <1>0, <1>5 DEF ServerMark, TypeOK, clients
<1>6. CASE Tick
  <2>1. \A n \in Nodes : Resume_Time[n] \in Nat
    BY <1>0, Constants DEF TypeOK
  <2> QED
    BY <1>0, <1>6, <2>1, Constants DEF Tick, TypeOK, blocks, clients, serverVars
<1> QED
  BY <1>1, <1>3, <1>4, <1>5, <1>6 DEF Server

(* A delay is reported as timed out before its time only when its block is *)
(* where the one was that Timer_Server has dequeued and not marked yet:    *)
(* then Timed_Out := True hits the new block (s-taasde.adb:363-366).       *)
THEOREM OnlyReuseIsPremature ==
  Spec /\ [][\A c \in Clients : ~Reuses(c)]_vars => []NoPrematureTimeout
<1>1. Init => TimeoutsDue
  BY DEF Init, TimeoutsDue, NoPrematureTimeout
<1>2. AInv /\ QInv /\ TimeoutsDue /\ [Next]_vars /\ [\A c \in Clients : ~Reuses(c)]_vars
        => TimeoutsDue'
  <2>1. CASE UNCHANGED vars
    BY <2>1 DEF vars, blocks, clients, serverVars, TimeoutsDue, NoPrematureTimeout
  <2> QED
    BY <2>1, ClientTimeouts, ServerTimeouts DEF Next
<1>3. TimeoutsDue => NoPrematureTimeout
  BY DEF TimeoutsDue
<1> QED
  BY <1>1, <1>2, <1>3, AbortInvariance, QueueInvariance, PTL DEF Spec

(* In particular none is early where no address is that of two blocks.     *)
THEOREM NoTimeoutIsPremature ==
  ASSUME MaxSelects <= 1
  PROVE  Spec => []NoPrematureTimeout
<1> DEFINE Counted == /\ \A c \in Clients : pc[c] # "outside" => selects[c] = 1
                      /\ server = "marking" => selects[Dequeued] = 1
<1>1. Init => Counted
  BY DEF Init
<1>2. ASSUME AInv, QInv, Counted, [Next]_vars
      PROVE  Counted' /\ \A c \in Clients : ~Reuses(c)
  <2>0. /\ selects \in [Clients -> 0..MaxSelects] /\ pc \in [Clients -> ClientPCs]
        /\ MaxSelects \in Nat /\ now \in 0..MaxTime /\ Now \in 0..MaxTime /\ Now <= now
    BY <1>2, Constants DEF AInv, TypeOK, DequeuedIsBlock
  <2>1. ASSUME NEW c \in Clients, Reuses(c)  PROVE FALSE
    BY <1>2, <2>0, <2>1 DEF Reuses, Declare
  <2>2. ASSUME UNCHANGED <<pc, selects>>, server' # "marking" \/ UNCHANGED <<server, Dequeued>>
        PROVE  Counted'
    BY <1>2, <2>2
  <2>3. ASSUME NEW t \in 0..MaxTime, t <= now, ServeHead(t), UNCHANGED <<pc, selects>>
        PROVE  Counted'
    <3>1. CASE server' = "marking"
      <4>1. Dequeued' \in Clients /\ pc[Dequeued'] # "outside"
        BY <1>2, <2>3, <3>1, DequeuedExpired
      <4> QED
        BY <1>2, <2>3, <4>1
    <3> QED
      BY <2>2, <2>3, <3>1
  <2>4. ASSUME Server  PROVE Counted'
    <3>1. CASE ServerServe \/ ServerNext
      BY <2>0, <2>3, <3>1 DEF ServerServe, ServerNext, clients
    <3>2. CASE ServerTop \/ ServerWake \/ ServerMark \/ ServerAbort
      BY <2>2, <3>2 DEF ServerTop, ServerWake, ServerMark, ServerAbort, clients
    <3> QED
      BY <2>4, <3>1, <3>2 DEF Server
  <2>5. ASSUME Tick \/ UNCHANGED vars  PROVE Counted'
    BY <2>2, <2>5 DEF Tick, vars, clients, serverVars
  <2>6. ASSUME NEW c \in Clients, Declare(c)  PROVE Counted'
    <3>1. selects[c] < MaxSelects /\ selects' = [selects EXCEPT ![c] = @ + 1]
      BY <2>6 DEF Declare
    <3>2. selects[c] \in 0..MaxSelects
      BY <2>0
    <3>3. selects[c] = 0
      BY <2>0, <3>1, <3>2
    <3>4. selects'[c] = 1 /\ \A d \in Clients : d # c => selects'[d] = selects[d]
      BY <2>0, <3>1, <3>3
    <3>5. /\ \A d \in Clients : d # c => pc'[d] = pc[d]
          /\ UNCHANGED <<server, Dequeued>>
      BY <2>0, <2>6 DEF Declare, MoveClient, serverVars
    <3>6. server = "marking" => Dequeued # c
      BY <1>2, <3>3
    <3>7. server = "marking" => Dequeued \in Clients
      BY <1>2 DEF AInv, DequeuedIsBlock
    <3> QED
      BY <1>2, <3>4, <3>5, <3>6, <3>7
  <2>7. ASSUME NEW c \in Clients, RunTimeStep(c) \/ ProgramStep(c), ~Declare(c)
        PROVE  Counted'
    <3>1. /\ pc[c] # "outside" /\ \A d \in Clients : d # c => pc'[d] = pc[d]
          /\ UNCHANGED <<selects, server, Dequeued>>
      BY <2>0, <2>7
         DEF RunTimeStep, ProgramStep, EnqueueExpired, EnqueueDuration, TimeEnqueue,
             StartAbortable, PollAbort, LeaveSelect, Undefer, TimedDelay, CompleteAbortable,
             CancelAsyncDelay, CancelUnlink, ExitOneATCLevel, MoveClient, serverVars
    <3> QED
      BY <1>2, <3>1
  <2> QED
    BY <1>2, <2>1, <2>4, <2>5, <2>6, <2>7 DEF Next
<1>3. AInv /\ QInv /\ Counted /\ [Next]_vars =>
        Counted' /\ [\A c \in Clients : ~Reuses(c)]_vars
  BY <1>2
<1> QED
  BY <1>1, <1>3, OnlyReuseIsPremature, AbortInvariance, QueueInvariance, PTL DEF Spec

-----------------------------------------------------------------------------
(* Aborts.                                                                 *)

\* The block is declared anew before the server is done with the old one.
ReusesLate(c) == Declare(c) /\ server \in {"marking", "aborting"} /\ Dequeued = c

\* An abort on its way, or recorded, is of the delay that the select has now.
AbortsDue ==
  /\ \A c \in Clients : Pending_ATC_Level[c] = 1 => Timed_Out[c] /\ Resume_Time[c] <= now
  /\ server = "marking" => pc[Dequeued] # "declared" /\ Resume_Time[Dequeued] <= now
  /\ server = "aborting" => /\ pc[Dequeued] # "declared"
                            /\ Timed_Out[Dequeued] /\ Resume_Time[Dequeued] <= now

LEMMA ClientAborts ==
  ASSUME AInv, AbortsDue, NEW c \in Clients, ~ReusesLate(c), RunTimeStep(c) \/ ProgramStep(c)
  PROVE  AbortsDue'
<1> USE DEF AbortsDue, MoveClient
<1>0. TypeOK /\ now \in Nat /\ (server \in {"marking", "aborting"} => Dequeued \in Clients)
  BY AsyncAssumption DEF AInv, TypeOK, DequeuedIsBlock
<1>1. pc[c] \in {"outside", "declared"} => Pending_ATC_Level[c] # 1
  BY <1>0 DEF AInv, LevelMatches, InSelect, AbortEndsWithSelect, AbortDue, TypeOK,
              ATC_Level_Infinity
<1>2. CASE Declare(c)
  BY <1>0, <1>1, <1>2 DEF Declare, TypeOK, ReusesLate, serverVars, atcbs
<1>3. CASE EnqueueExpired(c)
  BY <1>0, <1>1, <1>3 DEF EnqueueExpired, TypeOK, serverVars, atcbs
<1>4. ASSUME NEW T \in 1..MaxDelay, EnqueueDuration(c, T)  PROVE AbortsDue'
  BY <1>0, <1>1, <1>4 DEF EnqueueDuration, TypeOK, serverVars, Nodes
<1>5. ASSUME pc[c] \notin {"outside", "declared"}, UNCHANGED <<Resume_Time, Timed_Out, serverVars, now>>,
             \A d \in Clients : Pending_ATC_Level'[d] = 1 => Pending_ATC_Level[d] = 1,
             \E k \in ClientPCs \ {"declared"} : pc' = [pc EXCEPT ![c] = k]
      PROVE  AbortsDue'
  BY <1>0, <1>5 DEF TypeOK, serverVars
<1>6. CASE TimeEnqueue(c)
  BY <1>0, <1>6 DEF TimeEnqueue, TypeOK, atcbs
<1>7. ASSUME NEW k \in {"abortable", "outside"}, Undefer(c, k),
             pc[c] \in {"enqueued", "abortable", "leaving"}
      PROVE  AbortsDue'
  <2>1. \E m \in ClientPCs \ {"declared"} : pc' = [pc EXCEPT ![c] = m]
    BY <1>7 DEF Undefer, ClientPCs
  <2> QED
    BY <1>5, <1>7, <2>1 DEF Undefer, blocks
<1>8. CASE StartAbortable(c) \/ PollAbort(c) \/ LeaveSelect(c)
  BY <1>7, <1>8 DEF StartAbortable, PollAbort, LeaveSelect
<1>9. CASE TimedDelay(c)
  <2>1. pc[c] \in {"abortable", "delaying"} /\ \E k \in ClientPCs \ {"declared"} : pc' = [pc EXCEPT ![c] = k]
    BY <1>9 DEF TimedDelay, ClientPCs
  <2> QED
    BY <1>5, <1>9, <2>1 DEF TimedDelay, blocks
<1>10. CASE CompleteAbortable(c) \/ CancelAsyncDelay(c) \/ CancelUnlink(c)
  <2>1. /\ pc[c] \notin {"outside", "declared"}
        /\ \E k \in ClientPCs \ {"declared"} : pc' = [pc EXCEPT ![c] = k]
        /\ UNCHANGED <<Resume_Time, Timed_Out, Pending_ATC_Level, serverVars, now>>
    BY <1>10 DEF CompleteAbortable, CancelAsyncDelay, CancelUnlink, blocks, atcbs, ClientPCs
  <2> QED
    BY <1>5, <2>1
<1>11. CASE ExitOneATCLevel(c)
  <2>1. \A d \in Clients : Pending_ATC_Level'[d] = 1 => Pending_ATC_Level[d] = 1
    BY <1>0, <1>11 DEF ExitOneATCLevel, TypeOK, ATC_Level_Infinity
  <2>2. /\ pc[c] = "exiting" /\ \E k \in ClientPCs \ {"declared"} : pc' = [pc EXCEPT ![c] = k]
        /\ UNCHANGED <<Resume_Time, Timed_Out, serverVars, now>>
    BY <1>11 DEF ExitOneATCLevel, blocks, ClientPCs
  <2> QED
    BY <1>5, <2>1, <2>2
<1> QED
  BY <1>2, <1>3, <1>4, <1>6, <1>8, <1>9, <1>10, <1>11 DEF RunTimeStep, ProgramStep

LEMMA ServerAborts ==
  ASSUME AInv, QInv, AbortsDue, Server \/ Tick
  PROVE  AbortsDue'
<1> USE DEF AbortsDue
<1>0. /\ TypeOK /\ now \in 0..MaxTime /\ Now \in 0..MaxTime /\ Now <= now /\ now \in Nat
      /\ server \in {"marking", "aborting"} => Dequeued \in Clients
  BY AsyncAssumption DEF AInv, TypeOK, DequeuedIsBlock
<1>1. CASE ServerTop \/ ServerWake
  BY <1>1 DEF ServerTop, ServerWake, blocks, clients, atcbs
<1>2. ASSUME NEW t \in 0..MaxTime, t <= now, ServeHead(t),
             UNCHANGED <<Resume_Time, Timed_Out, Pending_ATC_Level, pc, now>>
      PROVE  AbortsDue'
  <2>1. server' = "marking" => pc[Dequeued'] # "declared" /\ Resume_Time[Dequeued'] <= now
    BY <1>2, DequeuedExpired
  <2>2. server' \in {"marking", "top"}
    BY <1>2 DEF ServeHead
  <2> QED
    BY <1>2, <2>1, <2>2
<1>3. CASE ServerServe
  BY <1>0, <1>2, <1>3 DEF ServerServe, clients, atcbs
<1>4. CASE ServerNext
  BY <1>0, <1>2, <1>4 DEF ServerNext, clients, atcbs
<1>5. CASE ServerMark
  BY <1>0, <1>5 DEF ServerMark, TypeOK, clients, atcbs
<1>6. CASE ServerAbort
  BY <1>0, <1>6 DEF ServerAbort, LockedAbortToLevel, TypeOK, clients, blocks
<1>7. CASE Tick
  <2>1. \A n \in Nodes : Resume_Time[n] \in Nat
    BY <1>0, Constants DEF TypeOK
  <2> QED
    BY <1>0, <1>7, <2>1, Constants DEF Tick, TypeOK, blocks, clients, serverVars, atcbs
<1> QED
  BY <1>1, <1>3, <1>4, <1>5, <1>6, <1>7 DEF Server

(* An abortable part is aborted by another delay than that of its select   *)
(* only when its block was declared before Timer_Server was done with the  *)
(* one it had dequeued at that address (s-taasde.adb:363-371).             *)
THEOREM OnlyReuseAbortsEarly ==
  Spec /\ [][\A c \in Clients : ~ReusesLate(c)]_vars => []AbortIsTimeout
<1>1. Init => AbortsDue
  BY DEF Init, AbortsDue, ATC_Level_Infinity
<1>2. AInv /\ QInv /\ AbortsDue /\ [Next]_vars /\ [\A c \in Clients : ~ReusesLate(c)]_vars
        => AbortsDue'
  <2>1. CASE UNCHANGED vars
    BY <2>1 DEF vars, blocks, atcbs, clients, serverVars, AbortsDue
  <2> QED
    BY <2>1, ClientAborts, ServerAborts DEF Next
<1>3. AInv /\ AbortsDue => AbortIsTimeout
  <2> SUFFICES ASSUME AInv, AbortsDue, NEW c \in Clients, Aborting[c]
               PROVE  Timed_Out[c] /\ Resume_Time[c] <= now
    BY DEF AbortIsTimeout
  <2>1. Pending_ATC_Level[c] = 1
    BY DEF AInv, TypeOK, AbortEndsWithSelect, AbortingCleansUp, LevelMatches, InSelect
  <2> QED
    BY <2>1 DEF AbortsDue
<1> QED
  BY <1>1, <1>2, <1>3, AbortInvariance, QueueInvariance, PTL DEF Spec
=============================================================================
