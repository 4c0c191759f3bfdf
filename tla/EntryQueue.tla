------------------------------ MODULE EntryQueue ------------------------------
(***************************************************************************)
(* The entry queues of s-tasque.adb: circular doubly linked lists of entry *)
(* call records under the FIFO or the priority policy, the selection of    *)
(* the call to serve, and Program_Error sent to all who wait.              *)
(*                                                                         *)
(* The queues of one server, a task or a protected object, are modelled.   *)
(* Each operation runs under the server's lock, so it is one action.       *)
(***************************************************************************)
EXTENDS Naturals, Sequences, FiniteSets

CONSTANTS
  Calls,         \* entry call records
  null,          \* no call
  Entries,       \* indices of the server's entries
  Accepts,       \* lists of accepted entries a server task may wait with
  Prios,         \* priorities of callers
  Policies       \* values of __gl_queuing_policy = 'P'

ASSUME QueueAssumption ==
  /\ IsFiniteSet(Calls) /\ null \notin Calls
  /\ Entries \subseteq Nat \ {0} /\ Entries # {}
  /\ Accepts \subseteq Seq(Entries)
  /\ Prios \subseteq Nat /\ Prios # {}
  /\ Policies \subseteq BOOLEAN

VARIABLES
  Priority_Queuing,
  Is_Task,   \* the server is a task, not a protected object
  q,         \* the links and priorities of the calls, the ends of the queues
  E,         \* the entry each call is for
  told,      \* calls whose Exception_To_Raise is Program_Error
  Call,      \* what the last operation selected for service
  emptying,  \* entries whose queues Broadcast_Program_Error has yet to empty
  ahead      \* the waiting calls that were queued before each of them (history)

fixed == <<Priority_Queuing, Is_Task>>
vars == <<fixed, q, E, told, Call, emptying, ahead>>

Links == Calls \cup {null}

Init ==
  /\ Priority_Queuing \in Policies
  /\ Is_Task \in BOOLEAN
  /\ q = [Next |-> [c \in Calls |-> null],
          Prev |-> [c \in Calls |-> null],
          Prio |-> [c \in Calls |-> CHOOSE p \in Prios : TRUE],
          Head |-> [e \in Entries |-> null],
          Tail |-> [e \in Entries |-> null]]
  /\ E = [c \in Calls |-> CHOOSE e \in Entries : TRUE]
  /\ told = {}
  /\ Call = null
  /\ emptying = {}
  /\ ahead = [c \in {} |-> {}]
-----------------------------------------------------------------------------
(* The lists. *)

Onqueue(c) == q.Next[c] # null

\* The calls that Enqueue's loop comes to: the head and, after one whose
\* priority is not below p, the next one, until that is the head again.
Reached(l, e, p) ==
  LET Closed(V) ==
        /\ l.Head[e] \in V
        /\ \A c \in V :
             p <= l.Prio[c] /\ l.Next[c] # l.Head[e] => l.Next[c] \in V
  IN {c \in Calls : \A V \in SUBSET Calls : Closed(V) => c \in V}

\* The call where the loop ends; null when it comes around.
FirstLower(l, e, p) ==
  LET lower == {c \in Reached(l, e, p) : p > l.Prio[c]}
  IN IF lower = {} THEN null ELSE CHOOSE c \in lower : TRUE

\* Mutant: a call goes before those of its own priority.
Precedes_Equal(l, e, p) ==
  IF Priority_Queuing /\ l.Head[e] # null THEN FirstLower(l, e, p + 1) ELSE null

\* The call that a call of priority p is put before; null at the end.
Precedes(l, e, p) ==
  IF Priority_Queuing /\ l.Head[e] # null THEN FirstLower(l, e, p) ELSE null

Enqueue(l, e, c) ==
  LET temp == Precedes(l, e, l.Prio[c])
      prev == IF l.Head[e] = null THEN c
              ELSE IF temp = null THEN l.Tail[e] ELSE l.Prev[temp]
      next == IF l.Head[e] = null THEN c
              ELSE IF temp = null THEN l.Head[e] ELSE temp
  IN [l EXCEPT !.Next = [[@ EXCEPT ![c] = next] EXCEPT ![prev] = c],
               !.Prev = [[@ EXCEPT ![c] = prev] EXCEPT ![next] = c],
               !.Head[e] = IF temp = @ THEN c ELSE @,
               !.Tail[e] = IF temp = null THEN c ELSE @]

Dequeue(l, e, c) ==
  LET last == l.Head[e] = l.Tail[e]
  IN IF l.Head[e] = null THEN l
     ELSE [l EXCEPT
             !.Next = [[@ EXCEPT ![l.Prev[c]] = l.Next[c]] EXCEPT ![c] = null],
             !.Prev = [[@ EXCEPT ![l.Next[c]] = l.Prev[c]] EXCEPT ![c] = null],
             !.Head[e] = IF @ # c THEN @ ELSE IF last THEN null ELSE l.Next[c],
             !.Tail[e] = IF @ # c THEN @ ELSE IF last THEN null ELSE l.Prev[c]]

\* Dequeue_Head does to the first call what Dequeue does to any, except that it
\* leaves Tail alone when other calls remain.
Dequeue_Head(l, e) == IF l.Head[e] = null THEN l ELSE Dequeue(l, e, l.Head[e])

\* The history when c goes to the end of the line, and when it leaves it.
Last(c) ==
  [d \in DOMAIN ahead \cup {c} |->
     IF d = c THEN DOMAIN ahead \ {c} ELSE ahead[d] \ {c}]
Without(c) == [d \in DOMAIN ahead \ {c} |-> ahead[d] \ {c}]
-----------------------------------------------------------------------------
(* The operations. *)

\* The record of a new call, or of a requeued one, is filled in and queued.
Enqueue_Call(c, e, p) ==
  /\ emptying = {}
  /\ ~Onqueue(c)
  /\ q' = Enqueue([q EXCEPT !.Prio[c] = p], e, c)
  /\ E' = [E EXCEPT ![c] = e]
  /\ told' = told \ {c}
  /\ Call' = null
  /\ ahead' = Last(c)
  /\ UNCHANGED <<fixed, emptying>>

\* The caller gives up, under the server's lock.
Dequeue_Call(c) ==
  /\ emptying = {}
  /\ Onqueue(c)
  /\ q' = Dequeue(q, E[c], c)
  /\ Call' = null
  /\ ahead' = Without(c)
  /\ UNCHANGED <<fixed, E, told, emptying>>

\* The caller's base priority changes while it waits.
Requeue_Call_With_New_Prio(c, p) ==
  /\ emptying = {}
  /\ Onqueue(c)
  /\ Priority_Queuing
  /\ LET out == Dequeue(q, E[c], c)
     IN q' = Enqueue([out EXCEPT !.Prio[c] = p], E[c], c)
  /\ Call' = null
  /\ ahead' = Last(c)
  /\ UNCHANGED <<fixed, E, told, emptying>>

\* The call whose body failed, if any, gets Program_Error; then all who wait.
Broadcast_Program_Error(pending) ==
  /\ emptying = {}
  /\ ~Is_Task
  /\ told' = told \cup ({pending} \ {null})
  /\ emptying' = Entries
  /\ Call' = null
  /\ UNCHANGED <<fixed, q, E, ahead>>

\* Mutant: the next call is dequeued before the last one is told.
Send_To_Head_Late(e) ==
  /\ e \in emptying /\ \A f \in emptying : e <= f
  /\ q.Head[e] # null
  /\ q' = Dequeue_Head(q, e)
  /\ told' = told \cup ({q'.Head[e]} \ {null})
  /\ ahead' = Without(q.Head[e])
  /\ UNCHANGED <<fixed, E, Call, emptying>>

\* The queues are emptied from their heads, entry by entry, without the lock
\* being given up.
Send_To_Head(e) ==
  /\ e \in emptying /\ \A f \in emptying : e <= f
  /\ q.Head[e] # null
  /\ q' = Dequeue_Head(q, e)
  /\ told' = told \cup {q.Head[e]}
  /\ ahead' = Without(q.Head[e])
  /\ UNCHANGED <<fixed, E, Call, emptying>>

Next_Queue(e) ==
  /\ e \in emptying /\ \A f \in emptying : e <= f
  /\ q.Head[e] = null
  /\ emptying' = emptying \ {e}
  /\ UNCHANGED <<fixed, q, E, told, Call, ahead>>

\* Mutant: the priorities of the heads are not compared.
Chosen_FirstWaiting(order) ==
  LET waiting == {i \in DOMAIN order : q.Head[order[i]] # null}
  IN IF waiting = {} THEN 0 ELSE CHOOSE i \in waiting : \A j \in waiting : i <= j

\* The index in order of the entry to serve, 0 for none: the first with a call
\* waiting or, by priority, the first whose head is the highest.
Chosen(order) ==
  LET waiting == {i \in DOMAIN order : q.Head[order[i]] # null}
      best == {i \in waiting :
                 Priority_Queuing =>
                   \A j \in waiting : q.Prio[q.Head[order[j]]] <= q.Prio[q.Head[order[i]]]}
  IN IF best = {} THEN 0 ELSE CHOOSE i \in best : \A j \in best : i <= j

\* The chosen entry's head is dequeued and returned.
Serve(order) ==
  LET i == Chosen(order)
  IN /\ Call' = IF i = 0 THEN null ELSE q.Head[order[i]]
     /\ q' = IF i = 0 THEN q ELSE Dequeue_Head(q, order[i])
     /\ ahead' = IF i = 0 THEN ahead ELSE Without(Call')
     /\ UNCHANGED <<fixed, E, told, emptying>>

\* The entries whose barriers are evaluated, the FIFO loop ending at the first
\* open one: every entry with a call waiting up to there.
Evaluated(open) ==
  {e \in Entries :
     /\ q.Head[e] # null
     /\ Priority_Queuing \/ \A f \in open : q.Head[f] # null => e <= f}

\* open holds the entries whose barriers are true, in the order of their
\* indices, raising those whose barriers raise an exception.  A call selected
\* before the exception is on its queue still, is told with the others, and
\* Dequeue_Head then returns null.
Select_Protected_Entry_Call(open, raising) ==
  /\ emptying = {}
  /\ ~Is_Task
  /\ IF Evaluated(open) \cap raising # {}
       THEN Broadcast_Program_Error(null)
       ELSE Serve([e \in open |-> e])

Select_Task_Entry_Call(accept) == emptying = {} /\ Is_Task /\ Serve(accept)
-----------------------------------------------------------------------------
Step ==
  \/ \E c \in Calls, e \in Entries, p \in Prios : Enqueue_Call(c, e, p)
  \/ \E c \in Calls : Dequeue_Call(c)
  \/ \E c \in Calls, p \in Prios : Requeue_Call_With_New_Prio(c, p)
  \/ \E pending \in {c \in Links : c # null => ~Onqueue(c)} :
       Broadcast_Program_Error(pending)
  \/ \E e \in Entries : Send_To_Head(e) \/ Next_Queue(e)
  \/ \E open \in SUBSET Entries : \E raising \in SUBSET (Entries \ open) :
       Select_Protected_Entry_Call(open, raising)
  \/ \E accept \in Accepts : Select_Task_Entry_Call(accept)

Spec == Init /\ [][Step]_vars
-----------------------------------------------------------------------------
TypeOK ==
  /\ Priority_Queuing \in Policies
  /\ Is_Task \in BOOLEAN
  /\ q \in [Next : [Calls -> Links], Prev : [Calls -> Links],
            Prio : [Calls -> Prios],
            Head : [Entries -> Links], Tail : [Entries -> Links]]
  /\ E \in [Calls -> Entries]
  /\ told \subseteq Calls
  /\ Call \in Links
  /\ emptying \subseteq Entries
  /\ DOMAIN ahead \subseteq Calls
  /\ ahead \in [DOMAIN ahead -> SUBSET DOMAIN ahead]

Waiting(e) == {c \in DOMAIN ahead : E[c] = e}

\* Of two waiting calls, which one the queuing policy puts first: by priority,
\* and those of one priority (all of them under FIFO) by arrival, where a change
\* of priority is a new arrival.
PolicyOrder ==
  {p \in (DOMAIN ahead) \X (DOMAIN ahead) :
     IF Priority_Queuing /\ q.Prio[p[1]] # q.Prio[p[2]]
       THEN q.Prio[p[1]] > q.Prio[p[2]]
       ELSE p[1] \in ahead[p[2]]}

\* The links of l's queue e are a ring of the calls cs, closed in both
\* directions, that goes up the order from Head to Tail and skips nobody.
Rings(l, e, cs, order) ==
  IF cs = {} THEN l.Head[e] = null /\ l.Tail[e] = null
  ELSE /\ l.Head[e] \in cs /\ \A c \in cs \ {l.Head[e]} : <<l.Head[e], c>> \in order
       /\ l.Tail[e] \in cs /\ \A c \in cs \ {l.Tail[e]} : <<c, l.Tail[e]>> \in order
       /\ l.Next[l.Tail[e]] = l.Head[e]
       /\ \A c \in cs : /\ l.Next[c] \in cs /\ l.Prev[l.Next[c]] = c
                        /\ l.Prev[c] \in cs /\ l.Next[l.Prev[c]] = c
       /\ \A c \in cs \ {l.Tail[e]} :
            /\ <<c, l.Next[c]>> \in order
            /\ \A d \in cs : ~(<<c, d>> \in order /\ <<d, l.Next[c]>> \in order)

\* Whatever calls were queued, served, given up and moved to another priority,
\* a queue lists those that wait for its entry, in the order of the policy, and
\* only calls on a list have links.
ListedInOrder ==
  /\ \A c \in Calls : Onqueue(c) <=> c \in DOMAIN ahead
  /\ \A e \in Entries : Rings(q, e, Waiting(e), PolicyOrder)

\* A call is served only when no call of an open entry is to be served before
\* it: none of its own entry and, by priority, none of any open entry that is
\* higher; and when a call is waiting on an open entry one is served.
ServesTheFirst ==
  [][\A open \in SUBSET Entries :
       LET cs == {c \in DOMAIN ahead : E[c] \in open}
           Selects == \/ Select_Protected_Entry_Call(open, {})
                      \/ \E accept \in Accepts :
                           /\ {accept[i] : i \in DOMAIN accept} = open
                           /\ Select_Task_Entry_Call(accept)
       IN Selects /\ cs # {} =>
            /\ Call' \in cs
            /\ \A c \in cs \ {Call'} : E[c] = E[Call'] => <<Call', c>> \in PolicyOrder
            /\ Priority_Queuing => \A c \in cs : q.Prio[c] <= q.Prio[Call']]_vars

\* A call leaves its queue to be served, because its caller gave up, or with
\* Program_Error: none is lost when a barrier raises an exception after another
\* call was selected, or between a change of priority and the new position; and
\* nobody waits any more when Broadcast_Program_Error is done.
NoneForgotten ==
  [][/\ \A c \in DOMAIN ahead :
          \/ Onqueue(c)'
          \/ c = Call'
          \/ c \in told'
          \/ Dequeue_Call(c)
     /\ emptying # {} /\ emptying' = {} => \A c \in Calls : ~Onqueue(c)']_vars
=============================================================================
