------------------------ MODULE ProtectedEntries_proofs ------------------------
(***************************************************************************)
(* Protected objects with entries, for any callers, objects, entries and   *)
(* requeue statements: a call is in one place while its caller stays, only *)
(* the owner of an object executes its bodies, and what follows of waking, *)
(* of requeues without abort and of the barriers.                          *)
(***************************************************************************)
EXTENDS ProtectedEntries, SequenceTheorems, FiniteSetTheorems, TLAPS

-----------------------------------------------------------------------------
(* Agendas.                                                                *)

\* The frames that have a call, which is then in no queue, and those of a call
\* whose body is not begun.
Acting == {"do", "queue", "update", "body", "after"}
Trying == {"do", "queue", "update"}

Frame ==
  [act : {"service"}, obj : Objects]
    \cup [act : {"do", "queue", "check"}, obj : Objects, call : Callers]
    \cup [act : {"update"}, obj : Objects, call : Callers, new : States \ Over]
    \cup [act : {"body", "after"}, obj : Objects, call : Callers, serving : BOOLEAN]

\* The first frame alone may have a call, and below a frame is the one that
\* unlocks its object, or one that looks at a requeued call before that.
Stack(s) ==
  \A i \in 1..Len(s) :
    /\ s[i].act \in Acting => i = 1
    /\ s[i].act # "service" =>
         /\ i < Len(s)
         /\ s[i + 1].obj = s[i].obj
         /\ s[i + 1].act \in {"service", "check"}
    /\ s[i].act = "check" \/ (s[i].act \in {"body", "after"} /\ s[i].serving) =>
         s[i + 1].act = "service"

\* Where, from the bottom, the agenda s unlocks object o.
Levels(s, o) ==
  {j \in 1..Len(s) : s[Len(s) + 1 - j].act = "service" /\ s[Len(s) + 1 - j].obj = o}

\* t tries, serves or requeues the call of c.
Serves(t, c) == agenda[t] # <<>> /\ agenda[t][1].act \in Acting /\ agenda[t][1].call = c

-----------------------------------------------------------------------------
(* A call is in one place.                                                 *)

Labels == {"idle", "calling", "yielding", "polling", "asleep", "timing", "marking",
           "locking", "cancelling", "leaving", "aborted"}

\* Where a caller may be whose call is not over.
Waiting == {"calling", "yielding", "polling", "asleep", "timing", "marking", "locking"}

RecordTyped ==
  /\ State \in [Callers -> States]
  /\ Mode \in [Callers -> Call_Modes]
  /\ With_Abort \in [Callers -> BOOLEAN]
  /\ Cancellation_Attempted \in [Callers -> BOOLEAN]
  /\ Called_PO \in [Callers -> Objects]
  /\ E \in [Callers -> Entries]

ObjectsTyped ==
  /\ owner \in [Objects -> Tasks \cup {NoTask}]
  /\ depth \in [Objects -> Int]
  /\ Entry_Queues \in [Objects -> [Entries -> Seq(Callers)]]
  /\ Call_In_Progress \in [Objects -> Callers \cup {NoTask}]
  /\ open \in [Objects -> SUBSET Entries]

CallersTyped ==
  /\ Task_State \in [Callers -> {"Runnable", "Entry_Caller_Sleep"}]
  /\ Pending_ATC_Level \in [Callers -> {0, 1, ATC_Level_Infinity}]
  /\ CV \in [Callers -> BOOLEAN]
  /\ Test_PO \in [Callers -> Objects]
  /\ Timedout \in [Callers -> BOOLEAN]
  /\ deferred \in [Callers -> BOOLEAN]
  /\ requeues \in [Callers -> Nat]
  /\ calls \in [Tasks -> Nat]

Typed == RecordTyped /\ ObjectsTyped /\ CallersTyped

ControlTyped ==
  /\ pc \in [Tasks -> Labels]
  /\ agenda \in [Tasks -> Seq(Frame)]
  /\ \A t \in Tasks : Stack(agenda[t])

\* Only a call and a cancellation execute an agenda.
OwnAgenda == \A t \in Tasks : agenda[t] # <<>> => pc[t] \in {"calling", "cancelling"}

ServedByOne == \A c \in Callers : \A t, u \in Tasks : Serves(t, c) /\ Serves(u, c) => t = u

QueuedAsRecorded ==
  \A o \in Objects, e \in Entries : \A c \in Callers : Contains(Entry_Queues[o][e], c) =>
    o = Called_PO[c] /\ e = E[c] /\ \A t \in Tasks : ~Serves(t, c)

Distinct(q) == \A i, j \in 1..Len(q) : q[i] = q[j] => i = j

QueuedDistinct == \A o \in Objects, e \in Entries : Distinct(Entry_Queues[o][e])

Placed(c) == Onqueue(c) \/ \E t \in Tasks : Serves(t, c)

NotOver == \A c \in Callers : Placed(c) => State[c] \notin Over /\ pc[c] \in Waiting

\* A call is tried on the object its record names.
TriedWhereCalled ==
  \A t \in Tasks :
    agenda[t] # <<>> /\ agenda[t][1].act \in Trying =>
      Called_PO[agenda[t][1].call] = agenda[t][1].obj

Places ==
  /\ Typed /\ ControlTyped /\ OwnAgenda
  /\ ServedByOne /\ QueuedAsRecorded /\ QueuedDistinct /\ NotOver /\ TriedWhereCalled

-----------------------------------------------------------------------------
(* Locks.                                                                  *)

\* An object is entered as often as its owner is to unlock it.
LocksHeld ==
  /\ \A o \in Objects : owner[o] = NoTask => depth[o] = 0
  /\ \A o \in Objects, t \in Tasks :
       Cardinality(Levels(agenda[t], o)) = IF owner[o] = t THEN depth[o] ELSE 0

\* What t is to do after a body: complete its call, or requeue it as a requeue
\* statement says.
AfterBodyOf(t) ==
  agenda[t] # <<>> =>
    /\ agenda[t][1].act = "body" => Call_In_Progress[agenda[t][1].obj] = agenda[t][1].call
    /\ agenda[t][1].act = "after" /\ Call_In_Progress[agenda[t][1].obj] = NoTask =>
         [from |-> agenda[t][1].obj, to |-> Called_PO[agenda[t][1].call],
          with_abort |-> With_Abort[agenda[t][1].call]] \in Requeues

AfterBody == \A t \in Tasks : AfterBodyOf(t)

Owned == Places /\ LocksHeld /\ AfterBody

-----------------------------------------------------------------------------
(* Agendas as stacks.                                                      *)

\* x may lie on the stack s.
Fits(x, s) ==
  /\ s # <<>> => s[1].act \notin Acting
  /\ x.act # "service" => s # <<>> /\ s[1].obj = x.obj /\ s[1].act \in {"service", "check"}
  /\ x.act = "check" \/ (x.act \in {"body", "after"} /\ x.serving) => s[1].act = "service"

\* A sequence with one more element in front.
LEMMA PushProperties ==
  ASSUME NEW S, NEW s \in Seq(S), NEW x \in S
  PROVE  /\ <<x>> \o s \in Seq(S)
         /\ <<x>> \o s # <<>>
         /\ Len(<<x>> \o s) = Len(s) + 1
         /\ (<<x>> \o s)[1] = x
         /\ \A i \in 1..Len(s) : (<<x>> \o s)[i + 1] = s[i]
<1>1. <<x>> \in Seq(S) /\ Len(<<x>>) = 1 /\ <<x>>[1] = x
  OBVIOUS
<1>2. /\ <<x>> \o s \in Seq(S)
      /\ Len(<<x>> \o s) = 1 + Len(s)
      /\ \A i \in 1 .. 1 + Len(s) : (<<x>> \o s)[i] = IF i <= 1 THEN <<x>>[i] ELSE s[i - 1]
  BY <1>1, ConcatProperties
<1> HIDE <1>1
<1>3. Len(s) \in Nat
  OBVIOUS
<1>4. (<<x>> \o s)[1] = x
  BY <1>1, <1>2, <1>3
<1>5. ASSUME NEW i \in 1..Len(s)  PROVE (<<x>> \o s)[i + 1] = s[i]
  BY <1>2, <1>3
<1>6. <<x>> \o s # <<>>
  BY <1>2, <1>3, EmptySeq
<1> QED BY <1>2, <1>3, <1>4, <1>5, <1>6

LEMMA PopProperties ==
  ASSUME NEW S, NEW s \in Seq(S), s # <<>>
  PROVE  /\ Tail(s) \in Seq(S)
         /\ Len(s) \in Nat \ {0}
         /\ Len(Tail(s)) = Len(s) - 1
         /\ Tail(s) = <<>> <=> Len(s) = 1
         /\ \A i \in 1..Len(s) - 1 : Tail(s)[i] = s[i + 1]
         /\ Head(s) = s[1] /\ s[1] \in S
<1>1. Len(s) \in Nat \ {0}
  BY EmptySeq
<1>2. /\ Tail(s) \in Seq(S) /\ Len(Tail(s)) = Len(s) - 1
      /\ \A i \in 1..Len(Tail(s)) : Tail(s)[i] = s[i + 1]
  BY HeadTailProperties
<1>3. Tail(s) = <<>> <=> Len(s) = 1
  <2>1. Len(Tail(s)) = 0 <=> Tail(s) = <<>>
    BY <1>2, EmptySeq
  <2> QED BY <1>1, <1>2, <2>1
<1>4. Head(s) = s[1] /\ s[1] \in S
  BY <1>1, ElementOfSeq
<1> QED BY <1>1, <1>2, <1>3, <1>4

LEMMA PushStack ==
  ASSUME NEW s \in Seq(Frame), Stack(s), NEW x \in Frame, Fits(x, s)
  PROVE  Stack(<<x>> \o s)
<1> DEFINE r == <<x>> \o s
<1>1. /\ Len(s) \in Nat /\ Len(r) = Len(s) + 1 /\ r[1] = x
      /\ \A i \in 1..Len(s) : r[i + 1] = s[i]
  BY PushProperties
<1>2. s # <<>> <=> Len(s) > 0
  BY <1>1, EmptySeq
<1> HIDE DEF r
<1>3. ASSUME NEW i \in 1..Len(r)
      PROVE  /\ r[i].act \in Acting => i = 1
             /\ r[i].act # "service" =>
                  /\ i < Len(r) /\ r[i + 1].obj = r[i].obj
                  /\ r[i + 1].act \in {"service", "check"}
             /\ r[i].act = "check" \/ (r[i].act \in {"body", "after"} /\ r[i].serving) =>
                  r[i + 1].act = "service"
  <2>1. CASE i = 1
    <3>1. x.act # "service" \/ x.act = "check" \/ x.act \in {"body", "after"} =>
            1 < Len(r) /\ r[2] = s[1]
      BY <1>1, <1>2 DEF Fits
    <3> QED BY <1>1, <2>1, <3>1 DEF Fits
  <2>2. CASE i # 1
    <3> DEFINE k == i - 1
    <3>1. k \in 1..Len(s) /\ r[i] = s[k] /\ i = k + 1
      BY <1>1, <2>2
    <3>2. k < Len(s) => r[i + 1] = s[k + 1] /\ i < Len(r)
      BY <1>1, <3>1
    <3>3. s[k].act \notin Acting
      <4>1. CASE k = 1
        BY <4>1, <1>2, <3>1 DEF Fits
      <4>2. CASE k # 1
        BY <4>2, <3>1 DEF Stack
      <4> QED BY <4>1, <4>2
    <3>4. s[k].act # "service" => /\ k < Len(s) /\ s[k + 1].obj = s[k].obj
                                  /\ s[k + 1].act \in {"service", "check"}
      BY <3>1 DEF Stack
    <3>5. s[k].act = "check" => s[k + 1].act = "service"
      BY <3>1 DEF Stack
    <3> HIDE DEF k
    <3> QED BY <3>1, <3>2, <3>3, <3>4, <3>5 DEF Acting
  <2> QED BY <2>1, <2>2
<1> QED BY <1>3 DEF Stack, r

LEMMA PopStack ==
  ASSUME NEW s \in Seq(Frame), Stack(s), s # <<>>
  PROVE  /\ Stack(Tail(s))
         /\ Tail(s) # <<>> => Tail(s)[1] = s[2] /\ s[2].act \notin Acting
         /\ s[1].act # "service" =>
              /\ Tail(s) # <<>> /\ s[2].obj = s[1].obj /\ s[2].act \in {"service", "check"}
         /\ s[1].act = "check" \/ (s[1].act \in {"body", "after"} /\ s[1].serving) =>
              s[2].act = "service"
<1>1. /\ Len(s) \in Nat \ {0} /\ Len(Tail(s)) = Len(s) - 1
      /\ Tail(s) = <<>> <=> Len(s) = 1
      /\ \A i \in 1..Len(s) - 1 : Tail(s)[i] = s[i + 1]
  BY PopProperties
<1>2. Stack(Tail(s))
  <2>1. \A i \in 1..Len(s) - 1 : i + 1 \in 1..Len(s) /\ s[i + 1].act \notin Acting
    BY <1>1 DEF Stack
  <2>2. ASSUME NEW i \in 1..Len(s) - 1, s[i + 1].act # "service"
        PROVE  i < Len(s) - 1 /\ Tail(s)[i + 1] = s[i + 1 + 1]
    BY <1>1, <2>1, <2>2 DEF Stack
  <2> QED BY <1>1, <2>1, <2>2 DEF Stack, Acting
<1>3. Tail(s) # <<>> => Tail(s)[1] = s[2] /\ s[2].act \notin Acting
  <2>1. ASSUME Tail(s) # <<>>  PROVE 2 \in 1..Len(s) /\ 1 \in 1..Len(s) - 1
    BY <1>1, <2>1
  <2> QED BY <1>1, <2>1 DEF Stack
<1>4. 1 \in 1..Len(s)
  BY <1>1
<1> QED BY <1>1, <1>2, <1>3, <1>4 DEF Stack

\* How often the agenda s unlocks object o.
Unlocks(s, o) == Cardinality(Levels(s, o))

LEMMA UnlocksNat ==
  ASSUME NEW s \in Seq(Frame), NEW o
  PROVE  /\ Levels(s, o) \subseteq 1..Len(s) /\ IsFiniteSet(Levels(s, o))
         /\ Unlocks(s, o) \in Nat
         /\ s = <<>> => Unlocks(s, o) = 0
         /\ \A i \in 1..Len(s) : s[i].act = "service" /\ s[i].obj = o => Unlocks(s, o) > 0
<1>1. Len(s) \in Nat
  OBVIOUS
<1>2. Levels(s, o) \subseteq 1..Len(s)
  BY DEF Levels
<1>3. IsFiniteSet(1..Len(s))
  BY <1>1, FS_Interval
<1>4. IsFiniteSet(Levels(s, o))
  BY <1>2, <1>3, FS_Subset
<1>5. Unlocks(s, o) \in Nat
  BY <1>4, FS_CardinalityType DEF Unlocks
<1>6. Unlocks(s, o) = 0 <=> Levels(s, o) = {}
  BY <1>4, FS_EmptySet DEF Unlocks
<1>7. s = <<>> => Levels(s, o) = {}
  <2>1. s = <<>> => Len(s) = 0
    BY EmptySeq
  <2> QED BY <1>2, <2>1
<1>8. ASSUME NEW i \in 1..Len(s), s[i].act = "service", s[i].obj = o
      PROVE  Levels(s, o) # {}
  <2> DEFINE j == Len(s) + 1 - i
  <2>1. j \in 1..Len(s) /\ Len(s) + 1 - j = i
    BY <1>1
  <2> QED BY <1>8, <2>1 DEF Levels
<1> QED BY <1>2, <1>4, <1>5, <1>6, <1>7, <1>8

LEMMA UnlocksPush ==
  ASSUME NEW s \in Seq(Frame), NEW x \in Frame, NEW o
  PROVE  Unlocks(<<x>> \o s, o) =
           IF x.act = "service" /\ x.obj = o THEN Unlocks(s, o) + 1 ELSE Unlocks(s, o)
<1> DEFINE r == <<x>> \o s
           n == Len(s)
<1>1. /\ n \in Nat /\ Len(r) = n + 1 /\ r[1] = x
      /\ \A i \in 1..n : r[i + 1] = s[i]
  BY PushProperties
<1> HIDE DEF r
<1>2. \A j \in 1..n : n + 1 - j \in 1..n /\ r[n + 1 + 1 - j] = s[n + 1 - j]
  <2> TAKE j \in 1..n
  <2>1. n + 1 - j \in 1..n /\ n + 1 + 1 - j = (n + 1 - j) + 1
    BY <1>1
  <2> HIDE DEF n
  <2> QED BY <1>1, <2>1
<1>3. r[n + 1 + 1 - (n + 1)] = x
  BY <1>1
<1>4. Levels(r, o) = IF x.act = "service" /\ x.obj = o THEN Levels(s, o) \cup {n + 1}
                     ELSE Levels(s, o)
  <2>1. Levels(r, o) = {j \in 1..n + 1 : r[n + 1 + 1 - j].act = "service" /\ r[n + 1 + 1 - j].obj = o}
    BY <1>1 DEF Levels
  <2>2. Levels(s, o) = {j \in 1..n : s[n + 1 - j].act = "service" /\ s[n + 1 - j].obj = o}
    BY DEF Levels
  <2>3. 1..n + 1 = (1..n) \cup {n + 1}
    BY <1>1
  <2> HIDE DEF n
  <2> QED BY <1>2, <1>3, <2>1, <2>2, <2>3
<1>5. n + 1 \notin Levels(s, o) /\ IsFiniteSet(Levels(s, o))
  BY <1>1, UnlocksNat
<1> QED BY <1>4, <1>5, FS_AddElement DEF Unlocks, r

LEMMA UnlocksPop ==
  ASSUME NEW s \in Seq(Frame), s # <<>>, NEW o
  PROVE  Unlocks(s, o) = IF s[1].act = "service" /\ s[1].obj = o
                         THEN Unlocks(Tail(s), o) + 1 ELSE Unlocks(Tail(s), o)
<1>1. s = <<s[1]>> \o Tail(s)
  OBVIOUS
<1>2. Tail(s) \in Seq(Frame) /\ s[1] \in Frame
  BY PopProperties
<1>3. Unlocks(<<s[1]>> \o Tail(s), o) =
        IF s[1].act = "service" /\ s[1].obj = o THEN Unlocks(Tail(s), o) + 1 ELSE Unlocks(Tail(s), o)
  BY <1>2, UnlocksPush
<1> QED BY <1>1, <1>3

-----------------------------------------------------------------------------
(* How steps move the places of the calls.                                 *)

\* Task t has agenda s now.
Agenda(t, s) ==
  /\ s \in Seq(Frame) /\ Stack(s)
  /\ agenda' = [agenda EXCEPT ![t] = s]

\* Nothing but the record of c changes.
RecordOf(c) ==
  \A d \in Callers : d # c => /\ State'[d] = State[d]
                              /\ Called_PO'[d] = Called_PO[d] /\ E'[d] = E[d]

LEMMA QueueTyped ==
  ASSUME Typed
  PROVE  \A o \in Objects, e \in Entries :
           /\ Entry_Queues[o][e] \in Seq(Callers)
           /\ Len(Entry_Queues[o][e]) \in Nat
           /\ \A i \in 1..Len(Entry_Queues[o][e]) : Entry_Queues[o][e][i] \in Callers
<1> TAKE o \in Objects, e \in Entries
<1>1. Entry_Queues[o][e] \in Seq(Callers)
  BY DEF Typed, ObjectsTyped
<1> QED BY <1>1, ElementOfSeq

LEMMA AgendaChange ==
  ASSUME ControlTyped, NEW t \in Tasks, NEW s, Agenda(t, s), pc' \in [Tasks -> Labels]
  PROVE  /\ ControlTyped'
         /\ \A u \in Tasks : agenda'[u] = IF u = t THEN s ELSE agenda[u]
  BY DEF ControlTyped, Agenda

\* t goes on with the call of c.
LEMMA KeepsCall ==
  ASSUME Places, NEW t \in Tasks, NEW c \in Callers, Serves(t, c),
         NEW s, Agenda(t, s), s # <<>>, s[1].act \in Acting, s[1].call = c,
         s[1].act \in Trying => Called_PO'[c] = s[1].obj,
         UNCHANGED <<Entry_Queues, pc>>, Typed', RecordOf(c), State'[c] \notin Over
  PROVE  Places'
<1>1. ControlTyped' /\ \A u \in Tasks : agenda'[u] = IF u = t THEN s ELSE agenda[u]
  BY AgendaChange DEF Places, ControlTyped
<1>2. \A u \in Tasks : \A d \in Callers : Serves(u, d)' <=> Serves(u, d)
  <2> SUFFICES ASSUME NEW u \in Tasks, NEW d \in Callers  PROVE Serves(u, d)' <=> Serves(u, d)
    OBVIOUS
  <2>1. CASE u = t
    BY <1>1, <2>1 DEF Serves
  <2>2. CASE u # t
    BY <1>1, <2>2 DEF Serves
  <2> QED BY <2>1, <2>2
<1>3. OwnAgenda'
  BY <1>1 DEF Places, OwnAgenda, Serves
<1>4. ServedByOne'
  BY <1>2 DEF Places, ServedByOne
<1>5. \A o \in Objects, e \in Entries : ~Contains(Entry_Queues[o][e], c)
  BY DEF Places, QueuedAsRecorded
<1>6. QueuedAsRecorded'
  BY <1>2, <1>5 DEF Places, QueuedAsRecorded, RecordOf
<1>7. QueuedDistinct'
  BY DEF Places, QueuedDistinct
<1>8. \A d \in Callers : Placed(d)' <=> Placed(d)
  BY <1>2 DEF Placed, Onqueue
<1>9. NotOver'
  BY <1>8 DEF Places, NotOver, RecordOf, Placed
<1>10. TriedWhereCalled'
  <2> SUFFICES ASSUME NEW u \in Tasks, agenda'[u] # <<>>, agenda'[u][1].act \in Trying
               PROVE  Called_PO'[agenda'[u][1].call] = agenda'[u][1].obj
    BY DEF TriedWhereCalled
  <2>1. CASE u = t
    BY <1>1, <2>1
  <2>2. CASE u # t
    <3>1. agenda[u][1] \in Frame /\ agenda'[u] = agenda[u]
      BY <1>1, <2>2, PopProperties DEF Places, ControlTyped
    <3>2. agenda[u][1].call \in Callers
      BY <3>1 DEF Frame, Trying
    <3>3. agenda[u][1].call # c
      BY <2>2, <3>1 DEF Places, ServedByOne, Serves, Acting, Trying
    <3> QED BY <3>1, <3>2, <3>3 DEF Places, TriedWhereCalled, RecordOf
  <2> QED BY <2>1, <2>2
<1> QED BY <1>1, <1>3, <1>4, <1>6, <1>7, <1>9, <1>10 DEF Places

\* t is done with the call of c.
LEMMA DropsCall ==
  ASSUME Places, NEW t \in Tasks, NEW c \in Callers, Serves(t, c),
         NEW s, Agenda(t, s), s # <<>> => s[1].act \notin Acting,
         UNCHANGED <<Entry_Queues, pc, Called_PO, E>>, Typed', RecordOf(c)
  PROVE  Places'
<1>1. ControlTyped' /\ \A u \in Tasks : agenda'[u] = IF u = t THEN s ELSE agenda[u]
  BY AgendaChange DEF Places, ControlTyped
<1>2. \A u \in Tasks : \A d \in Callers : Serves(u, d)' <=> u # t /\ Serves(u, d)
  <2> SUFFICES ASSUME NEW u \in Tasks, NEW d \in Callers
               PROVE  Serves(u, d)' <=> u # t /\ Serves(u, d)
    OBVIOUS
  <2>1. CASE u = t
    BY <1>1, <2>1 DEF Serves
  <2>2. CASE u # t
    BY <1>1, <2>2 DEF Serves
  <2> QED BY <2>1, <2>2
<1>3. OwnAgenda'
  BY <1>1 DEF Places, OwnAgenda, Serves
<1>4. ServedByOne'
  BY <1>2 DEF Places, ServedByOne
<1>5. \A o \in Objects, e \in Entries : ~Contains(Entry_Queues[o][e], c)
  BY DEF Places, QueuedAsRecorded
<1>6. QueuedAsRecorded'
  BY <1>2, <1>5 DEF Places, QueuedAsRecorded
<1>7. QueuedDistinct'
  BY DEF Places, QueuedDistinct
<1>8. \A d \in Callers : Placed(d)' => Placed(d) /\ d # c
  BY <1>2, <1>5 DEF Places, Placed, Onqueue, ServedByOne
<1>9. NotOver'
  BY <1>8 DEF Places, NotOver, RecordOf
<1>10. TriedWhereCalled'
  BY <1>1 DEF Places, TriedWhereCalled, Acting, Trying
<1> QED BY <1>1, <1>3, <1>4, <1>6, <1>7, <1>9, <1>10 DEF Places

\* t puts the call of c in a queue: that of the entry its record names.
LEMMA QueuesCall ==
  ASSUME Places, NEW t \in Tasks, NEW c \in Callers, Serves(t, c),
         NEW s, Agenda(t, s), s # <<>> => s[1].act \notin Acting,
         Entry_Queues' = [Entry_Queues EXCEPT ![Called_PO[c]][E[c]] = Append(@, c)],
         UNCHANGED <<pc, Called_PO, E>>, Typed', RecordOf(c), State'[c] \notin Over
  PROVE  Places'
<1>1. ControlTyped' /\ \A u \in Tasks : agenda'[u] = IF u = t THEN s ELSE agenda[u]
  BY AgendaChange DEF Places, ControlTyped
<1>2. \A u \in Tasks : \A d \in Callers : Serves(u, d)' <=> u # t /\ Serves(u, d)
  <2> SUFFICES ASSUME NEW u \in Tasks, NEW d \in Callers
               PROVE  Serves(u, d)' <=> u # t /\ Serves(u, d)
    OBVIOUS
  <2>1. CASE u = t
    BY <1>1, <2>1 DEF Serves
  <2>2. CASE u # t
    BY <1>1, <2>2 DEF Serves
  <2> QED BY <2>1, <2>2
<1>3. OwnAgenda'
  BY <1>1 DEF Places, OwnAgenda, Serves
<1>4. ServedByOne'
  BY <1>2 DEF Places, ServedByOne
<1>5. \A o \in Objects, e \in Entries :
        /\ Entry_Queues[o][e] \in Seq(Callers) /\ Len(Entry_Queues[o][e]) \in Nat
        /\ ~Contains(Entry_Queues[o][e], c)
        /\ \A i \in 1..Len(Entry_Queues[o][e]) : Entry_Queues[o][e][i] # c
  BY QueueTyped DEF Places, QueuedAsRecorded, Contains
<1>6. \A o \in Objects, e \in Entries :
        Entry_Queues'[o][e] = IF o = Called_PO[c] /\ e = E[c]
                              THEN Append(Entry_Queues[o][e], c) ELSE Entry_Queues[o][e]
  BY DEF Places, Typed, ObjectsTyped
\* A place of a queue is one it had, or c's.
<1>7. ASSUME NEW o \in Objects, NEW e \in Entries, NEW i \in 1..Len(Entry_Queues'[o][e])
      PROVE  \/ /\ i \in 1..Len(Entry_Queues[o][e])
                /\ Entry_Queues'[o][e][i] = Entry_Queues[o][e][i]
             \/ /\ i = Len(Entry_Queues[o][e]) + 1
                /\ o = Called_PO[c] /\ e = E[c] /\ Entry_Queues'[o][e][i] = c
  <2>1. CASE o = Called_PO[c] /\ e = E[c]
    <3> DEFINE q == Entry_Queues[o][e]
    <3>1. Entry_Queues'[o][e] = Append(q, c)
      BY <1>6, <2>1
    <3>2. /\ Len(Append(q, c)) = Len(q) + 1
          /\ \A k \in 1..Len(q) : Append(q, c)[k] = q[k]
          /\ Append(q, c)[Len(q) + 1] = c
      BY <1>5, AppendProperties
    <3>3. Len(q) \in Nat /\ i \in 1..Len(q) + 1
      BY <1>5, <3>1, <3>2
    <3> HIDE DEF q
    <3>4. i \in 1..Len(q) \/ i = Len(q) + 1
      BY <3>3
    <3> QED BY <2>1, <3>1, <3>2, <3>4 DEF q
  <2>2. CASE ~(o = Called_PO[c] /\ e = E[c])
    BY <1>6, <2>2
  <2> QED BY <2>1, <2>2
<1>8. \A o \in Objects, e \in Entries : \A d \in Callers :
        Contains(Entry_Queues'[o][e], d) =>
          Contains(Entry_Queues[o][e], d) \/ (o = Called_PO[c] /\ e = E[c] /\ d = c)
  BY <1>7 DEF Contains
<1>13. QueuedAsRecorded'
  BY <1>2, <1>5, <1>8 DEF Places, QueuedAsRecorded, ServedByOne
<1>9. QueuedDistinct'
  <2> SUFFICES ASSUME NEW o \in Objects, NEW e \in Entries,
                      NEW i \in 1..Len(Entry_Queues'[o][e]), NEW j \in 1..Len(Entry_Queues'[o][e]),
                      Entry_Queues'[o][e][i] = Entry_Queues'[o][e][j]
               PROVE  i = j
    BY DEF QueuedDistinct, Distinct
  <2> DEFINE q == Entry_Queues[o][e]
             Old(k) == k \in 1..Len(q) /\ Entry_Queues'[o][e][k] = q[k]
             New(k) == /\ k = Len(q) + 1
                       /\ o = Called_PO[c] /\ e = E[c] /\ Entry_Queues'[o][e][k] = c
  <2>1. \A k \in 1..Len(Entry_Queues'[o][e]) : Old(k) \/ New(k)
    BY <1>7
  <2>2. \A k \in 1..Len(q), n \in 1..Len(q) : q[k] = q[n] => k = n
    BY DEF Places, QueuedDistinct, Distinct
  <2>3. o = Called_PO[c] /\ e = E[c] => \A k \in 1..Len(q) : q[k] # c
    BY <1>5
  <2>4. Entry_Queues'[o][e][i] = Entry_Queues'[o][e][j]
    OBVIOUS
  <2> HIDE DEF q
  <2>5. (Old(i) \/ New(i)) /\ (Old(j) \/ New(j))
    BY <2>1
  <2> QED BY <2>2, <2>3, <2>4, <2>5
<1>10. \A d \in Callers : Placed(d)' => Placed(d)
  BY <1>2, <1>8 DEF Placed, Onqueue
<1>11. NotOver'
  BY <1>10 DEF Places, NotOver, RecordOf
<1>12. TriedWhereCalled'
  BY <1>1 DEF Places, TriedWhereCalled, Acting, Trying
<1> QED BY <1>1, <1>3, <1>4, <1>9, <1>11, <1>12, <1>13 DEF Places

LEMMA TailOfQueue ==
  ASSUME NEW q \in Seq(Callers), q # <<>>, Distinct(q)
  PROVE  /\ Tail(q) \in Seq(Callers) /\ Distinct(Tail(q))
         /\ Head(q) \in Callers /\ Contains(q, Head(q))
         /\ \A d : Contains(Tail(q), d) <=> Contains(q, d) /\ d # Head(q)
<1> DEFINE n == Len(q)
<1>1. /\ n \in Nat \ {0} /\ Tail(q) \in Seq(Callers) /\ Len(Tail(q)) = n - 1
      /\ \A i \in 1..n - 1 : Tail(q)[i] = q[i + 1]
      /\ Head(q) = q[1] /\ q[1] \in Callers
  BY PopProperties
<1> HIDE DEF n
<1>2. \A i \in 1..n - 1 : i + 1 \in 1..n
  BY <1>1
<1>3. 1 \in 1..n
  BY <1>1
<1>4. \A i, j \in 1..n : q[i] = q[j] => i = j
  BY DEF Distinct, n
<1>5. Distinct(Tail(q))
  BY <1>1, <1>2, <1>4 DEF Distinct
<1>6. Contains(q, Head(q))
  BY <1>1, <1>3 DEF Contains, n
<1>7. ASSUME NEW d, Contains(Tail(q), d)  PROVE Contains(q, d) /\ d # Head(q)
  <2>1. PICK i \in 1..n - 1 : Tail(q)[i] = d
    BY <1>1, <1>7 DEF Contains
  <2>2. q[i + 1] = d /\ i + 1 \in 1..n /\ i + 1 # 1
    BY <1>1, <1>2, <2>1
  <2> QED BY <1>1, <1>3, <1>4, <2>2 DEF Contains, n
<1>8. ASSUME NEW d, Contains(q, d), d # Head(q)  PROVE Contains(Tail(q), d)
  <2>1. PICK i \in 1..n : q[i] = d
    BY <1>8 DEF Contains, n
  <2>2. i # 1
    BY <1>1, <1>8, <2>1
  <2>3. i - 1 \in 1..n - 1 /\ (i - 1) + 1 = i
    BY <1>1, <2>1, <2>2
  <2>4. Tail(q)[i - 1] = d
    BY <1>1, <2>1, <2>3
  <2> QED BY <1>1, <2>3, <2>4 DEF Contains
<1> QED BY <1>1, <1>5, <1>6, <1>7, <1>8

LEMMA QueueWithout ==
  ASSUME NEW q \in Seq(Callers), Distinct(q), NEW c
  PROVE  /\ Without(q, c) \in Seq(Callers) /\ Distinct(Without(q, c))
         /\ \A d : Contains(Without(q, c), d) <=> Contains(q, d) /\ d # c
<1>1. CASE ~Contains(q, c)
  <2>1. Without(q, c) = q
    BY <1>1 DEF Without
  <2> QED BY <1>1, <2>1
<1>2. CASE Contains(q, c)
  <2> DEFINE p == CHOOSE i \in DOMAIN q : q[i] = c
             a == SubSeq(q, 1, p - 1)
             b == SubSeq(q, p + 1, Len(q))
             n == Len(q)
             r == Without(q, c)
  <2>1. /\ n \in Nat /\ DOMAIN q = 1..n
        /\ \A i \in 1..n : q[i] \in Callers
        /\ \A i, j \in 1..n : q[i] = q[j] => i = j
    BY ElementOfSeq DEF Distinct
  <2>2. p \in 1..n /\ q[p] = c
    BY <1>2, <2>1 DEF Contains
  <2>3. r = a \o b
    BY <1>2 DEF Without, RemoveAt
  <2> HIDE DEF p, n, r
  <2>4. /\ a \in Seq(Callers) /\ Len(a) = p - 1
        /\ \A i \in 1..p - 1 : a[i] = q[i]
    <3>1. /\ 1 \in Int /\ p - 1 \in Int
          /\ \A i \in 1..p - 1 : q[i] \in Callers
      BY <2>1, <2>2
    <3>2. /\ a \in Seq(Callers)
          /\ Len(a) = IF 1 <= p - 1 THEN p - 1 - 1 + 1 ELSE 0
          /\ \A i \in 1..p - 1 - 1 + 1 : a[i] = q[1 + i - 1]
      BY <3>1, SubSeqProperties
    <3> HIDE DEF a
    <3> QED BY <2>1, <2>2, <3>2
  <2>5. /\ b \in Seq(Callers) /\ Len(b) = n - p
        /\ \A i \in 1..n - p : b[i] = q[p + i]
    <3>1. /\ p + 1 \in Int /\ n \in Int
          /\ \A i \in p + 1..n : q[i] \in Callers
      BY <2>1, <2>2
    <3>2. /\ b \in Seq(Callers)
          /\ Len(b) = IF p + 1 <= n THEN n - (p + 1) + 1 ELSE 0
          /\ \A i \in 1..n - (p + 1) + 1 : b[i] = q[p + 1 + i - 1]
      BY <3>1, SubSeqProperties DEF n
    <3> HIDE DEF b
    <3> QED BY <2>1, <2>2, <3>2
  <2>6. /\ r \in Seq(Callers) /\ Len(r) = n - 1
        /\ \A i \in 1..n - 1 : r[i] = IF i < p THEN q[i] ELSE q[i + 1]
    <3> HIDE DEF a, b
    <3>1. /\ r \in Seq(Callers) /\ Len(r) = (p - 1) + (n - p)
          /\ \A i \in 1..(p - 1) + (n - p) : r[i] = IF i <= p - 1 THEN a[i] ELSE b[i - (p - 1)]
      BY <2>3, <2>4, <2>5, ConcatProperties
    <3>2. ASSUME NEW i \in 1..n - 1  PROVE r[i] = IF i < p THEN q[i] ELSE q[i + 1]
      <4>1. CASE i < p
        BY <2>1, <2>2, <2>4, <3>1, <4>1
      <4>2. CASE ~(i < p)
        <5> DEFINE k == i - (p - 1)
        <5>1. k \in 1..n - p /\ p + k = i + 1 /\ i \in 1..(p - 1) + (n - p)
          BY <2>1, <2>2, <4>2
        <5>2. r[i] = b[k]
          BY <2>1, <2>2, <3>1, <4>2, <5>1
        <5> HIDE DEF k
        <5> QED BY <2>5, <4>2, <5>1, <5>2
      <4> QED BY <4>1, <4>2
    <3> QED BY <2>1, <2>2, <3>1, <3>2
  <2>7. \A i \in 1..n - 1 : \E k \in 1..n : k # p /\ r[i] = q[k] /\ k = IF i < p THEN i ELSE i + 1
    BY <2>1, <2>2, <2>6
  <2>8. Distinct(r)
    <3> SUFFICES ASSUME NEW i \in 1..n - 1, NEW j \in 1..n - 1, r[i] = r[j]  PROVE i = j
      BY <2>6 DEF Distinct
    <3> QED BY <2>1, <2>2, <2>7
  <2>9. ASSUME NEW d, Contains(r, d)  PROVE Contains(q, d) /\ d # c
    <3>1. PICK i \in 1..n - 1 : r[i] = d
      BY <2>6, <2>9 DEF Contains
    <3> QED BY <2>1, <2>2, <2>7, <3>1 DEF Contains, n
  <2>10. ASSUME NEW d, Contains(q, d), d # c  PROVE Contains(r, d)
    <3>1. PICK k \in 1..n : q[k] = d
      BY <2>10 DEF Contains, n
    <3>2. k # p
      BY <2>2, <2>10, <3>1
    <3> DEFINE i == IF k < p THEN k ELSE k - 1
    <3>3. i \in 1..n - 1 /\ (IF i < p THEN i ELSE i + 1) = k
      BY <2>1, <2>2, <3>1, <3>2
    <3>4. r[i] = d
      BY <2>6, <3>1, <3>3
    <3> QED BY <2>6, <3>3, <3>4 DEF Contains
  <2> QED BY <2>6, <2>8, <2>9, <2>10 DEF r
<1> QED BY <1>1, <1>2

\* The call of c is taken off the queue its record names.
LEMMA TakesCall ==
  ASSUME Places, NEW c \in Callers, NEW r, Distinct(r),
         \A d \in Callers : Contains(r, d) <=> Contains(Entry_Queues[Called_PO[c]][E[c]], d) /\ d # c,
         Entry_Queues' = [Entry_Queues EXCEPT ![Called_PO[c]][E[c]] = r]
  PROVE  /\ QueuedDistinct'
         /\ \A o \in Objects, e \in Entries : \A d \in Callers :
              Contains(Entry_Queues'[o][e], d) <=> Contains(Entry_Queues[o][e], d) /\ d # c
         /\ \A d \in Callers : Onqueue(d)' <=> Onqueue(d) /\ d # c
<1>1. \A o \in Objects, e \in Entries :
        Entry_Queues'[o][e] = IF o = Called_PO[c] /\ e = E[c] THEN r ELSE Entry_Queues[o][e]
  BY DEF Places, Typed, ObjectsTyped
<1>2. QueuedDistinct'
  BY <1>1 DEF Places, QueuedDistinct
<1>3. ASSUME NEW o \in Objects, NEW e \in Entries, NEW d \in Callers
      PROVE  Contains(Entry_Queues'[o][e], d) <=> Contains(Entry_Queues[o][e], d) /\ d # c
  <2>1. CASE o = Called_PO[c] /\ e = E[c]
    BY <1>1, <2>1
  <2>2. CASE ~(o = Called_PO[c] /\ e = E[c])
    BY <1>1, <2>2 DEF Places, QueuedAsRecorded
  <2> QED BY <2>1, <2>2
<1>4. \A d \in Callers : Onqueue(d)' <=> Onqueue(d) /\ d # c
  BY <1>3 DEF Onqueue
<1> QED BY <1>2, <1>3, <1>4

\* t begins to serve the call of c, which was queued.
LEMMA SelectsCall ==
  ASSUME Places, NEW t \in Tasks, NEW c \in Callers, Onqueue(c), NEW r, Distinct(r),
         \A d \in Callers : Contains(r, d) <=> Contains(Entry_Queues[Called_PO[c]][E[c]], d) /\ d # c,
         Entry_Queues' = [Entry_Queues EXCEPT ![Called_PO[c]][E[c]] = r],
         agenda[t] # <<>>, agenda[t][1].act \notin Acting,
         NEW s, Agenda(t, s), s # <<>>, s[1].act \in {"body", "after"}, s[1].call = c,
         UNCHANGED <<pc, Called_PO, E>>, Typed', RecordOf(c), State'[c] \notin Over
  PROVE  Places'
<1>1. ControlTyped' /\ \A u \in Tasks : agenda'[u] = IF u = t THEN s ELSE agenda[u]
  BY AgendaChange DEF Places, ControlTyped
<1>2. \A u \in Tasks : \A d \in Callers : Serves(u, d)' <=> IF u = t THEN d = c ELSE Serves(u, d)
  <2> SUFFICES ASSUME NEW u \in Tasks, NEW d \in Callers
               PROVE  Serves(u, d)' <=> IF u = t THEN d = c ELSE Serves(u, d)
    OBVIOUS
  <2>1. CASE u = t
    BY <1>1, <2>1 DEF Serves, Acting
  <2>2. CASE u # t
    BY <1>1, <2>2 DEF Serves
  <2> QED BY <2>1, <2>2
<1>3. OwnAgenda'
  BY <1>1 DEF Places, OwnAgenda
<1>4. /\ QueuedDistinct'
      /\ \A o \in Objects, e \in Entries : \A d \in Callers :
           Contains(Entry_Queues'[o][e], d) <=> Contains(Entry_Queues[o][e], d) /\ d # c
      /\ \A d \in Callers : Onqueue(d)' <=> Onqueue(d) /\ d # c
  BY TakesCall
<1>5. \A u \in Tasks : ~Serves(u, c)
  BY DEF Places, QueuedAsRecorded, Onqueue
<1>6. ServedByOne'
  BY <1>2, <1>5 DEF Places, ServedByOne
<1>7. QueuedAsRecorded'
  BY <1>2, <1>4 DEF Places, QueuedAsRecorded
<1>8. \A d \in Callers : Placed(d)' => Placed(d)
  BY <1>2, <1>4 DEF Placed
<1>9. NotOver'
  BY <1>8 DEF Places, NotOver, RecordOf
<1>10. TriedWhereCalled'
  BY <1>1 DEF Places, TriedWhereCalled, Trying
<1> QED BY <1>1, <1>3, <1>4, <1>6, <1>7, <1>9, <1>10 DEF Places

\* No call moves. A task that serves none does not begin to.
LEMMA MovesNoCall ==
  ASSUME Places, NEW t \in Tasks, \A c \in Callers : ~Serves(t, c),
         NEW s, Agenda(t, s), s # <<>> => s[1].act \notin Acting /\ pc'[t] \in {"calling", "cancelling"},
         pc' \in [Tasks -> Labels], \A u \in Tasks : u # t => pc'[u] = pc[u],
         t \in Callers => pc'[t] = pc[t],
         UNCHANGED <<Entry_Queues, State, Called_PO, E>>, Typed'
  PROVE  Places'
<1>1. ControlTyped' /\ \A u \in Tasks : agenda'[u] = IF u = t THEN s ELSE agenda[u]
  BY AgendaChange DEF Places, ControlTyped
<1>2. \A u \in Tasks : \A d \in Callers : Serves(u, d)' <=> Serves(u, d)
  <2> SUFFICES ASSUME NEW u \in Tasks, NEW d \in Callers  PROVE Serves(u, d)' <=> Serves(u, d)
    OBVIOUS
  <2>1. CASE u = t
    BY <1>1, <2>1 DEF Serves
  <2>2. CASE u # t
    BY <1>1, <2>2 DEF Serves
  <2> QED BY <2>1, <2>2
<1>3. OwnAgenda'
  BY <1>1 DEF Places, OwnAgenda
<1>4. ServedByOne'
  BY <1>2 DEF Places, ServedByOne
<1>5. QueuedAsRecorded' /\ QueuedDistinct'
  BY <1>2 DEF Places, QueuedAsRecorded, QueuedDistinct
<1>6. \A d \in Callers : Placed(d)' <=> Placed(d)
  BY <1>2 DEF Placed, Onqueue
<1>7. \A d \in Callers : pc'[d] = pc[d]
  BY DEF Tasks
<1>8. NotOver'
  BY <1>6, <1>7 DEF Places, NotOver
<1>9. TriedWhereCalled'
  BY <1>1 DEF Places, TriedWhereCalled, Acting, Trying
<1> QED BY <1>1, <1>3, <1>4, <1>5, <1>8, <1>9 DEF Places

\* A caller goes on with its call, or has it over.
LEMMA CallerMoves ==
  ASSUME Places, NEW t \in Tasks, agenda[t] = <<>> \/ pc'[t] = pc[t],
         pc' \in [Tasks -> Labels], \A u \in Tasks : u # t => pc'[u] = pc[u],
         t \in Callers => pc'[t] = pc[t] \/ pc'[t] \in Waiting \/ State[t] \in Over,
         UNCHANGED <<agenda, Entry_Queues, Called_PO, E>>, Typed',
         \A c \in Callers : State'[c] = State[c] \/ State'[c] \notin Over
  PROVE  Places'
<1>1. ControlTyped'
  BY DEF Places, ControlTyped
<1>2. \A u \in Tasks : \A d \in Callers : Serves(u, d)' <=> Serves(u, d)
  BY DEF Serves
<1>3. OwnAgenda'
  BY DEF Places, OwnAgenda
<1>4. ServedByOne'
  BY <1>2 DEF Places, ServedByOne
<1>5. QueuedAsRecorded' /\ QueuedDistinct'
  BY <1>2 DEF Places, QueuedAsRecorded, QueuedDistinct
<1>6. \A d \in Callers : Placed(d)' <=> Placed(d)
  BY <1>2 DEF Placed, Onqueue
<1>7. \A d \in Callers : d \in Tasks
  BY DEF Tasks
<1>8. NotOver'
  BY <1>6, <1>7 DEF Places, NotOver
<1>9. TriedWhereCalled'
  BY DEF Places, TriedWhereCalled
<1> QED BY <1>1, <1>3, <1>4, <1>5, <1>8, <1>9 DEF Places

-----------------------------------------------------------------------------
(* Every step keeps each call in one place.                                *)

\* The first frame of an agenda and what is under it.
LEMMA FirstFrame ==
  ASSUME ControlTyped, NEW t \in Tasks, agenda[t] # <<>>,
         NEW f, f = Head(agenda[t]), NEW s, s = Tail(agenda[t])
  PROVE  /\ f = agenda[t][1] /\ f \in Frame /\ f.obj \in Objects
         /\ f.act \in Acting \cup {"check"} => f.call \in Callers
         /\ f.act \in {"body", "after"} => f.serving \in BOOLEAN
         /\ f.act = "update" => f.new \in States \ Over
         /\ s \in Seq(Frame) /\ Stack(s)
         /\ s # <<>> => s[1].act \notin Acting
         /\ f.act # "service" => s # <<>> /\ s[1].obj = f.obj /\ s[1].act \in {"service", "check"}
         /\ f.act = "check" \/ (f.act \in {"body", "after"} /\ f.serving) => s[1].act = "service"
         /\ f.act \in Acting => Serves(t, f.call)
         /\ f.act \notin Acting => \A c \in Callers : ~Serves(t, c)
<1>1. agenda[t] \in Seq(Frame) /\ Stack(agenda[t])
  BY DEF ControlTyped
<1>2. f = agenda[t][1] /\ f \in Frame /\ s \in Seq(Frame)
  BY <1>1, PopProperties
<1>3. /\ f.obj \in Objects
      /\ f.act \in Acting \cup {"check"} => f.call \in Callers
      /\ f.act \in {"body", "after"} => f.serving \in BOOLEAN
      /\ f.act = "update" => f.new \in States \ Over
  BY <1>2 DEF Frame, Acting
<1>4. /\ Stack(s)
      /\ s # <<>> => s[1].act \notin Acting
      /\ f.act # "service" => s # <<>> /\ s[1].obj = f.obj /\ s[1].act \in {"service", "check"}
      /\ f.act = "check" \/ (f.act \in {"body", "after"} /\ f.serving) => s[1].act = "service"
  BY <1>1, <1>2, PopStack
<1>5. /\ f.act \in Acting => Serves(t, f.call)
      /\ f.act \notin Acting => \A c \in Callers : ~Serves(t, c)
  BY <1>2 DEF Serves
<1> QED BY <1>2, <1>3, <1>4, <1>5

LEMMA Pushed ==
  ASSUME NEW s \in Seq(Frame), Stack(s), NEW x \in Frame, Fits(x, s)
  PROVE  /\ <<x>> \o s \in Seq(Frame) /\ Stack(<<x>> \o s)
         /\ <<x>> \o s # <<>> /\ (<<x>> \o s)[1] = x
  BY PushStack, PushProperties

LEMMA NothingPushed == ASSUME NEW s \in Seq(Frame)  PROVE <<>> \o s = s
  BY ConcatEmptySeq

\* Served calls are not over.
LEMMA ServedNotOver ==
  ASSUME Places, NEW t \in Tasks, NEW c \in Callers, Serves(t, c)
  PROVE  State[c] \in States \ Over /\ Called_PO[c] \in Objects /\ E[c] \in Entries
  BY DEF Places, NotOver, Placed, Typed, RecordTyped

LEMMA DoBeginPlaces ==
  ASSUME Places, NEW t \in Tasks, DoBegin(t)
  PROVE  Places'
<1> DEFINE f == Head(agenda[t])
           s == Tail(agenda[t])
           o == f.obj
           c == f.call
           r == <<Body(o, c, FALSE)>> \o s
<1>1. agenda[t] # <<>> /\ f.act = "do"
  BY DEF DoBegin, At
<1>2. /\ o \in Objects /\ c \in Callers /\ s \in Seq(Frame) /\ Stack(s) /\ s # <<>>
      /\ s[1].act \notin Acting /\ s[1].obj = o /\ s[1].act \in {"service", "check"}
      /\ Serves(t, c)
  BY <1>1, FirstFrame DEF Places, Acting
<1>3. /\ agenda' = [agenda EXCEPT ![t] = r] /\ NotAbortable(c)
      /\ Call_In_Progress' = [Call_In_Progress EXCEPT ![o] = c]
      /\ UNCHANGED <<Mode, With_Abort, Cancellation_Attempted, Called_PO, E, locks,
                     Entry_Queues, open, atcbs, pc, Test_PO, Timedout, deferred, requeues, calls>>
  BY DEF DoBegin, Continue
<1> HIDE DEF o, c, s, f
<1>4. r \in Seq(Frame) /\ Stack(r) /\ r # <<>> /\ r[1].act = "body" /\ r[1].call = c
  <2> DEFINE x == Body(o, c, FALSE)
  <2>1. x \in Frame /\ x.act = "body" /\ x.obj = o /\ x.call = c /\ x.serving = FALSE
    BY <1>2 DEF Body, Frame
  <2> HIDE DEF x
  <2>2. Fits(x, s)
    BY <1>2, <2>1 DEF Fits
  <2>3. <<x>> \o s \in Seq(Frame) /\ Stack(<<x>> \o s) /\ <<x>> \o s # <<>> /\ (<<x>> \o s)[1] = x
    BY <1>2, <2>1, <2>2, Pushed
  <2> QED BY <2>1, <2>3 DEF x
<1>5. Agenda(t, r)
  BY <1>3, <1>4 DEF Agenda
<1>6. State' = [State EXCEPT ![c] = IF @ = "Now_Abortable" THEN "Was_Abortable" ELSE @]
  BY <1>3 DEF NotAbortable
<1>7. State'[c] \notin Over /\ RecordOf(c) /\ State' \in [Callers -> States]
  BY <1>2, <1>3, <1>6, ServedNotOver DEF RecordOf, Places, Typed, RecordTyped, States, Over
<1>8. Typed'
  BY <1>2, <1>3, <1>7 DEF Places, Typed, RecordTyped, ObjectsTyped, CallersTyped, locks, atcbs
<1> HIDE DEF r
<1> QED BY <1>2, <1>3, <1>4, <1>5, <1>7, <1>8, KeepsCall DEF Acting, Trying

LEMMA DoCancelPlaces ==
  ASSUME Places, NEW t \in Tasks, DoCancel(t)
  PROVE  Places'
<1> DEFINE f == Head(agenda[t])
           s == Tail(agenda[t])
           c == f.call
<1>1. agenda[t] # <<>> /\ f.act = "do"
  BY DEF DoCancel, At
<1>2. /\ c \in Callers /\ s \in Seq(Frame) /\ Stack(s)
      /\ s # <<>> => s[1].act \notin Acting
      /\ Serves(t, c)
  BY <1>1, FirstFrame DEF Places, Acting
<1>3. /\ agenda' = [agenda EXCEPT ![t] = <<>> \o s]
      /\ State' = [State EXCEPT ![c] = "Cancelled"]
      /\ CV' = [CV EXCEPT ![c] = @ \/ Task_State[c] = "Entry_Caller_Sleep"]
      /\ UNCHANGED <<Mode, With_Abort, Cancellation_Attempted, Called_PO, E, locks, objects,
                     Task_State, Pending_ATC_Level, pc, Test_PO, Timedout, deferred,
                     requeues, calls>>
  BY DEF DoCancel, Continue, Wakeup_Entry_Caller
<1> HIDE DEF c, s, f
<1>4. Agenda(t, s)
  BY <1>2, <1>3, NothingPushed DEF Agenda
<1>5. RecordOf(c) /\ State' \in [Callers -> States] /\ CV' \in [Callers -> BOOLEAN]
  BY <1>2, <1>3 DEF RecordOf, Places, Typed, RecordTyped, CallersTyped, States, Over
<1>6. Typed'
  BY <1>2, <1>3, <1>5 DEF Places, Typed, RecordTyped, ObjectsTyped, CallersTyped, locks, objects
<1>7. UNCHANGED <<Entry_Queues, pc, Called_PO, E>>
  BY <1>3 DEF objects
<1> QED BY <1>2, <1>4, <1>5, <1>6, <1>7, DropsCall

LEMMA BodyCompletesPlaces ==
  ASSUME Places, NEW t \in Tasks, BodyCompletes(t)
  PROVE  Places'
<1> DEFINE f == Head(agenda[t])
           s == Tail(agenda[t])
           x == After(f.obj, f.call, f.serving)
           r == <<x>> \o s
<1>1. agenda[t] # <<>> /\ f.act = "body"
  BY DEF BodyCompletes, At
<1>2. /\ f.obj \in Objects /\ f.call \in Callers /\ f.serving \in BOOLEAN
      /\ s \in Seq(Frame) /\ Stack(s) /\ s # <<>>
      /\ s[1].act \notin Acting /\ s[1].obj = f.obj /\ s[1].act \in {"service", "check"}
      /\ f.serving => s[1].act = "service"
      /\ Serves(t, f.call)
  BY <1>1, FirstFrame DEF Places, Acting
<1>3. PICK b \in SUBSET Entries :
        /\ open' = [open EXCEPT ![f.obj] = b]
        /\ agenda' = [agenda EXCEPT ![t] = r]
        /\ UNCHANGED <<record, locks, Entry_Queues, Call_In_Progress, atcbs, pc, Test_PO,
                       Timedout, deferred, requeues, calls>>
  BY DEF BodyCompletes, Continue
<1>4. /\ x \in Frame /\ x.act = "after" /\ x.obj = f.obj /\ x.call = f.call
      /\ x.serving = f.serving
  BY <1>2 DEF After, Frame
<1> HIDE DEF s, f, x
<1>5. Fits(x, s)
  BY <1>2, <1>4 DEF Fits
<1>6. r \in Seq(Frame) /\ Stack(r) /\ r # <<>> /\ r[1] = x
  BY <1>2, <1>4, <1>5, Pushed
<1>7. Agenda(t, r)
  BY <1>3, <1>6 DEF Agenda
<1>8. State'[f.call] \notin Over /\ RecordOf(f.call)
  BY <1>2, <1>3, ServedNotOver DEF RecordOf, record
<1>9. Typed'
  BY <1>2, <1>3 DEF Places, Typed, RecordTyped, ObjectsTyped, CallersTyped, locks, record, atcbs
<1>10. UNCHANGED <<Entry_Queues, pc>>
  BY <1>3
<1> HIDE DEF r
<1> QED BY <1>2, <1>4, <1>6, <1>7, <1>8, <1>9, <1>10, KeepsCall DEF Acting, Trying

LEMMA BodyRequeuesPlaces ==
  ASSUME Places, NEW t \in Tasks, NEW r0 \in Requeues, NEW e \in Entries, BodyRequeues(t, r0, e)
  PROVE  Places'
<1> DEFINE f == Head(agenda[t])
           s == Tail(agenda[t])
           x == After(f.obj, f.call, f.serving)
           r == <<x>> \o s
<1>1. agenda[t] # <<>> /\ f.act = "body"
  BY DEF BodyRequeues, At
<1>2. /\ f.obj \in Objects /\ f.call \in Callers /\ f.serving \in BOOLEAN
      /\ s \in Seq(Frame) /\ Stack(s) /\ s # <<>>
      /\ s[1].act \notin Acting /\ s[1].obj = f.obj /\ s[1].act \in {"service", "check"}
      /\ f.serving => s[1].act = "service"
      /\ Serves(t, f.call)
  BY <1>1, FirstFrame DEF Places, Acting
<1>3. PICK b \in SUBSET Entries :
        /\ open' = [open EXCEPT ![f.obj] = b]
        /\ agenda' = [agenda EXCEPT ![t] = r]
        /\ requeues' = [requeues EXCEPT ![f.call] = @ + 1]
        /\ E' = [E EXCEPT ![f.call] = e]
        /\ Called_PO' = [Called_PO EXCEPT ![f.call] = r0.to]
        /\ With_Abort' = [With_Abort EXCEPT ![f.call] = r0.with_abort]
        /\ Call_In_Progress' = [Call_In_Progress EXCEPT ![f.obj] = NoTask]
        /\ UNCHANGED <<State, Mode, Cancellation_Attempted, locks, Entry_Queues, atcbs, pc,
                       Test_PO, Timedout, deferred, calls>>
  BY DEF BodyRequeues, Continue
<1>4. /\ x \in Frame /\ x.act = "after" /\ x.obj = f.obj /\ x.call = f.call
      /\ x.serving = f.serving
  BY <1>2 DEF After, Frame
<1> HIDE DEF s, f, x
<1>5. Fits(x, s)
  BY <1>2, <1>4 DEF Fits
<1>6. r \in Seq(Frame) /\ Stack(r) /\ r # <<>> /\ r[1] = x
  BY <1>2, <1>4, <1>5, Pushed
<1>7. Agenda(t, r)
  BY <1>3, <1>6 DEF Agenda
<1>8. r0.to \in Objects /\ r0.with_abort \in BOOLEAN
  BY EntriesAssumption
<1>9. State'[f.call] \notin Over /\ RecordOf(f.call)
  BY <1>2, <1>3, ServedNotOver DEF RecordOf, Places, Typed, RecordTyped
<1>10. Typed'
  <2>1. RecordTyped'
    BY <1>2, <1>3, <1>8 DEF Places, Typed, RecordTyped
  <2>2. ObjectsTyped'
    BY <1>2, <1>3 DEF Places, Typed, ObjectsTyped, locks
  <2>3. CallersTyped'
    BY <1>2, <1>3 DEF Places, Typed, CallersTyped, atcbs
  <2> QED BY <2>1, <2>2, <2>3 DEF Typed
<1>11. UNCHANGED <<Entry_Queues, pc>>
  BY <1>3
<1> HIDE DEF r
<1> QED BY <1>2, <1>4, <1>6, <1>7, <1>9, <1>10, <1>11, KeepsCall DEF Acting, Trying

LEMMA AfterDonePlaces ==
  ASSUME Places, NEW t \in Tasks, AfterDone(t)
  PROVE  Places'
<1> DEFINE f == Head(agenda[t])
           s == Tail(agenda[t])
           c == f.call
<1>1. agenda[t] # <<>> /\ f.act = "after"
  BY DEF AfterDone, At
<1>2. /\ c \in Callers /\ s \in Seq(Frame) /\ Stack(s)
      /\ s # <<>> => s[1].act \notin Acting
      /\ Serves(t, c) /\ f.obj \in Objects
  BY <1>1, FirstFrame DEF Places, Acting
<1>3. /\ agenda' = [agenda EXCEPT ![t] = <<>> \o s]
      /\ State' = [State EXCEPT ![c] = "Done"]
      /\ CV' = [CV EXCEPT ![c] = @ \/ Task_State[c] = "Entry_Caller_Sleep"]
      /\ Call_In_Progress' = [Call_In_Progress EXCEPT ![f.obj] = NoTask]
      /\ UNCHANGED <<Mode, With_Abort, Cancellation_Attempted, Called_PO, E, locks,
                     Entry_Queues, open, Task_State, Pending_ATC_Level, pc, Test_PO,
                     Timedout, deferred, requeues, calls>>
  BY DEF AfterDone, Continue, Wakeup_Entry_Caller
<1> HIDE DEF c, s, f
<1>4. Agenda(t, s)
  BY <1>2, <1>3, NothingPushed DEF Agenda
<1>5. RecordOf(c) /\ State' \in [Callers -> States] /\ CV' \in [Callers -> BOOLEAN]
  BY <1>2, <1>3 DEF RecordOf, Places, Typed, RecordTyped, CallersTyped, States, Over
<1>6. Typed'
  BY <1>2, <1>3, <1>5 DEF Places, Typed, RecordTyped, ObjectsTyped, CallersTyped, locks
<1>7. UNCHANGED <<Entry_Queues, pc, Called_PO, E>>
  BY <1>3
<1> QED BY <1>2, <1>4, <1>5, <1>6, <1>7, DropsCall

\* The agenda of t: its first frame, the rest, and what a requeue leaves of it.
First(t) == Head(agenda[t])
Rest(t)  == Tail(agenda[t])

Requeued(t) == Afterwards(First(t)) \o Rest(t)

\* What follows a requeue, with the rest of the agenda under it.
LEMMA AfterwardsPushed ==
  ASSUME NEW s \in Seq(Frame), Stack(s), s # <<>>, NEW f,
         f.obj \in Objects, f.call \in Callers, f.serving \in BOOLEAN,
         s[1].act \in {"service", "check"}, s[1].obj = f.obj, f.serving => s[1].act = "service",
         NEW a, a = Afterwards(f) \o s
  PROVE  /\ a \in Seq(Frame) /\ Stack(a) /\ a # <<>>
         /\ a[1].act \in {"service", "check"} /\ a[1].act \notin Acting /\ a[1].obj = f.obj
         /\ \A o : Unlocks(a, o) = Unlocks(s, o)
<1>1. CASE ~f.serving
  <2>1. a = s
    BY <1>1, NothingPushed DEF Afterwards
  <2> QED BY <2>1 DEF Acting
<1>2. CASE f.serving
  <2> DEFINE x == Check(f.obj, f.call)
  <2>1. x \in Frame /\ x.act = "check" /\ x.obj = f.obj
    BY DEF Check, Frame
  <2>2. a = <<x>> \o s
    BY <1>2 DEF Afterwards
  <2> HIDE DEF x
  <2>3. Fits(x, s)
    BY <1>2, <2>1 DEF Fits, Acting
  <2>4. a \in Seq(Frame) /\ Stack(a) /\ a # <<>> /\ a[1] = x
    BY <2>1, <2>2, <2>3, Pushed
  <2>5. \A o : Unlocks(a, o) = Unlocks(s, o)
    BY <2>1, <2>2, UnlocksPush
  <2> QED BY <2>1, <2>4, <2>5 DEF Acting
<1> QED BY <1>1, <1>2

\* The frame of a body that was executed.
LEMMA AfterFrame ==
  ASSUME Places, NEW t \in Tasks, At(t, "after")
  PROVE  /\ agenda[t] # <<>> /\ First(t) = agenda[t][1] /\ First(t).act = "after"
         /\ First(t).obj \in Objects /\ First(t).call \in Callers /\ First(t).serving \in BOOLEAN
         /\ Serves(t, First(t).call)
         /\ Rest(t) \in Seq(Frame) /\ Stack(Rest(t)) /\ Rest(t) # <<>>
         /\ Rest(t)[1].act \notin Acting
         /\ Requeued(t) \in Seq(Frame) /\ Stack(Requeued(t)) /\ Requeued(t) # <<>>
         /\ Requeued(t)[1].act \in {"service", "check"} /\ Requeued(t)[1].act \notin Acting
         /\ Requeued(t)[1].obj = First(t).obj
         /\ \A o : Unlocks(Requeued(t), o) = Unlocks(Rest(t), o)
<1> DEFINE f == First(t)
           s == Rest(t)
<1>1. agenda[t] # <<>> /\ f.act = "after"
  BY DEF At, First
<1>2. /\ f = agenda[t][1] /\ f.obj \in Objects /\ f.call \in Callers /\ f.serving \in BOOLEAN
      /\ s \in Seq(Frame) /\ Stack(s) /\ s # <<>>
      /\ s[1].act \notin Acting
      /\ s[1].obj = f.obj /\ s[1].act \in {"service", "check"}
      /\ f.serving => s[1].act = "service"
      /\ Serves(t, f.call)
  BY <1>1, FirstFrame DEF Places, Acting, First, Rest
<1> HIDE DEF f, s
<1>3. \A a : a = Afterwards(f) \o s =>
        /\ a \in Seq(Frame) /\ Stack(a) /\ a # <<>>
        /\ a[1].act \in {"service", "check"} /\ a[1].act \notin Acting /\ a[1].obj = f.obj
        /\ \A o : Unlocks(a, o) = Unlocks(s, o)
  BY <1>2, AfterwardsPushed, Zenon
<1> QED BY <1>1, <1>2, <1>3 DEF Requeued, f, s

\* Between the test of the barrier and the queue, the first frame of t alone
\* changes.
LEMMA TriedFrame ==
  ASSUME Places, NEW t \in Tasks, DoQueue(t) \/ ReadState(t),
         NEW c, c = First(t).call
  PROVE  /\ agenda[t] # <<>> /\ First(t) = agenda[t][1] /\ First(t).act \in {"do", "queue"}
         /\ First(t).obj \in Objects /\ c \in Callers
         /\ Serves(t, c) /\ Called_PO[c] = First(t).obj
         /\ UNCHANGED <<record, locks, objects, atcbs, pc, Test_PO, Timedout, deferred,
                        requeues, calls>>
         /\ \E r : /\ Agenda(t, r) /\ r # <<>> /\ r[1].act \in {"queue", "update"}
                   /\ r[1].obj = First(t).obj /\ r[1].call = c
                   /\ r[1].act = "update" => r[1].new = New_State(With_Abort[c], State[c])
                   /\ \A p : Unlocks(r, p) = Unlocks(Rest(t), p)
<1> DEFINE f == First(t)
           s == Rest(t)
           x == IF DoQueue(t) THEN Queue(f.obj, c)
                ELSE Update(f.obj, c, New_State(With_Abort[c], State[c]))
<1>1. agenda[t] # <<>> /\ f.act \in {"do", "queue"}
  BY DEF DoQueue, ReadState, At, First
<1>2. /\ f = agenda[t][1] /\ f.obj \in Objects /\ c \in Callers
      /\ s \in Seq(Frame) /\ Stack(s) /\ s # <<>>
      /\ s[1].act \notin Acting /\ s[1].obj = f.obj /\ s[1].act \in {"service", "check"}
      /\ Serves(t, c)
  BY <1>1, FirstFrame DEF Places, Acting, First, Rest
<1>3. Called_PO[c] = f.obj
  BY <1>1, <1>2 DEF Places, TriedWhereCalled, Trying
<1>4. /\ agenda' = [agenda EXCEPT ![t] = <<x>> \o s]
      /\ UNCHANGED <<record, locks, objects, atcbs, pc, Test_PO, Timedout, deferred,
                     requeues, calls>>
  <2>1. CASE DoQueue(t)
    BY <2>1 DEF DoQueue, Continue, First, Rest
  <2>2. CASE ~DoQueue(t)
    BY <2>2 DEF ReadState, Continue, First, Rest
  <2> QED BY <2>1, <2>2
<1>5. New_State(With_Abort[c], State[c]) \in States \ Over
  BY <1>2, ServedNotOver DEF New_State, States, Over
<1>6. /\ x \in Frame /\ x.act \in {"queue", "update"} /\ x.obj = f.obj /\ x.call = c
      /\ x.act = "update" => x.new = New_State(With_Abort[c], State[c])
  <2>1. CASE DoQueue(t)
    BY <1>2, <2>1 DEF Queue, Frame
  <2>2. CASE ~DoQueue(t)
    BY <1>2, <1>5, <2>2 DEF Update, Frame
  <2> QED BY <2>1, <2>2
<1> HIDE DEF x, s, f
<1>7. Fits(x, s)
  BY <1>2, <1>6 DEF Fits
<1> DEFINE r == <<x>> \o s
<1>8. r \in Seq(Frame) /\ Stack(r) /\ r # <<>> /\ r[1] = x
  BY <1>2, <1>6, <1>7, Pushed
<1>9. \A p : Unlocks(r, p) = Unlocks(s, p)
  BY <1>2, <1>6, UnlocksPush
<1>10. Agenda(t, r)
  BY <1>4, <1>8 DEF Agenda
<1> HIDE DEF r
<1> QED BY <1>1, <1>2, <1>3, <1>4, <1>6, <1>8, <1>9, <1>10 DEF f, s

LEMMA TriedPlaces ==
  ASSUME Places, NEW t \in Tasks, DoQueue(t) \/ ReadState(t)
  PROVE  Places'
<1> DEFINE c == First(t).call
<1>1. /\ c \in Callers /\ Serves(t, c) /\ Called_PO[c] = First(t).obj
      /\ UNCHANGED <<record, locks, objects, atcbs, pc, Test_PO, Timedout, deferred,
                     requeues, calls>>
      /\ \E r : /\ Agenda(t, r) /\ r # <<>> /\ r[1].act \in {"queue", "update"}
                /\ r[1].obj = First(t).obj /\ r[1].call = c
  BY TriedFrame
<1> HIDE DEF c
<1>2. PICK r : /\ Agenda(t, r) /\ r # <<>> /\ r[1].act \in {"queue", "update"}
               /\ r[1].obj = First(t).obj /\ r[1].call = c
  BY <1>1
<1>3. Typed'
  BY <1>1 DEF Places, Typed, RecordTyped, ObjectsTyped, CallersTyped, record, locks, objects, atcbs
<1>4. RecordOf(c) /\ State'[c] \notin Over /\ Called_PO'[c] = r[1].obj
  BY <1>1, <1>2, ServedNotOver DEF RecordOf, record
<1>5. UNCHANGED <<Entry_Queues, pc>>
  BY <1>1 DEF objects
<1> QED BY <1>1, <1>2, <1>3, <1>4, <1>5, KeepsCall DEF Acting, Trying

\* A call is queued on the entry that its record names.
LEMMA EnqueueFrame ==
  ASSUME Places, NEW t \in Tasks, Enqueue(t),
         NEW c, c = First(t).call
  PROVE  /\ agenda[t] # <<>> /\ First(t) = agenda[t][1] /\ First(t).act = "update"
         /\ First(t).obj \in Objects /\ c \in Callers
         /\ Serves(t, c) /\ Called_PO[c] = First(t).obj
         /\ First(t).new \in States \ Over
         /\ Entry_Queues' = [Entry_Queues EXCEPT ![Called_PO[c]][E[c]] = Append(@, c)]
         /\ Entry_Queues' \in [Objects -> [Entries -> Seq(Callers)]]
         /\ State' = [State EXCEPT ![c] = First(t).new]
         /\ Agenda(t, Rest(t)) /\ Rest(t) # <<>> /\ Rest(t)[1].act \notin Acting
         /\ UNCHANGED <<Mode, With_Abort, Cancellation_Attempted, Called_PO, E, locks,
                        Call_In_Progress, open, atcbs, pc, Test_PO, Timedout, deferred,
                        requeues, calls>>
<1> DEFINE f == First(t)
           s == Rest(t)
<1>1. agenda[t] # <<>> /\ f.act = "update"
  BY DEF Enqueue, At, First
<1>2. /\ f = agenda[t][1] /\ f.obj \in Objects /\ c \in Callers
      /\ f.new \in States \ Over
      /\ s \in Seq(Frame) /\ Stack(s) /\ s # <<>> /\ s[1].act \notin Acting
      /\ Serves(t, c)
  BY <1>1, FirstFrame DEF Places, Acting, First, Rest
<1>3. Called_PO[c] = f.obj
  BY <1>1, <1>2 DEF Places, TriedWhereCalled, Trying
<1>4. /\ agenda' = [agenda EXCEPT ![t] = <<>> \o s]
      /\ Entry_Queues' = [Entry_Queues EXCEPT ![f.obj][E[c]] = Append(@, c)]
      /\ State' = [State EXCEPT ![c] = f.new]
      /\ UNCHANGED <<Mode, With_Abort, Cancellation_Attempted, Called_PO, E, locks,
                     Call_In_Progress, open, atcbs, pc, Test_PO, Timedout, deferred,
                     requeues, calls>>
  BY DEF Enqueue, Continue, First, Rest
<1> HIDE DEF f, s
<1>5. Agenda(t, s)
  BY <1>2, <1>4, NothingPushed DEF Agenda
<1>6. /\ Called_PO[c] \in Objects /\ E[c] \in Entries
      /\ Append(Entry_Queues[Called_PO[c]][E[c]], c) \in Seq(Callers)
  BY <1>2, ServedNotOver, QueueTyped, AppendProperties DEF Places
<1>7. Entry_Queues' \in [Objects -> [Entries -> Seq(Callers)]]
  BY <1>3, <1>4, <1>6 DEF Places, Typed, ObjectsTyped
<1> QED BY <1>1, <1>2, <1>3, <1>4, <1>5, <1>7 DEF f, s

LEMMA EnqueuePlaces ==
  ASSUME Places, NEW t \in Tasks, Enqueue(t)
  PROVE  Places'
<1> DEFINE c == First(t).call
<1>1. /\ c \in Callers /\ Serves(t, c) /\ First(t).new \in States \ Over
      /\ Entry_Queues' = [Entry_Queues EXCEPT ![Called_PO[c]][E[c]] = Append(@, c)]
      /\ Entry_Queues' \in [Objects -> [Entries -> Seq(Callers)]]
      /\ State' = [State EXCEPT ![c] = First(t).new]
      /\ Agenda(t, Rest(t)) /\ Rest(t) # <<>> /\ Rest(t)[1].act \notin Acting
      /\ UNCHANGED <<Mode, With_Abort, Cancellation_Attempted, Called_PO, E, locks,
                     Call_In_Progress, open, atcbs, pc, Test_PO, Timedout, deferred,
                     requeues, calls>>
  BY EnqueueFrame
<1> HIDE DEF c
<1>2. RecordOf(c) /\ State'[c] \notin Over /\ State' \in [Callers -> States]
  BY <1>1 DEF RecordOf, Places, Typed, RecordTyped
<1>3. Typed'
  BY <1>1, <1>2 DEF Places, Typed, RecordTyped, ObjectsTyped, CallersTyped, locks, atcbs
<1> QED BY <1>1, <1>2, <1>3, QueuesCall

\* Several frames are pushed one by one.
LEMMA TwoPushed ==
  ASSUME NEW s \in Seq(Frame), NEW x \in Frame, NEW y \in Frame
  PROVE  <<x, y>> \o s = <<x>> \o (<<y>> \o s)
<1>1. <<x>> \in Seq(Frame) /\ <<y>> \in Seq(Frame)
  OBVIOUS
<1>2. <<x, y>> = <<x>> \o <<y>>
  <2>1. /\ <<x>> \o <<y>> \in Seq(Frame)
        /\ Len(<<x>> \o <<y>>) = 1 + 1
        /\ \A i \in 1 .. 1 + 1 : (<<x>> \o <<y>>)[i] = IF i <= 1 THEN <<x>>[i] ELSE <<y>>[i - 1]
    BY <1>1, ConcatProperties
  <2>2. /\ <<x, y>> \in Seq(Frame) /\ Len(<<x, y>>) = 2
        /\ <<x, y>>[1] = x /\ <<x, y>>[2] = y
    OBVIOUS
  <2>3. \A i \in 1..2 : i = 1 \/ i = 2
    OBVIOUS
  <2> DEFINE a == <<x, y>>
             b == <<x>> \o <<y>>
  <2>4. b \in Seq(Frame) /\ Len(b) = 2 /\ b[1] = x /\ b[2] = y
    BY <2>1
  <2> HIDE DEF b
  <2>5. \A i \in 1..Len(a) : a[i] = b[i]
    BY <2>2, <2>3, <2>4
  <2> QED BY <2>2, <2>4, <2>5, SeqEqual DEF b
<1> QED BY <1>1, <1>2, ConcatAssociative

LEMMA Associates ==
  ASSUME NEW a \in Seq(Frame), NEW b \in Seq(Frame), NEW s \in Seq(Frame)
  PROVE  (a \o b) \o s = a \o (b \o s)
  BY ConcatAssociative

\* The frames of a requeue to another object.
Retry(o, c) == <<Do(o, c), Service(o)>>

LEMMA RequeuedFrames ==
  ASSUME NEW a \in Seq(Frame), Stack(a), a # <<>> => a[1].act \notin Acting,
         NEW o \in Objects, NEW c \in Callers
  PROVE  /\ Retry(o, c) \o a \in Seq(Frame) /\ Stack(Retry(o, c) \o a) /\ Retry(o, c) \o a # <<>>
         /\ (Retry(o, c) \o a)[1] \in Frame /\ (Retry(o, c) \o a)[1].act = "do"
         /\ (Retry(o, c) \o a)[1].obj = o /\ (Retry(o, c) \o a)[1].call = c
         /\ \A p : Unlocks(Retry(o, c) \o a, p) = IF p = o THEN Unlocks(a, p) + 1 ELSE Unlocks(a, p)
<1> DEFINE x == Do(o, c)
           y == Service(o)
           b == <<y>> \o a
           r == Retry(o, c) \o a
<1>1. /\ x \in Frame /\ x.act = "do" /\ x.obj = o /\ x.call = c
      /\ y \in Frame /\ y.act = "service" /\ y.obj = o
  BY DEF Do, Service, Frame
<1>2. r = <<x, y>> \o a
  BY DEF Retry
<1> HIDE DEF x, y, r
<1>3. Fits(y, a)
  BY <1>1 DEF Fits
<1>4. b \in Seq(Frame) /\ Stack(b) /\ b # <<>> /\ b[1] = y
  BY <1>1, <1>3, Pushed
<1>5. \A p : Unlocks(b, p) = IF p = o THEN Unlocks(a, p) + 1 ELSE Unlocks(a, p)
  BY <1>1, UnlocksPush
<1>6. r = <<x>> \o b
  BY <1>1, <1>2, TwoPushed
<1> HIDE DEF b
<1>7. Fits(x, b)
  BY <1>1, <1>4 DEF Fits, Acting
<1>8. r \in Seq(Frame) /\ Stack(r) /\ r # <<>> /\ r[1] = x
  BY <1>1, <1>4, <1>6, <1>7, Pushed
<1>9. \A p : Unlocks(r, p) = Unlocks(b, p)
  <2>1. \A p : Unlocks(<<x>> \o b, p) = Unlocks(b, p)
    BY <1>1, <1>4, UnlocksPush
  <2> QED BY <1>6, <2>1
<1> QED BY <1>1, <1>5, <1>8, <1>9 DEF r

\* The object that a call requeued by t goes to.
Target(t) == Called_PO[First(t).call]

LEMMA RequeueOtherFrames ==
  ASSUME Places, NEW t \in Tasks, RequeueOther(t)
  PROVE  /\ Target(t) \in Objects
         /\ \E r : /\ Agenda(t, r) /\ r # <<>>
                   /\ r[1].act = "do" /\ r[1].obj = Target(t) /\ r[1].call = First(t).call
                   /\ \A p : Unlocks(r, p) = IF p = Target(t) THEN Unlocks(Rest(t), p) + 1
                                             ELSE Unlocks(Rest(t), p)
<1> DEFINE f == First(t)
           s == Rest(t)
           a == Requeued(t)
           new == Target(t)
           g == Retry(new, f.call)
           r == g \o a
<1>1. /\ f.obj \in Objects /\ f.call \in Callers /\ f.serving \in BOOLEAN
      /\ a \in Seq(Frame) /\ Stack(a) /\ a # <<>> /\ a[1].act \notin Acting
      /\ s \in Seq(Frame)
      /\ \A p : Unlocks(a, p) = Unlocks(s, p)
  BY AfterFrame DEF RequeueOther
<1>2. new \in Objects
  BY <1>1 DEF Places, Typed, RecordTyped, Target
<1>3. agenda' = [agenda EXCEPT ![t] = (g \o Afterwards(f)) \o s]
  BY DEF RequeueOther, Continue, First, Rest, Target, Retry
<1>4. g \in Seq(Frame) /\ Afterwards(f) \in Seq(Frame)
  <2>1. Do(new, f.call) \in Frame /\ Service(new) \in Frame /\ Check(f.obj, f.call) \in Frame
    BY <1>1, <1>2 DEF Do, Service, Check, Frame
  <2> QED BY <2>1 DEF Afterwards, Retry
<1>5. (g \o Afterwards(f)) \o s = r
  <2> HIDE DEF g
  <2>1. (g \o Afterwards(f)) \o s = g \o (Afterwards(f) \o s)
    BY <1>1, <1>4, Associates
  <2> QED BY <2>1 DEF Requeued
<1>6. agenda' = [agenda EXCEPT ![t] = r]
  BY <1>3, <1>5
<1> HIDE DEF a, f, s, new
<1>7. /\ r \in Seq(Frame) /\ Stack(r) /\ r # <<>>
      /\ r[1].act = "do" /\ r[1].obj = new /\ r[1].call = f.call
      /\ \A p : Unlocks(r, p) = IF p = new THEN Unlocks(a, p) + 1 ELSE Unlocks(a, p)
  BY <1>1, <1>2, RequeuedFrames
<1> HIDE DEF r
<1>8. Agenda(t, r)
  BY <1>6, <1>7 DEF Agenda
<1>9. \A p : Unlocks(r, p) = IF p = new THEN Unlocks(s, p) + 1 ELSE Unlocks(s, p)
  BY <1>1, <1>7
<1> QED BY <1>2, <1>7, <1>8, <1>9 DEF f, s, new

LEMMA LockTyped ==
  ASSUME ObjectsTyped, NEW t \in Tasks, NEW o \in Objects, Lock(t, o)
  PROVE  owner' \in [Objects -> Tasks \cup {NoTask}] /\ depth' \in [Objects -> Int]
  BY DEF ObjectsTyped, Lock

LEMMA RequeueOtherPlaces ==
  ASSUME Places, NEW t \in Tasks, RequeueOther(t)
  PROVE  Places'
<1> DEFINE c == First(t).call
           new == Target(t)
<1>1. c \in Callers /\ Serves(t, c)
  BY AfterFrame DEF RequeueOther
<1>2. /\ new \in Objects
      /\ \E r : /\ Agenda(t, r) /\ r # <<>>
                /\ r[1].act = "do" /\ r[1].obj = new /\ r[1].call = c
  BY RequeueOtherFrames
<1>3. /\ Lock(t, new)
      /\ UNCHANGED <<record, objects, atcbs, pc, Test_PO, Timedout, deferred, requeues, calls>>
  BY DEF RequeueOther, First, Target
<1>8. new = Called_PO[c]
  BY DEF Target
<1> HIDE DEF c, new
<1>4. PICK r : /\ Agenda(t, r) /\ r # <<>>
               /\ r[1].act = "do" /\ r[1].obj = new /\ r[1].call = c
  BY <1>2
<1>5. State'[c] \notin Over /\ RecordOf(c) /\ Called_PO'[c] = new
  BY <1>1, <1>3, <1>8, ServedNotOver DEF RecordOf, record
<1>6. Typed'
  BY <1>2, <1>3, LockTyped
     DEF Places, Typed, RecordTyped, ObjectsTyped, CallersTyped, objects, record, atcbs
<1>7. UNCHANGED <<Entry_Queues, pc>>
  BY <1>3 DEF objects
<1> QED BY <1>1, <1>4, <1>5, <1>6, <1>7, KeepsCall DEF Acting, Trying

LEMMA UnlockTyped ==
  ASSUME ObjectsTyped, NEW o \in Objects, Unlock(o)
  PROVE  owner' \in [Objects -> Tasks \cup {NoTask}] /\ depth' \in [Objects -> Int]
  BY DEF ObjectsTyped, Unlock

\* What RequeueSame does with the call.
LEMMA RequeueSameCases ==
  ASSUME Places, NEW t \in Tasks, RequeueSame(t),
         NEW c \in Callers, c = First(t).call
  PROVE  /\ Called_PO[c] = First(t).obj
         /\ UNCHANGED <<Mode, With_Abort, Cancellation_Attempted, Called_PO, E, locks,
                        objects, atcbs, pc, Test_PO, Timedout, deferred, requeues, calls>>
         /\ \/ /\ With_Abort[c] /\ Cancellation_Attempted[c]
               /\ State' = [State EXCEPT ![c] = "Cancelled"]
               /\ Agenda(t, Requeued(t))
            \/ /\ UNCHANGED State
               /\ \E r : /\ Agenda(t, r) /\ r # <<>> /\ r[1].act \in {"do", "queue"}
                         /\ r[1].obj = First(t).obj /\ r[1].call = c
                         /\ \A p : Unlocks(r, p) = Unlocks(Requeued(t), p)
<1> DEFINE f == First(t)
           a == Requeued(t)
           x == IF ~With_Abort[c] \/ Mode[c] # "Conditional_Call" THEN Queue(f.obj, c)
                ELSE Do(f.obj, c)
<1>1. /\ f.obj \in Objects /\ f.call \in Callers /\ f.serving \in BOOLEAN
      /\ a \in Seq(Frame) /\ Stack(a) /\ a # <<>>
      /\ a[1].act \in {"service", "check"} /\ a[1].act \notin Acting /\ a[1].obj = f.obj
      /\ Rest(t) \in Seq(Frame)
  BY AfterFrame DEF RequeueSame
<1>2. agenda' = [agenda EXCEPT ![t] = a] => Agenda(t, a)
  BY <1>1 DEF Agenda
<1>3. x \in Frame /\ x.act \in {"do", "queue"} /\ x.obj = f.obj /\ x.call = c
  BY <1>1 DEF Do, Queue, Frame
<1>4. ASSUME agenda' = [agenda EXCEPT ![t] = (<<x>> \o Afterwards(f)) \o Rest(t)]
      PROVE  \E r : /\ Agenda(t, r) /\ r # <<>> /\ r[1].act \in {"do", "queue"}
                    /\ r[1].obj = f.obj /\ r[1].call = c
                    /\ \A p : Unlocks(r, p) = Unlocks(a, p)
  <2>1. Afterwards(f) \in Seq(Frame)
    <3>1. Check(f.obj, f.call) \in Frame
      BY <1>1 DEF Check, Frame
    <3> QED BY <3>1 DEF Afterwards
  <2>2. <<x>> \in Seq(Frame)
    BY <1>3
  <2> HIDE DEF x
  <2>3. (<<x>> \o Afterwards(f)) \o Rest(t) = <<x>> \o (Afterwards(f) \o Rest(t))
    BY <1>1, <2>1, <2>2, Associates
  <2>4. agenda' = [agenda EXCEPT ![t] = <<x>> \o a]
    BY <1>4, <2>3 DEF Requeued
  <2> HIDE DEF a, f
  <2>5. Fits(x, a)
    BY <1>1, <1>3 DEF Fits, Acting
  <2>6. <<x>> \o a \in Seq(Frame) /\ Stack(<<x>> \o a) /\ <<x>> \o a # <<>> /\ (<<x>> \o a)[1] = x
    BY <1>1, <1>3, <2>5, Pushed
  <2>7. \A p : Unlocks(<<x>> \o a, p) = Unlocks(a, p)
    BY <1>1, <1>3, UnlocksPush
  <2>8. Agenda(t, <<x>> \o a)
    BY <2>4, <2>6 DEF Agenda
  <2> QED BY <1>3, <2>6, <2>7, <2>8
<1>5. /\ Called_PO[c] = First(t).obj
      /\ UNCHANGED <<Mode, With_Abort, Cancellation_Attempted, Called_PO, E, locks,
                     objects, atcbs, pc, Test_PO, Timedout, deferred, requeues, calls>>
      /\ \/ /\ With_Abort[c] /\ Cancellation_Attempted[c]
            /\ State' = [State EXCEPT ![c] = "Cancelled"]
            /\ agenda' = [agenda EXCEPT ![t] = a]
         \/ /\ UNCHANGED State
            /\ agenda' = [agenda EXCEPT ![t] = (<<x>> \o Afterwards(f)) \o Rest(t)]
  <2> HIDE DEF x
  <2> QED BY <1>1 DEF RequeueSame, First, Rest, Requeued, Continue, x
<1> HIDE DEF f, a, x
<1> QED BY <1>2, <1>4, <1>5 DEF f, a

LEMMA RequeueSamePlaces ==
  ASSUME Places, NEW t \in Tasks, RequeueSame(t)
  PROVE  Places'
<1> DEFINE c == First(t).call
<1>1. /\ c \in Callers /\ Serves(t, c)
      /\ Requeued(t) # <<>> /\ Requeued(t)[1].act \notin Acting
  BY AfterFrame DEF RequeueSame
<1> HIDE DEF c
<1>2. /\ Called_PO[c] = First(t).obj
      /\ UNCHANGED <<Mode, With_Abort, Cancellation_Attempted, Called_PO, E, locks,
                     objects, atcbs, pc, Test_PO, Timedout, deferred, requeues, calls>>
      /\ \/ /\ State' = [State EXCEPT ![c] = "Cancelled"]
            /\ Agenda(t, Requeued(t))
         \/ /\ UNCHANGED State
            /\ \E r : /\ Agenda(t, r) /\ r # <<>> /\ r[1].act \in {"do", "queue"}
                      /\ r[1].obj = First(t).obj /\ r[1].call = c
  BY <1>1, RequeueSameCases DEF c
<1>3. ASSUME State' \in [Callers -> States]  PROVE Typed'
  BY <1>2, <1>3 DEF Places, Typed, RecordTyped, ObjectsTyped, CallersTyped, locks, objects, atcbs
<1>4. UNCHANGED <<Entry_Queues, pc, Called_PO, E>>
  BY <1>2 DEF objects
<1>5. CASE /\ State' = [State EXCEPT ![c] = "Cancelled"]
           /\ Agenda(t, Requeued(t))
  <2>1. RecordOf(c) /\ State' \in [Callers -> States]
    BY <1>1, <1>2, <1>5 DEF RecordOf, Places, Typed, RecordTyped, States, Over
  <2>2. Typed'
    BY <1>3, <2>1
  <2> QED BY <1>1, <1>4, <1>5, <2>1, <2>2, DropsCall
<1>6. CASE /\ UNCHANGED State
           /\ \E r : /\ Agenda(t, r) /\ r # <<>> /\ r[1].act \in {"do", "queue"}
                     /\ r[1].obj = First(t).obj /\ r[1].call = c
  <2>1. PICK r : /\ Agenda(t, r) /\ r # <<>> /\ r[1].act \in {"do", "queue"}
                 /\ r[1].obj = First(t).obj /\ r[1].call = c
    BY <1>6
  <2>2. Typed'
    BY <1>3, <1>6 DEF Places, Typed, RecordTyped
  <2>3. RecordOf(c) /\ State'[c] \notin Over /\ Called_PO'[c] = r[1].obj
    BY <1>1, <1>2, <1>6, <2>1, ServedNotOver DEF RecordOf
  <2> QED BY <1>1, <1>4, <2>1, <2>2, <2>3, KeepsCall DEF Acting, Trying
<1> QED BY <1>2, <1>5, <1>6

\* A frame that serves, or looks at a requeued call, has no call to place.
LEMMA OtherFrame ==
  ASSUME Places, NEW t \in Tasks, At(t, "service") \/ At(t, "check")
  PROVE  /\ agenda[t] # <<>> /\ First(t) = agenda[t][1]
         /\ First(t).obj \in Objects /\ First(t).act \notin Acting
         /\ First(t).act = "check" => First(t).call \in Callers
         /\ \A c \in Callers : ~Serves(t, c)
         /\ pc[t] \in {"calling", "cancelling"}
         /\ agenda[t] \in Seq(Frame) /\ Stack(agenda[t])
         /\ Rest(t) \in Seq(Frame) /\ Stack(Rest(t))
         /\ Rest(t) # <<>> => Rest(t)[1].act \notin Acting
         /\ First(t).act = "check" =>
              /\ Rest(t) # <<>> /\ Rest(t)[1].act = "service" /\ Rest(t)[1].obj = First(t).obj
              /\ Tail(Rest(t)) \in Seq(Frame) /\ Stack(Tail(Rest(t)))
              /\ Tail(Rest(t)) # <<>> => Tail(Rest(t))[1].act \notin Acting
<1> DEFINE f == First(t)
           s == Rest(t)
<1>1. agenda[t] # <<>> /\ f.act \in {"service", "check"}
  BY DEF At, First
<1>2. /\ f = agenda[t][1] /\ f.obj \in Objects
      /\ f.act = "check" => f.call \in Callers
      /\ f.act \notin Acting
      /\ s \in Seq(Frame) /\ Stack(s)
      /\ s # <<>> => s[1].act \notin Acting
      /\ f.act = "check" => s # <<>> /\ s[1].act = "service" /\ s[1].obj = f.obj
      /\ \A c \in Callers : ~Serves(t, c)
  BY <1>1, FirstFrame DEF Places, Acting, First, Rest
<1> HIDE DEF f, s
<1>3. f.act = "check" => /\ Tail(s) \in Seq(Frame) /\ Stack(Tail(s))
                         /\ Tail(s) # <<>> => Tail(s)[1].act \notin Acting
  BY <1>2, PopStack, PopProperties
<1>4. pc[t] \in {"calling", "cancelling"} /\ agenda[t] \in Seq(Frame) /\ Stack(agenda[t])
  BY <1>1 DEF Places, OwnAgenda, ControlTyped
<1> QED BY <1>1, <1>2, <1>3, <1>4 DEF f, s

LEMMA AfterRequeuePlaces ==
  ASSUME Places, NEW t \in Tasks, AfterRequeue(t)
  PROVE  Places'
<1>1. /\ At(t, "check") /\ First(t).act = "check"
      /\ UNCHANGED <<record, objects, atcbs, pc, Test_PO, Timedout, deferred, requeues, calls>>
      /\ \/ /\ agenda' = [agenda EXCEPT ![t] = Tail(Rest(t))]
            /\ Unlock(First(t).obj)
         \/ /\ agenda' = [agenda EXCEPT ![t] = <<>> \o Rest(t)]
            /\ UNCHANGED locks
  BY DEF AfterRequeue, At, First, Rest, Continue, Places, ControlTyped
<1>2. /\ First(t).obj \in Objects /\ \A c \in Callers : ~Serves(t, c)
      /\ pc[t] \in {"calling", "cancelling"}
      /\ Rest(t) \in Seq(Frame) /\ Stack(Rest(t))
      /\ Rest(t) # <<>> => Rest(t)[1].act \notin Acting
      /\ Tail(Rest(t)) \in Seq(Frame) /\ Stack(Tail(Rest(t)))
      /\ Tail(Rest(t)) # <<>> => Tail(Rest(t))[1].act \notin Acting
  BY <1>1, OtherFrame
<1>3. \E s : Agenda(t, s) /\ (s # <<>> => s[1].act \notin Acting)
  BY <1>1, <1>2, NothingPushed DEF Agenda
<1>4. PICK s : Agenda(t, s) /\ (s # <<>> => s[1].act \notin Acting)
  BY <1>3
<1>5. owner' \in [Objects -> Tasks \cup {NoTask}] /\ depth' \in [Objects -> Int]
  BY <1>1, <1>2, UnlockTyped DEF Places, Typed, ObjectsTyped, locks
<1>6. Typed'
  BY <1>1, <1>5 DEF Places, Typed, RecordTyped, ObjectsTyped, CallersTyped, record, objects, atcbs
<1>7. UNCHANGED <<Entry_Queues, State, Called_PO, E, pc>> /\ pc' \in [Tasks -> Labels]
  BY <1>1 DEF record, objects, Places, ControlTyped
<1> QED BY <1>2, <1>4, <1>6, <1>7, MovesNoCall

LEMMA ServiceEndPlaces ==
  ASSUME Places, NEW t \in Tasks, ServiceEnd(t)
  PROVE  Places'
<1>1. /\ At(t, "service")
      /\ UNCHANGED <<record, objects, atcbs, pc, Test_PO, Timedout, deferred, requeues, calls>>
      /\ agenda' = [agenda EXCEPT ![t] = <<>> \o Rest(t)]
      /\ Unlock(First(t).obj)
  BY DEF ServiceEnd, First, Rest, Continue, Places, ControlTyped
<1>2. /\ First(t).obj \in Objects /\ \A c \in Callers : ~Serves(t, c)
      /\ pc[t] \in {"calling", "cancelling"}
      /\ Rest(t) \in Seq(Frame) /\ Stack(Rest(t))
      /\ Rest(t) # <<>> => Rest(t)[1].act \notin Acting
  BY <1>1, OtherFrame
<1>3. Agenda(t, Rest(t))
  BY <1>1, <1>2, NothingPushed DEF Agenda
<1>4. owner' \in [Objects -> Tasks \cup {NoTask}] /\ depth' \in [Objects -> Int]
  BY <1>1, <1>2, UnlockTyped DEF Places, Typed, ObjectsTyped
<1>5. Typed'
  BY <1>1, <1>4 DEF Places, Typed, RecordTyped, ObjectsTyped, CallersTyped, record, objects, atcbs
<1>6. UNCHANGED <<Entry_Queues, State, Called_PO, E, pc>> /\ pc' \in [Tasks -> Labels]
  BY <1>1 DEF record, objects, Places, ControlTyped
<1> QED BY <1>2, <1>3, <1>5, <1>6, MovesNoCall

\* The queue that t serves.
Served(t, e) == Entry_Queues[First(t).obj][e]

LEMMA SelectedCall ==
  ASSUME Places, NEW t \in Tasks, NEW e \in Entries, ServiceSelect(t, e)
  PROVE  /\ Head(Served(t, e)) \in Callers /\ Onqueue(Head(Served(t, e)))
         /\ Called_PO[Head(Served(t, e))] = First(t).obj /\ E[Head(Served(t, e))] = e
         /\ Tail(Served(t, e)) \in Seq(Callers) /\ Distinct(Tail(Served(t, e)))
         /\ \A d \in Callers : Contains(Tail(Served(t, e)), d)
              <=> Contains(Served(t, e), d) /\ d # Head(Served(t, e))
<1> DEFINE o == First(t).obj
           q == Served(t, e)
<1>1. o \in Objects
  BY OtherFrame DEF ServiceSelect
<1>2. q # <<>>
  BY DEF ServiceSelect, Selectable, First, Served
<1>3. q \in Seq(Callers) /\ Distinct(q)
  BY <1>1, QueueTyped DEF Places, QueuedDistinct, Served
<1> HIDE DEF q
<1>4. /\ Tail(q) \in Seq(Callers) /\ Distinct(Tail(q))
      /\ Head(q) \in Callers /\ Contains(q, Head(q))
      /\ \A d : Contains(Tail(q), d) <=> Contains(q, d) /\ d # Head(q)
  BY <1>2, <1>3, TailOfQueue
<1>5. Onqueue(Head(q))
  BY <1>1, <1>4 DEF Onqueue, q, Served
<1>6. Called_PO[Head(q)] = o /\ E[Head(q)] = e
  BY <1>1, <1>4 DEF Places, QueuedAsRecorded, q, Served
<1> QED BY <1>4, <1>5, <1>6 DEF q

LEMMA ServiceSelectPlaces ==
  ASSUME Places, NEW t \in Tasks, NEW e \in Entries, ServiceSelect(t, e)
  PROVE  Places'
<1> DEFINE o == First(t).obj
           c == Head(Served(t, e))
           q == Tail(Served(t, e))
           x == Body(o, c, TRUE)
           s == <<x>> \o agenda[t]
<1>1. /\ At(t, "service") /\ First(t).act = "service"
      /\ Entry_Queues' = [Entry_Queues EXCEPT ![o][e] = q]
      /\ NotAbortable(c)
      /\ Call_In_Progress' = [Call_In_Progress EXCEPT ![o] = c]
      /\ agenda' = [agenda EXCEPT ![t] = s]
      /\ UNCHANGED <<Mode, With_Abort, Cancellation_Attempted, Called_PO, E, locks, open, atcbs,
                     pc, Test_PO, Timedout, deferred, requeues, calls>>
  BY DEF ServiceSelect, At, First, Served, Places, Typed, ObjectsTyped, ControlTyped
<1>2. /\ agenda[t] # <<>> /\ First(t) = agenda[t][1]
      /\ o \in Objects /\ agenda[t][1].act \notin Acting
      /\ agenda[t] \in Seq(Frame) /\ Stack(agenda[t])
  BY <1>1, OtherFrame
<1>3. /\ c \in Callers /\ Onqueue(c) /\ Called_PO[c] = o /\ E[c] = e
      /\ q \in Seq(Callers) /\ Distinct(q)
      /\ \A d \in Callers :
           Contains(q, d) <=> Contains(Entry_Queues[Called_PO[c]][E[c]], d) /\ d # c
  <2>1. /\ c \in Callers /\ Onqueue(c) /\ Called_PO[c] = o /\ E[c] = e
        /\ q \in Seq(Callers) /\ Distinct(q)
        /\ \A d \in Callers : Contains(q, d) <=> Contains(Served(t, e), d) /\ d # c
    BY SelectedCall
  <2> HIDE DEF c, q
  <2> QED BY <2>1 DEF Served
<1>4. x \in Frame /\ x.act = "body" /\ x.obj = o /\ x.call = c /\ x.serving = TRUE
  BY <1>2, <1>3 DEF Body, Frame
<1> HIDE DEF c, q, x
<1>5. Fits(x, agenda[t])
  BY <1>1, <1>2, <1>4 DEF Fits
<1> HIDE DEF o
<1>6. s \in Seq(Frame) /\ Stack(s) /\ s # <<>> /\ s[1] = x
  BY <1>2, <1>4, <1>5, Pushed
<1>7. Agenda(t, s)
  BY <1>1, <1>6 DEF Agenda
<1>8. State[c] \in States \ Over
  BY <1>3 DEF Places, NotOver, Placed, Typed, RecordTyped
<1>9. State' = [State EXCEPT ![c] = IF @ = "Now_Abortable" THEN "Was_Abortable" ELSE @]
  BY <1>1 DEF NotAbortable
<1>10. State'[c] \notin Over /\ RecordOf(c) /\ State' \in [Callers -> States]
  BY <1>1, <1>3, <1>8, <1>9 DEF RecordOf, Places, Typed, RecordTyped, States, Over
<1>11. /\ Entry_Queues' \in [Objects -> [Entries -> Seq(Callers)]]
       /\ Call_In_Progress' \in [Objects -> Callers \cup {NoTask}]
  BY <1>1, <1>2, <1>3 DEF Places, Typed, ObjectsTyped
<1>12. Typed'
  BY <1>1, <1>10, <1>11 DEF Places, Typed, RecordTyped, ObjectsTyped, CallersTyped, locks, atcbs
<1>13. Entry_Queues' = [Entry_Queues EXCEPT ![Called_PO[c]][E[c]] = q]
  BY <1>1, <1>3
<1> HIDE DEF s
<1>14. s[1].act \in {"body", "after"} /\ s[1].call = c
  BY <1>4, <1>6
<1>15. UNCHANGED <<pc, Called_PO, E>>
  BY <1>1
<1> QED BY <1>2, <1>3, <1>6, <1>7, <1>10, <1>12, <1>13, <1>14, <1>15, SelectsCall

\* Who is not in a call executes nothing, and its record is nowhere.
LEMMA NotCalling ==
  ASSUME Places, NEW t \in Tasks, pc[t] \notin {"calling", "cancelling"}
  PROVE  /\ agenda[t] = <<>> /\ \A c \in Callers : ~Serves(t, c)
         /\ t \in Callers /\ pc[t] \notin Waiting => ~Placed(t)
  BY DEF Places, OwnAgenda, Serves, NotOver

\* The agenda of a task that locked an object to serve it.
LEMMA ServiceFrame ==
  ASSUME NEW o \in Objects
  PROVE  /\ <<Service(o)>> \in Seq(Frame) /\ Stack(<<Service(o)>>) /\ <<Service(o)>> # <<>>
         /\ <<Service(o)>>[1].act = "service" /\ <<Service(o)>>[1].act \notin Acting
         /\ \A p : Unlocks(<<Service(o)>>, p) = IF p = o THEN 1 ELSE 0
<1> DEFINE x == Service(o)
<1>1. x \in Frame /\ x.act = "service" /\ x.obj = o
  BY DEF Service, Frame
<1> HIDE DEF x
<1>2. <<>> \in Seq(Frame)
  OBVIOUS
<1>3. <<x>> \o <<>> = <<x>>
  <2>1. <<x>> \in Seq(Frame)
    BY <1>1
  <2> QED BY <2>1, ConcatEmptySeq
<1>4. Stack(<<>>) /\ \A p : Unlocks(<<>>, p) = 0
  <2>1. Stack(<<>>)
    BY DEF Stack
  <2> QED BY <1>2, <2>1, UnlocksNat
<1>5. Fits(x, <<>>)
  BY <1>1 DEF Fits
<1>6. <<x>> \in Seq(Frame) /\ Stack(<<x>>) /\ <<x>> # <<>> /\ <<x>>[1] = x
  <2>1. <<x>> \o <<>> \in Seq(Frame) /\ Stack(<<x>> \o <<>>) /\ <<x>> \o <<>> # <<>>
    BY <1>1, <1>2, <1>4, <1>5, Pushed
  <2> QED BY <1>3, <2>1
<1>7. \A p : Unlocks(<<x>>, p) = IF p = o THEN 1 ELSE 0
  <2>1. \A p : Unlocks(<<x>> \o <<>>, p) = IF x.act = "service" /\ x.obj = p
                                           THEN Unlocks(<<>>, p) + 1 ELSE Unlocks(<<>>, p)
    BY <1>1, <1>2, UnlocksPush
  <2> QED BY <1>1, <1>3, <1>4, <2>1
<1> QED BY <1>1, <1>6, <1>7 DEF x, Acting

\* The agenda of an entry call.
LEMMA CallFrames ==
  ASSUME NEW o \in Objects, NEW c \in Callers
  PROVE  /\ Retry(o, c) \in Seq(Frame) /\ Stack(Retry(o, c)) /\ Retry(o, c) # <<>>
         /\ Retry(o, c)[1].act = "do" /\ Retry(o, c)[1].obj = o /\ Retry(o, c)[1].call = c
         /\ \A p : Unlocks(Retry(o, c), p) = IF p = o THEN 1 ELSE 0
<1>1. <<>> \in Seq(Frame) /\ Stack(<<>>)
  BY DEF Stack
<1>2. \A p : Unlocks(<<>>, p) = 0
  BY <1>1, UnlocksNat
<1>3. Retry(o, c) \o <<>> = Retry(o, c)
  <2>1. Do(o, c) \in Frame /\ Service(o) \in Frame
    BY DEF Do, Service, Frame
  <2>2. Retry(o, c) \in Seq(Frame)
    BY <2>1 DEF Retry
  <2> QED BY <2>2, ConcatEmptySeq
<1> DEFINE r == Retry(o, c) \o <<>>
           a == <<>>
<1>4. /\ r \in Seq(Frame) /\ Stack(r) /\ r # <<>>
      /\ r[1].act = "do" /\ r[1].obj = o /\ r[1].call = c
      /\ \A p : Unlocks(r, p) = IF p = o THEN Unlocks(<<>>, p) + 1 ELSE Unlocks(<<>>, p)
  <2>1. a \in Seq(Frame) /\ Stack(a) /\ (a # <<>> => a[1].act \notin Acting)
    BY <1>1
  <2> HIDE DEF a
  <2>2. LET q == Retry(o, c) \o a
        IN  /\ q \in Seq(Frame) /\ Stack(q) /\ q # <<>>
            /\ q[1].act = "do" /\ q[1].obj = o /\ q[1].call = c
            /\ \A p : Unlocks(q, p) = IF p = o THEN Unlocks(a, p) + 1 ELSE Unlocks(a, p)
    BY <2>1, RequeuedFrames
  <2> QED BY <2>2 DEF a
<1> QED BY <1>2, <1>3, <1>4

LEMMA CallProcedurePlaces ==
  ASSUME Places, NEW s \in Setters, NEW o \in Objects, NEW b \in SUBSET Entries,
         CallProcedure(s, o, b)
  PROVE  Places'
<1>1. s \in Tasks /\ s \notin Callers
  BY EntriesAssumption DEF Tasks
<1>2. /\ pc[s] = "idle" /\ pc' = [pc EXCEPT ![s] = "calling"]
      /\ Lock(s, o)
      /\ open' = [open EXCEPT ![o] = b]
      /\ agenda' = [agenda EXCEPT ![s] = <<Service(o)>>]
      /\ calls' = [calls EXCEPT ![s] = @ + 1]
      /\ UNCHANGED <<record, Entry_Queues, Call_In_Progress, atcbs, Test_PO, Timedout,
                     deferred, requeues>>
  BY DEF CallProcedure, Go
<1>3. \A c \in Callers : ~Serves(s, c)
  BY <1>1, <1>2, NotCalling
<1>4. Agenda(s, <<Service(o)>>) /\ <<Service(o)>>[1].act \notin Acting
  BY <1>2, ServiceFrame DEF Agenda
<1>5. /\ pc' \in [Tasks -> Labels] /\ pc'[s] = "calling"
      /\ \A u \in Tasks : u # s => pc'[u] = pc[u]
  BY <1>1, <1>2 DEF Places, ControlTyped, Labels
<1>6. owner' \in [Objects -> Tasks \cup {NoTask}] /\ depth' \in [Objects -> Int]
  BY <1>1, <1>2, LockTyped DEF Places, Typed
<1>7. Typed'
  <2>1. RecordTyped'
    BY <1>2 DEF Places, Typed, RecordTyped, record
  <2>2. ObjectsTyped'
    BY <1>2, <1>6 DEF Places, Typed, ObjectsTyped
  <2>3. CallersTyped'
    BY <1>1, <1>2 DEF Places, Typed, CallersTyped, atcbs
  <2> QED BY <2>1, <2>2, <2>3 DEF Typed
<1>8. UNCHANGED <<Entry_Queues, State, Called_PO, E>>
  BY <1>2 DEF record
<1> QED BY <1>1, <1>3, <1>4, <1>5, <1>7, <1>8, MovesNoCall

LEMMA CallEntryPlaces ==
  ASSUME Places, NEW c \in Callers, NEW m \in Modes, NEW o \in Objects, NEW e \in Entries,
         NEW d \in Deferred, CallEntry(c, m, o, e, d)
  PROVE  Places'
<1>1. c \in Tasks
  BY DEF Tasks
<1>2. /\ pc[c] = "idle" /\ pc' = [pc EXCEPT ![c] = "calling"]
      /\ Lock(c, o)
      /\ Mode' = [Mode EXCEPT ![c] = m]
      /\ Cancellation_Attempted' = [Cancellation_Attempted EXCEPT ![c] = FALSE]
      /\ State' = [State EXCEPT ![c] = IF d THEN "Never_Abortable" ELSE "Now_Abortable"]
      /\ E' = [E EXCEPT ![c] = e]
      /\ Called_PO' = [Called_PO EXCEPT ![c] = o]
      /\ With_Abort' = [With_Abort EXCEPT ![c] = TRUE]
      /\ deferred' = [deferred EXCEPT ![c] = d]
      /\ agenda' = [agenda EXCEPT ![c] = Retry(o, c)]
      /\ calls' = [calls EXCEPT ![c] = @ + 1]
      /\ UNCHANGED <<objects, atcbs, Test_PO, Timedout, requeues>>
  BY DEF CallEntry, Go, Retry
<1>3. /\ \A u \in Tasks : ~Serves(u, c)
      /\ ~Onqueue(c) /\ agenda[c] = <<>> /\ \A x \in Callers : ~Serves(c, x)
  BY <1>1, <1>2, NotCalling DEF Placed, Waiting
<1>4. /\ Agenda(c, Retry(o, c)) /\ Retry(o, c) # <<>>
      /\ Retry(o, c)[1].act = "do" /\ Retry(o, c)[1].obj = o /\ Retry(o, c)[1].call = c
  BY <1>2, CallFrames DEF Agenda
<1>5. /\ pc' \in [Tasks -> Labels] /\ pc'[c] = "calling"
      /\ \A u \in Tasks : u # c => pc'[u] = pc[u]
  BY <1>1, <1>2 DEF Places, ControlTyped, Labels
<1>6. /\ ControlTyped'
      /\ \A u \in Tasks : agenda'[u] = IF u = c THEN Retry(o, c) ELSE agenda[u]
  BY <1>1, <1>4, <1>5, AgendaChange DEF Places
<1>7. \A u \in Tasks : \A x \in Callers : Serves(u, x)' <=> IF u = c THEN x = c ELSE Serves(u, x)
  <2> SUFFICES ASSUME NEW u \in Tasks, NEW x \in Callers
               PROVE  Serves(u, x)' <=> IF u = c THEN x = c ELSE Serves(u, x)
    OBVIOUS
  <2>1. CASE u = c
    BY <1>4, <1>6, <2>1 DEF Serves, Acting
  <2>2. CASE u # c
    BY <1>6, <2>2 DEF Serves
  <2> QED BY <2>1, <2>2
<1>8. /\ \A x \in Callers : x # c => /\ State'[x] = State[x]
                                     /\ Called_PO'[x] = Called_PO[x] /\ E'[x] = E[x]
      /\ State'[c] \in {"Never_Abortable", "Now_Abortable"} /\ Called_PO'[c] = o /\ E'[c] = e
  BY <1>2 DEF Places, Typed, RecordTyped
<1>9. Typed'
  <2>1. m \in Call_Modes /\ d \in BOOLEAN
    BY EntriesAssumption
  <2>2. owner' \in [Objects -> Tasks \cup {NoTask}] /\ depth' \in [Objects -> Int]
    BY <1>1, <1>2, LockTyped DEF Places, Typed
  <2>3. RecordTyped'
    BY <1>2, <2>1 DEF Places, Typed, RecordTyped, States
  <2>4. ObjectsTyped'
    BY <1>2, <2>2 DEF Places, Typed, ObjectsTyped, objects
  <2>5. CallersTyped'
    BY <1>1, <1>2, <2>1 DEF Places, Typed, CallersTyped, atcbs
  <2> QED BY <2>3, <2>4, <2>5 DEF Typed
<1>10. OwnAgenda'
  BY <1>5, <1>6 DEF Places, OwnAgenda
<1>11. ServedByOne'
  BY <1>3, <1>7 DEF Places, ServedByOne
<1>12. UNCHANGED Entry_Queues
  BY <1>2 DEF objects
<1>13. QueuedAsRecorded'
  BY <1>3, <1>7, <1>8, <1>12 DEF Places, QueuedAsRecorded, Onqueue
<1>14. QueuedDistinct'
  BY <1>12 DEF Places, QueuedDistinct
<1>15. \A x \in Callers : x # c => (Placed(x)' <=> Placed(x))
  BY <1>3, <1>7, <1>12 DEF Placed, Onqueue
<1>16. NotOver'
  BY <1>1, <1>5, <1>8, <1>15 DEF Places, NotOver, Over, Waiting, Tasks
<1>17. TriedWhereCalled'
  <2> SUFFICES ASSUME NEW u \in Tasks, agenda'[u] # <<>>, agenda'[u][1].act \in Trying
               PROVE  Called_PO'[agenda'[u][1].call] = agenda'[u][1].obj
    BY DEF TriedWhereCalled
  <2>1. CASE u = c
    BY <1>4, <1>6, <1>8, <2>1
  <2>2. CASE u # c
    <3>1. agenda[u][1] \in Frame /\ agenda'[u] = agenda[u]
      BY <1>6, <2>2, PopProperties DEF Places, ControlTyped
    <3>2. agenda[u][1].call \in Callers /\ agenda[u][1].call # c
      BY <1>3, <3>1 DEF Frame, Serves, Acting, Trying
    <3> QED BY <1>8, <3>1, <3>2 DEF Places, TriedWhereCalled
  <2> QED BY <2>1, <2>2
<1> QED BY <1>6, <1>9, <1>10, <1>11, <1>13, <1>14, <1>16, <1>17 DEF Places

\* The steps of a caller that move no call.
LEMMA CallerStepsPlaces ==
  ASSUME Places, NEW c \in Callers,
         \/ AfterCall(c) \/ Relock(c) \/ PollCancel(c) \/ PollOver(c) \/ PollSleep(c)
         \/ Wake(c) \/ LockServerAgain(c) \/ DoNotCancel(c) \/ AfterCancel(c)
         \/ TimeOut(c) \/ TestState(c) \/ MarkAbortable(c) \/ AbortTask(c)
  PROVE  Places'
<1>1. c \in Tasks /\ State[c] \in States
  BY DEF Tasks, Places, Typed, RecordTyped
<1>2. /\ UNCHANGED <<agenda, Entry_Queues, Called_PO, E>>
      /\ agenda[c] = <<>> \/ pc' = pc
      /\ \E there \in Labels :
           /\ pc' = [pc EXCEPT ![c] = there]
           /\ there = pc[c] \/ there \in Waiting \/ State[c] \in Over
      /\ \/ State' = State
         \/ State' = [State EXCEPT ![c] = "Now_Abortable"]
  <2>1. pc[c] \in Labels /\ pc = [pc EXCEPT ![c] = pc[c]]
    BY <1>1 DEF Places, ControlTyped
  <2>2. pc[c] \notin {"calling", "cancelling"} => agenda[c] = <<>>
    BY <1>1, NotCalling
  <2>3. CASE AfterCall(c)
    BY <2>2, <2>3 DEF AfterCall, Go, record, objects, Labels, Waiting
  <2>4. CASE Relock(c)
    BY <2>2, <2>4 DEF Relock, Go, record, objects, Labels, Waiting
  <2>5. CASE PollCancel(c)
    BY <2>2, <2>5 DEF PollCancel, Go, record, objects, Labels, Waiting
  <2>6. CASE PollOver(c)
    BY <2>2, <2>6 DEF PollOver, Go, record, objects, Labels, Waiting
  <2>7. CASE PollSleep(c)
    BY <2>2, <2>7 DEF PollSleep, Go, record, objects, Labels, Waiting
  <2>8. CASE Wake(c)
    BY <2>2, <2>8 DEF Wake, Go, record, objects, Labels, Waiting
  <2>9. CASE LockServerAgain(c)
    BY <2>1, <2>9 DEF LockServerAgain, record, objects
  <2>10. CASE DoNotCancel(c)
    BY <2>2, <2>10 DEF DoNotCancel, Go, record, objects, Labels, Waiting
  <2>11. CASE AfterCancel(c)
    BY <2>11 DEF AfterCancel, Go, record, objects, Labels, Waiting
  <2>12. CASE TimeOut(c)
    BY <2>2, <2>12 DEF TimeOut, objects, Labels, Waiting
  <2>14. CASE TestState(c)
    BY <2>2, <2>14 DEF TestState, Go, record, objects, Labels, Waiting
  <2>15. CASE MarkAbortable(c)
    BY <2>2, <2>15 DEF MarkAbortable, Go, objects, Labels, Waiting
  <2>13. CASE AbortTask(c)
    BY <2>1, <2>13 DEF AbortTask, control, objects
  <2> QED BY <2>3, <2>4, <2>5, <2>6, <2>7, <2>8, <2>9, <2>10, <2>11, <2>12, <2>13,
            <2>14, <2>15
<1>3. /\ pc' \in [Tasks -> Labels]
      /\ \A u \in Tasks : u # c => pc'[u] = pc[u]
      /\ agenda[c] = <<>> \/ pc'[c] = pc[c]
      /\ pc'[c] = pc[c] \/ pc'[c] \in Waiting \/ State[c] \in Over
  BY <1>1, <1>2 DEF Places, ControlTyped
<1>4. \A d \in Callers : State'[d] = State[d] \/ State'[d] \notin Over
  BY <1>2 DEF Over, Places, Typed, RecordTyped
<1>5. Typed'
  <2>1. RecordTyped'
    <3>1. State' \in [Callers -> States]
      BY <1>2 DEF Places, Typed, RecordTyped, States
    <3>2. Cancellation_Attempted' \in [Callers -> BOOLEAN] /\ UNCHANGED <<Mode, With_Abort, Called_PO, E>>
      BY DEF Places, Typed, RecordTyped, AfterCall, Relock, PollCancel, PollOver, PollSleep, Wake,
             LockServerAgain, DoNotCancel, AfterCancel, TimeOut, TestState,
             MarkAbortable, AbortTask, record
    <3> QED BY <3>1, <3>2 DEF Places, Typed, RecordTyped
  <2>2. ObjectsTyped'
    <3>1. UNCHANGED <<owner, depth, Entry_Queues, Call_In_Progress, open>>
      BY DEF AfterCall, Relock, PollCancel, PollOver, PollSleep, Wake,
             LockServerAgain, DoNotCancel, AfterCancel, TimeOut, TestState,
             MarkAbortable, AbortTask, locks, objects
    <3> QED BY <3>1 DEF Places, Typed, ObjectsTyped
  <2>3. CallersTyped'
    <3>1. UNCHANGED <<deferred, requeues, calls>>
      BY DEF AfterCall, Relock, PollCancel, PollOver, PollSleep, Wake,
             LockServerAgain, DoNotCancel, AfterCancel, TimeOut, TestState,
             MarkAbortable, AbortTask, control
    <3>2. Task_State' \in [Callers -> {"Runnable", "Entry_Caller_Sleep"}]
      BY DEF Places, Typed, CallersTyped, AfterCall, Relock, PollCancel, PollOver, PollSleep, Wake,
             LockServerAgain, DoNotCancel, AfterCancel, TimeOut, TestState,
             MarkAbortable, AbortTask, atcbs
    <3>3. Pending_ATC_Level' \in [Callers -> {0, 1, ATC_Level_Infinity}]
      BY DEF Places, Typed, CallersTyped, AfterCall, Relock, PollCancel, PollOver, PollSleep, Wake,
             LockServerAgain, DoNotCancel, AfterCancel, TimeOut, TestState,
             MarkAbortable, AbortTask, atcbs, Exit_One_ATC_Level
    <3>4. CV' \in [Callers -> BOOLEAN]
      BY DEF Places, Typed, CallersTyped, AfterCall, Relock, PollCancel, PollOver, PollSleep, Wake,
             LockServerAgain, DoNotCancel, AfterCancel, TimeOut, TestState,
             MarkAbortable, AbortTask, atcbs
    <3>5. Test_PO' \in [Callers -> Objects]
      BY DEF Places, Typed, RecordTyped, CallersTyped, AfterCall, Relock, PollCancel, PollOver,
             PollSleep, Wake, LockServerAgain, DoNotCancel, AfterCancel, TimeOut, TestState,
             MarkAbortable, AbortTask, control
    <3>6. Timedout' \in [Callers -> BOOLEAN]
      BY DEF Places, Typed, CallersTyped, AfterCall, Relock, PollCancel, PollOver, PollSleep, Wake,
             LockServerAgain, DoNotCancel, AfterCancel, TimeOut, TestState,
             MarkAbortable, AbortTask, control
    <3> QED BY <3>1, <3>2, <3>3, <3>4, <3>5, <3>6 DEF Places, Typed, CallersTyped
  <2> QED BY <2>1, <2>2, <2>3 DEF Typed
<1> QED BY <1>1, <1>2, <1>3, <1>4, <1>5, CallerMoves

LEMMA CancelCallPlaces ==
  ASSUME Places, NEW c \in Callers, CancelCall(c)
  PROVE  Places'
<1> DEFINE o == Test_PO[c]
           q == Entry_Queues[o][E[c]]
           r == Without(q, c)
<1>1. c \in Tasks /\ o \in Objects /\ E[c] \in Entries
  BY DEF Tasks, Places, Typed, RecordTyped, CallersTyped
<1>2. /\ o = Called_PO[c] /\ Onqueue(c)
      /\ pc[c] = "locking" /\ pc' = [pc EXCEPT ![c] = "cancelling"]
      /\ Lock(c, o)
      /\ Entry_Queues' = [Entry_Queues EXCEPT ![o][E[c]] = r]
      /\ State' = [State EXCEPT ![c] = IF Cancellation_Attempted[c] THEN "Cancelled" ELSE "Done"]
      /\ agenda' = [agenda EXCEPT ![c] = <<Service(o)>>]
      /\ UNCHANGED <<Mode, With_Abort, Cancellation_Attempted, Called_PO, E,
                     Call_In_Progress, open, atcbs, Test_PO, Timedout, deferred, requeues, calls>>
  BY <1>1 DEF CancelCall, SameServer, Cancellable, Go, Dequeue_Call, Places, Typed, ObjectsTyped
<1>3. q \in Seq(Callers) /\ Distinct(q)
  BY <1>1, QueueTyped DEF Places, QueuedDistinct
<1>4. /\ r \in Seq(Callers) /\ Distinct(r)
      /\ \A d : Contains(r, d) <=> Contains(q, d) /\ d # c
  <2> HIDE DEF q
  <2> QED BY <1>3, QueueWithout
<1> HIDE DEF r
<1>5. Entry_Queues' \in [Objects -> [Entries -> Seq(Callers)]]
  BY <1>1, <1>2, <1>4 DEF Places, Typed, ObjectsTyped
<1>6. \A d \in Callers : Contains(r, d) <=> Contains(Entry_Queues[Called_PO[c]][E[c]], d) /\ d # c
  BY <1>2, <1>4
<1>7. Entry_Queues' = [Entry_Queues EXCEPT ![Called_PO[c]][E[c]] = r]
  BY <1>2
<1> HIDE DEF q, o
<1>8. /\ QueuedDistinct'
      /\ \A p \in Objects, e \in Entries : \A d \in Callers :
           Contains(Entry_Queues'[p][e], d) <=> Contains(Entry_Queues[p][e], d) /\ d # c
      /\ \A d \in Callers : Onqueue(d)' <=> Onqueue(d) /\ d # c
  BY <1>4, <1>6, <1>7, TakesCall
<1>9. Agenda(c, <<Service(o)>>) /\ <<Service(o)>>[1].act \notin Acting
  BY <1>1, <1>2, ServiceFrame DEF Agenda
<1>10. /\ pc' \in [Tasks -> Labels] /\ pc'[c] = "cancelling"
       /\ \A u \in Tasks : u # c => pc'[u] = pc[u]
  BY <1>1, <1>2 DEF Places, ControlTyped, Labels
<1>11. /\ ControlTyped'
       /\ \A u \in Tasks : agenda'[u] = IF u = c THEN <<Service(o)>> ELSE agenda[u]
  BY <1>1, <1>9, <1>10, AgendaChange DEF Places
<1>12. \A d \in Callers : ~Serves(c, d)
  BY <1>1, <1>2, NotCalling
<1>13. \A u \in Tasks : \A d \in Callers : Serves(u, d)' <=> Serves(u, d)
  <2> SUFFICES ASSUME NEW u \in Tasks, NEW d \in Callers  PROVE Serves(u, d)' <=> Serves(u, d)
    OBVIOUS
  <2>1. CASE u = c
    BY <1>9, <1>11, <1>12, <2>1 DEF Serves
  <2>2. CASE u # c
    BY <1>11, <2>2 DEF Serves
  <2> QED BY <2>1, <2>2
<1>14. \A u \in Tasks : ~Serves(u, c)
  BY <1>2 DEF Places, QueuedAsRecorded, Onqueue
<1>15. OwnAgenda'
  BY <1>10, <1>11 DEF Places, OwnAgenda
<1>16. ServedByOne'
  BY <1>13 DEF Places, ServedByOne
<1>17. QueuedAsRecorded'
  BY <1>2, <1>8, <1>13 DEF Places, QueuedAsRecorded
<1>18. \A d \in Callers : Placed(d)' => Placed(d) /\ d # c
  BY <1>8, <1>13, <1>14 DEF Placed
<1>19. NotOver'
  <2>1. \A d \in Callers : d # c => State'[d] = State[d]
    BY <1>2 DEF Places, Typed, RecordTyped
  <2> QED BY <1>10, <1>18, <2>1 DEF Places, NotOver, Tasks
<1>20. TriedWhereCalled'
  BY <1>2, <1>9, <1>11 DEF Places, TriedWhereCalled, Acting, Trying
<1>21. Typed'
  <2>1. RecordTyped'
    BY <1>2 DEF Places, Typed, RecordTyped, States, Over
  <2>2. owner' \in [Objects -> Tasks \cup {NoTask}] /\ depth' \in [Objects -> Int]
    BY <1>1, <1>2, LockTyped DEF Places, Typed
  <2>3. ObjectsTyped'
    BY <1>2, <1>5, <2>2 DEF Places, Typed, ObjectsTyped
  <2>4. CallersTyped'
    BY <1>2 DEF Places, Typed, CallersTyped, atcbs
  <2> QED BY <2>1, <2>3, <2>4 DEF Typed
<1> QED BY <1>8, <1>11, <1>15, <1>16, <1>17, <1>19, <1>20, <1>21 DEF Places

LEMMA LeavePlaces ==
  ASSUME Places, NEW c \in Callers, Leave(c)
  PROVE  Places'
<1>1. c \in Tasks
  BY DEF Tasks
<1>2. /\ pc[c] = "leaving"
      /\ \E there \in {"idle", "aborted"} : pc' = [pc EXCEPT ![c] = there]
      /\ Mode' = [Mode EXCEPT ![c] = "Simple_Call"]
      /\ With_Abort' = [With_Abort EXCEPT ![c] = TRUE]
      /\ Cancellation_Attempted' = [Cancellation_Attempted EXCEPT ![c] = FALSE]
      /\ Called_PO' = [Called_PO EXCEPT ![c] = AnyObject]
      /\ E' = [E EXCEPT ![c] = AnyEntry]
      /\ CV' = [CV EXCEPT ![c] = FALSE]
      /\ Test_PO' = [Test_PO EXCEPT ![c] = AnyObject]
      /\ Timedout' = [Timedout EXCEPT ![c] = FALSE]
      /\ deferred' = [deferred EXCEPT ![c] = FALSE]
      /\ requeues' = [requeues EXCEPT ![c] = 0]
      /\ UNCHANGED <<State, locks, objects, Task_State, Pending_ATC_Level, agenda, calls>>
  BY DEF Leave, Go
<1>3. /\ \A u \in Tasks : ~Serves(u, c)
      /\ ~Onqueue(c) /\ agenda[c] = <<>>
  BY <1>1, <1>2, NotCalling DEF Placed, Waiting
<1>4. /\ pc' \in [Tasks -> Labels] /\ \A u \in Tasks : u # c => pc'[u] = pc[u]
  BY <1>1, <1>2 DEF Places, ControlTyped, Labels
<1>5. \A x \in Callers : x # c => Called_PO'[x] = Called_PO[x] /\ E'[x] = E[x]
  BY <1>2 DEF Places, Typed, RecordTyped
<1>6. \A u \in Tasks : \A x \in Callers : Serves(u, x)' <=> Serves(u, x)
  BY <1>2 DEF Serves
<1>7. ControlTyped' /\ OwnAgenda' /\ ServedByOne'
  BY <1>2, <1>3, <1>4, <1>6 DEF Places, ControlTyped, OwnAgenda, ServedByOne
<1>8. UNCHANGED Entry_Queues
  BY <1>2 DEF objects
<1>9. QueuedAsRecorded'
  BY <1>3, <1>5, <1>6, <1>8 DEF Places, QueuedAsRecorded, Onqueue
<1>10. QueuedDistinct'
  BY <1>8 DEF Places, QueuedDistinct
<1>11. \A x \in Callers : Placed(x)' => Placed(x) /\ x # c
  BY <1>3, <1>6, <1>8 DEF Placed, Onqueue
<1>12. NotOver'
  BY <1>2, <1>4, <1>11 DEF Places, NotOver, Tasks
<1>13. TriedWhereCalled'
  <2> SUFFICES ASSUME NEW u \in Tasks, agenda[u] # <<>>, agenda[u][1].act \in Trying
               PROVE  Called_PO'[agenda[u][1].call] = agenda[u][1].obj
    BY <1>2 DEF TriedWhereCalled
  <2>1. agenda[u][1] \in Frame
    BY PopProperties DEF Places, ControlTyped
  <2>2. agenda[u][1].call \in Callers /\ agenda[u][1].call # c
    BY <1>3, <2>1 DEF Frame, Serves, Acting, Trying
  <2> QED BY <1>5, <2>2 DEF Places, TriedWhereCalled
<1>14. Typed'
  <2>1. AnyObject \in Objects /\ AnyEntry \in Entries
    BY EntriesAssumption DEF AnyObject, AnyEntry
  <2>2. RecordTyped'
    BY <1>2, <2>1 DEF Places, Typed, RecordTyped, Call_Modes
  <2>3. ObjectsTyped'
    BY <1>2 DEF Places, Typed, ObjectsTyped, locks, objects
  <2>4. CallersTyped'
    BY <1>2, <2>1 DEF Places, Typed, CallersTyped
  <2> QED BY <2>2, <2>3, <2>4 DEF Typed
<1> QED BY <1>7, <1>9, <1>10, <1>12, <1>13, <1>14 DEF Places

LEMMA InitPlaces == Init => Places
<1> SUFFICES ASSUME Init  PROVE Places
  OBVIOUS
<1>1. AnyObject \in Objects /\ AnyEntry \in Entries
  BY EntriesAssumption DEF AnyObject, AnyEntry
<1>2. <<>> \in Seq(Callers) /\ <<>> \in Seq(Frame) /\ Len(<<>>) = 0
  OBVIOUS
<1>3. RecordTyped
  BY <1>1 DEF Init, RecordTyped, States, Over, Call_Modes
<1>4. ObjectsTyped
  BY <1>2 DEF Init, ObjectsTyped
<1>5. CallersTyped
  BY <1>1 DEF Init, CallersTyped
<1>6. ControlTyped
  BY <1>2 DEF Init, ControlTyped, Labels, Stack
<1>7. \A t \in Tasks : agenda[t] = <<>>
  BY DEF Init
<1>8. \A o \in Objects, e \in Entries : Entry_Queues[o][e] = <<>>
  BY DEF Init
<1>9. \A t \in Tasks, c \in Callers : ~Serves(t, c)
  BY <1>7 DEF Serves
<1>10. \A c \in Callers, o \in Objects, e \in Entries : ~Contains(Entry_Queues[o][e], c)
  BY <1>2, <1>8 DEF Contains
<1>11. OwnAgenda /\ TriedWhereCalled
  BY <1>7 DEF OwnAgenda, TriedWhereCalled
<1>12. ServedByOne /\ QueuedAsRecorded
  BY <1>9, <1>10 DEF ServedByOne, QueuedAsRecorded
<1>13. NotOver
  BY <1>9, <1>10 DEF NotOver, Placed, Onqueue
<1>14. QueuedDistinct
  BY <1>2, <1>8 DEF QueuedDistinct, Distinct
<1> QED BY <1>3, <1>4, <1>5, <1>6, <1>11, <1>12, <1>13, <1>14 DEF Places, Typed

LEMMA NextPlaces == Places /\ [Next]_vars => Places'
<1> SUFFICES ASSUME Places, [Next]_vars  PROVE Places'
  OBVIOUS
<1>1. CASE UNCHANGED vars
  BY <1>1 DEF Places, Typed, RecordTyped, ObjectsTyped, CallersTyped, ControlTyped, OwnAgenda,
              ServedByOne, QueuedAsRecorded, QueuedDistinct, NotOver, TriedWhereCalled, Placed,
              Onqueue, Serves, vars, record, locks, objects, atcbs, control
<1>2. CASE \E s \in Setters, o \in Objects, b \in SUBSET Entries : CallProcedure(s, o, b)
  BY <1>2, CallProcedurePlaces
<1>3. CASE \E c \in Callers, m \in Modes, o \in Objects, e \in Entries, d \in Deferred :
             CallEntry(c, m, o, e, d)
  BY <1>3, CallEntryPlaces
<1>4. CASE \E t \in Tasks : ServerStep(t)
  <2> PICK t \in Tasks : ServerStep(t)
    BY <1>4
  <2>1. CASE DoBegin(t)
    BY <2>1, DoBeginPlaces
  <2>2. CASE DoQueue(t)
    BY <2>2, TriedPlaces
  <2>3. CASE DoCancel(t)
    BY <2>3, DoCancelPlaces
  <2>4. CASE BodyCompletes(t)
    BY <2>4, BodyCompletesPlaces
  <2>5. CASE \E r \in Requeues, e \in Entries : BodyRequeues(t, r, e)
    BY <2>5, BodyRequeuesPlaces
  <2>6. CASE AfterDone(t)
    BY <2>6, AfterDonePlaces
  <2>7. CASE RequeueOther(t)
    BY <2>7, RequeueOtherPlaces
  <2>8. CASE RequeueSame(t)
    BY <2>8, RequeueSamePlaces
  <2>9. CASE AfterRequeue(t)
    BY <2>9, AfterRequeuePlaces
  <2>10. CASE \E e \in Entries : ServiceSelect(t, e)
    BY <2>10, ServiceSelectPlaces
  <2>11. CASE ServiceEnd(t)
    BY <2>11, ServiceEndPlaces
  <2>12. CASE ReadState(t)
    BY <2>12, TriedPlaces
  <2>13. CASE Enqueue(t)
    BY <2>13, EnqueuePlaces
  <2> QED BY <2>1, <2>2, <2>3, <2>4, <2>5, <2>6, <2>7, <2>8, <2>9, <2>10, <2>11, <2>12, <2>13
          DEF ServerStep
<1>5. CASE \E s \in Setters : ReturnProcedure(s)
  <2> PICK s \in Setters : ReturnProcedure(s)
    BY <1>5
  <2>1. s \in Tasks /\ s \notin Callers
    BY EntriesAssumption DEF Tasks
  <2>2. /\ agenda[s] = <<>> /\ pc' = [pc EXCEPT ![s] = "idle"]
        /\ UNCHANGED <<record, locks, objects, atcbs, agenda, Test_PO, Timedout, deferred,
                       requeues, calls>>
    BY DEF ReturnProcedure, Go
  <2>3. pc' \in [Tasks -> Labels] /\ \A u \in Tasks : u # s => pc'[u] = pc[u]
    BY <2>1, <2>2 DEF Places, ControlTyped, Labels
  <2>4. Typed'
    BY <2>2 DEF Places, Typed, RecordTyped, ObjectsTyped, CallersTyped, record, locks, objects, atcbs
  <2>5. UNCHANGED <<agenda, Entry_Queues, State, Called_PO, E>>
    BY <2>2 DEF record, objects
  <2> QED BY <2>1, <2>2, <2>3, <2>4, <2>5, CallerMoves
<1>6. CASE \E c \in Callers : CallerStep(c) \/ TimeOut(c) \/ AbortTask(c)
  <2> PICK c \in Callers : CallerStep(c) \/ TimeOut(c) \/ AbortTask(c)
    BY <1>6
  <2>1. CASE CancelCall(c)
    BY <2>1, CancelCallPlaces
  <2>2. CASE Leave(c)
    BY <2>2, LeavePlaces
  <2> QED BY <2>1, <2>2, CallerStepsPlaces DEF CallerStep
<1> QED BY <1>1, <1>2, <1>3, <1>4, <1>5, <1>6 DEF Next, ProgramStep

-----------------------------------------------------------------------------
(* Theorems: a call is in one place.                                       *)

\* The inductive invariant: each call is in one queue, the one its record
\* names, or with one task, and then its caller waits and it is not over.
THEOREM PlacesInvariant == Spec => []Places
<1>1. Init => Places
  BY InitPlaces
<1>2. Places /\ [Next]_vars => Places'
  BY NextPlaces
<1> QED BY <1>1, <1>2, PTL DEF Spec

\* A call in service is the first frame of some agenda.
LEMMA InServiceServed ==
  ASSUME Places, NEW c \in Callers, InService(c)
  PROVE  \E t \in Tasks : Serves(t, c)
<1>1. PICK t \in Tasks : \E f \in Frames(t) : f.act \in Acting /\ f.call = c
  BY DEF InService, Acting
<1>2. PICK i \in 1..Len(agenda[t]) : agenda[t][i].act \in Acting /\ agenda[t][i].call = c
  BY <1>1 DEF Frames
<1>3. agenda[t] \in Seq(Frame) /\ Stack(agenda[t])
  BY DEF Places, ControlTyped
<1>4. i = 1
  BY <1>2, <1>3 DEF Stack
<1>5. agenda[t] # <<>>
  BY <1>2, <1>3, EmptySeq
<1> QED BY <1>2, <1>4, <1>5 DEF Serves

\* Neither a time-out nor an abort gets the caller out while its call is
\* queued or its entry body executes (s-taenca.adb, Wait_For_Call and the
\* cancellation of a call that is requeued meanwhile).
THEOREM CallersStay == Spec => []CallerStays
<1>1. Places => CallerStays
  <2> SUFFICES ASSUME Places, NEW c \in Callers, Onqueue(c) \/ InService(c)
               PROVE  InCall(c) /\ State[c] \notin Over
    BY DEF CallerStays
  <2>1. Placed(c)
    BY InServiceServed DEF Placed
  <2> QED BY <2>1 DEF Places, NotOver, InCall, Waiting
<1> QED BY <1>1, PlacesInvariant, PTL

\* A call is once in one queue, and not with a server then: what Enqueue,
\* Dequeue and Requeue_Call do with it never loses or doubles it.
THEOREM CallsQueuedOnce == Spec => []QueuedOnce
<1>1. Places => QueuedOnce
  <2> SUFFICES ASSUME Places, NEW c \in Callers, NEW o \in Objects, NEW e \in Entries,
                      Contains(Entry_Queues[o][e], c)
               PROVE  /\ o = Called_PO[c] /\ e = E[c]
                      /\ State[c] \notin Over /\ ~InService(c)
                      /\ \A i, j \in 1..Len(Entry_Queues[o][e]) :
                           Entry_Queues[o][e][i] = c /\ Entry_Queues[o][e][j] = c => i = j
    BY DEF QueuedOnce
  <2>1. Onqueue(c)
    BY DEF Onqueue
  <2>2. o = Called_PO[c] /\ e = E[c] /\ \A t \in Tasks : ~Serves(t, c)
    BY DEF Places, QueuedAsRecorded
  <2>3. ~InService(c)
    BY <2>2, InServiceServed
  <2>4. State[c] \notin Over
    BY <2>1 DEF Places, NotOver, Placed
  <2> QED BY <2>2, <2>3, <2>4 DEF Places, QueuedDistinct, Distinct
<1> QED BY <1>1, PlacesInvariant, PTL

\* Whose call's state a step may change: one that is placed, one that begins,
\* and one whose caller marks it after its time-out.
LEMMA StateChanges ==
  ASSUME Places, [Next]_vars, NEW c \in Callers, State'[c] # State[c]
  PROVE  Placed(c) \/ pc[c] = "idle" \/ MarkAbortable(c)
<1> SUFFICES ASSUME pc[c] # "idle", ~MarkAbortable(c), ~Placed(c)  PROVE FALSE
  OBVIOUS
<1>1. State \in [Callers -> States]
  BY DEF Places, Typed, RecordTyped
<1>2. ASSUME NEW d \in Callers, NEW x, State' = [State EXCEPT ![d] = x], Placed(d)  PROVE FALSE
  BY <1>1, <1>2
<1>3. CASE UNCHANGED vars
  BY <1>3 DEF vars, record
<1>4. CASE \E s \in Setters, o \in Objects, b \in SUBSET Entries : CallProcedure(s, o, b)
  BY <1>4 DEF CallProcedure, record
<1>5. CASE \E d \in Callers, m \in Modes, o \in Objects, e \in Entries, x \in Deferred :
             CallEntry(d, m, o, e, x)
  BY <1>1, <1>5 DEF CallEntry, Go
<1>6. CASE \E t \in Tasks : ServerStep(t)
  <2> PICK t \in Tasks : ServerStep(t)
    BY <1>6
  <2>1. At(t, "do") \/ At(t, "update") \/ At(t, "body") \/ At(t, "after") =>
          First(t).call \in Callers /\ Placed(First(t).call)
    BY FirstFrame DEF Places, At, First, Acting, Placed
  <2>2. CASE DoBegin(t)
    BY <1>2, <2>1, <2>2 DEF DoBegin, NotAbortable, First
  <2>3. CASE DoQueue(t)
    BY <2>3 DEF DoQueue, record
  <2>4. CASE DoCancel(t)
    BY <1>2, <2>1, <2>4 DEF DoCancel, Wakeup_Entry_Caller, First
  <2>5. CASE BodyCompletes(t)
    BY <2>5 DEF BodyCompletes, record
  <2>6. CASE \E r \in Requeues, e \in Entries : BodyRequeues(t, r, e)
    BY <2>6 DEF BodyRequeues
  <2>7. CASE AfterDone(t)
    BY <1>2, <2>1, <2>7 DEF AfterDone, Wakeup_Entry_Caller, First
  <2>8. CASE RequeueOther(t) \/ AfterRequeue(t) \/ ServiceEnd(t)
    BY <2>8 DEF RequeueOther, AfterRequeue, ServiceEnd, record
  <2>9. CASE RequeueSame(t)
    BY <1>2, <2>1, <2>9 DEF RequeueSame, First
  <2>10. CASE \E e \in Entries : ServiceSelect(t, e)
    <3> PICK e \in Entries : ServiceSelect(t, e)
      BY <2>10
    <3>1. Head(Served(t, e)) \in Callers /\ Placed(Head(Served(t, e)))
      BY SelectedCall DEF Placed
    <3> QED BY <1>2, <3>1 DEF ServiceSelect, NotAbortable, Served, First
  <2>11. CASE ReadState(t)
    BY <2>11 DEF ReadState, record
  <2>12. CASE Enqueue(t)
    BY <1>2, <2>1, <2>12 DEF Enqueue, First
  <2> QED BY <2>2, <2>3, <2>4, <2>5, <2>6, <2>7, <2>8, <2>9, <2>10, <2>11, <2>12 DEF ServerStep
<1>7. CASE \E s \in Setters : ReturnProcedure(s)
  BY <1>7 DEF ReturnProcedure, record
<1>8. CASE \E d \in Callers : CallerStep(d) \/ TimeOut(d) \/ AbortTask(d)
  <2> PICK d \in Callers : CallerStep(d) \/ TimeOut(d) \/ AbortTask(d)
    BY <1>8
  <2>1. CASE CancelCall(d)
    BY <1>2, <2>1 DEF CancelCall, Cancellable, Placed
  <2>2. CASE MarkAbortable(d)
    BY <1>1, <2>2 DEF MarkAbortable
  <2>3. CASE ~CancelCall(d) /\ ~MarkAbortable(d)
    BY <2>3 DEF CallerStep, TimeOut, TestState, AfterCall, Relock, PollCancel, PollOver, PollSleep, Wake,
                LockServerAgain, DoNotCancel, AfterCancel, Leave, AbortTask, record
  <2> QED BY <2>1, <2>2, <2>3
<1> QED BY <1>3, <1>4, <1>5, <1>6, <1>7, <1>8 DEF Next, ProgramStep

\* What has ended a call is final but for one step: only the mark after a
\* time-out, which s-taenca.adb:576 makes on a state that it has tested before,
\* overwrites it, whatever servers, cancellations and further time-outs do.
THEOREM OnlyMarksRevive ==
  Spec => [][\A c \in Callers : State[c] \in Over /\ pc[c] # "idle" =>
               State'[c] = State[c] \/ MarkAbortable(c)]_vars
<1>1. Places /\ [Next]_vars =>
        [\A c \in Callers : State[c] \in Over /\ pc[c] # "idle" =>
           State'[c] = State[c] \/ MarkAbortable(c)]_vars
  <2> SUFFICES ASSUME Places, [Next]_vars, NEW c \in Callers, State[c] \in Over, pc[c] # "idle",
                      State'[c] # State[c], ~MarkAbortable(c)
               PROVE  FALSE
    OBVIOUS
  <2>1. ~Placed(c)
    BY DEF Places, NotOver
  <2> QED BY <2>1, StateChanges
<1> QED BY <1>1, PlacesInvariant, PTL DEF Spec

-----------------------------------------------------------------------------
(* Locks: an object is unlocked as often as it was locked.                 *)

\* The agenda of t changes, and no lock.
LEMMA LocksKept ==
  ASSUME LocksHeld, ControlTyped, NEW t \in Tasks, NEW s, agenda' = [agenda EXCEPT ![t] = s],
         \A o \in Objects : Unlocks(s, o) = Unlocks(agenda[t], o), UNCHANGED locks
  PROVE  LocksHeld'
<1>1. \A u \in Tasks : agenda'[u] = IF u = t THEN s ELSE agenda[u]
  BY DEF ControlTyped
<1>2. \A o \in Objects, u \in Tasks : Unlocks(agenda'[u], o) = Unlocks(agenda[u], o)
  BY <1>1
<1> QED BY <1>2 DEF LocksHeld, Unlocks, locks

\* t locks o, and is to unlock it once more.
LEMMA LocksTaken ==
  ASSUME LocksHeld, ControlTyped, ObjectsTyped, NEW t \in Tasks, NEW s,
         agenda' = [agenda EXCEPT ![t] = s],
         NEW o \in Objects, Free(t, o), Lock(t, o),
         \A p \in Objects : Unlocks(s, p) = IF p = o THEN Unlocks(agenda[t], p) + 1
                                            ELSE Unlocks(agenda[t], p)
  PROVE  LocksHeld'
<1>1. \A u \in Tasks : agenda'[u] = IF u = t THEN s ELSE agenda[u]
  BY DEF ControlTyped
<1>2. \A p \in Objects : /\ owner'[p] = IF p = o THEN t ELSE owner[p]
                         /\ depth'[p] = IF p = o THEN depth[p] + 1 ELSE depth[p]
  BY DEF Lock, ObjectsTyped
<1>3. NoTask \notin Tasks
  BY EntriesAssumption DEF Tasks
<1>4. /\ \A p \in Objects : owner[p] = NoTask => depth[p] = 0
      /\ \A p \in Objects, u \in Tasks : Unlocks(agenda[u], p) = IF owner[p] = u THEN depth[p] ELSE 0
  BY DEF LocksHeld, Unlocks
<1>5. \A p \in Objects : depth[p] \in Int
  BY DEF ObjectsTyped
<1>6. \A p \in Objects : owner'[p] = NoTask => depth'[p] = 0
  BY <1>2, <1>3, <1>4
<1>7. ASSUME NEW p \in Objects, NEW u \in Tasks
      PROVE  Unlocks(agenda'[u], p) = IF owner'[p] = u THEN depth'[p] ELSE 0
  <2>1. CASE p = o
    BY <1>1, <1>2, <1>3, <1>4, <1>5, <2>1 DEF Free
  <2>2. CASE p # o
    BY <1>1, <1>2, <1>4, <2>2
  <2> QED BY <2>1, <2>2
<1> QED BY <1>6, <1>7 DEF LocksHeld, Unlocks

\* t unlocks o, and is to unlock it once less.
LEMMA LocksReleased ==
  ASSUME LocksHeld, ControlTyped, ObjectsTyped, NEW t \in Tasks, NEW s \in Seq(Frame),
         agenda' = [agenda EXCEPT ![t] = s],
         NEW o \in Objects, Unlock(o),
         \A p \in Objects : Unlocks(agenda[t], p) = IF p = o THEN Unlocks(s, p) + 1
                                                    ELSE Unlocks(s, p)
  PROVE  LocksHeld'
<1>1. \A u \in Tasks : agenda'[u] = IF u = t THEN s ELSE agenda[u]
  BY DEF ControlTyped
<1>2. \A p \in Objects : /\ owner'[p] = IF p = o /\ depth[o] = 1 THEN NoTask ELSE owner[p]
                         /\ depth'[p] = IF p = o THEN depth[p] - 1 ELSE depth[p]
  BY DEF Unlock, ObjectsTyped
<1>3. NoTask \notin Tasks
  BY EntriesAssumption DEF Tasks
<1>4. /\ \A p \in Objects : owner[p] = NoTask => depth[p] = 0
      /\ \A p \in Objects, u \in Tasks : Unlocks(agenda[u], p) = IF owner[p] = u THEN depth[p] ELSE 0
  BY DEF LocksHeld, Unlocks
<1>5. \A p \in Objects : depth[p] \in Int /\ Unlocks(s, p) \in Nat
  BY UnlocksNat DEF ObjectsTyped
<1>6. owner[o] = t /\ depth[o] = Unlocks(s, o) + 1
  BY <1>4, <1>5
<1>7. \A p \in Objects : owner'[p] = NoTask => depth'[p] = 0
  BY <1>2, <1>3, <1>4, <1>5, <1>6
<1>8. ASSUME NEW p \in Objects, NEW u \in Tasks
      PROVE  Unlocks(agenda'[u], p) = IF owner'[p] = u THEN depth'[p] ELSE 0
  <2>1. CASE p = o
    BY <1>1, <1>2, <1>3, <1>4, <1>5, <1>6, <2>1
  <2>2. CASE p # o
    BY <1>1, <1>2, <1>4, <2>2
  <2> QED BY <2>1, <2>2
<1> QED BY <1>7, <1>8 DEF LocksHeld, Unlocks

\* Who is to execute something of an object owns it.
LEMMA FramesOwned ==
  ASSUME Places, LocksHeld, NEW t \in Tasks, NEW i \in 1..Len(agenda[t])
  PROVE  owner[agenda[t][i].obj] = t
<1> DEFINE s == agenda[t]
<1>1. s \in Seq(Frame) /\ Stack(s) /\ Len(s) \in Nat
  BY DEF Places, ControlTyped
<1>2. \A j \in 1..Len(s) : s[j] \in Frame /\ s[j].obj \in Objects
  <2>1. \A j \in 1..Len(s) : s[j] \in Frame
    BY <1>1, ElementOfSeq
  <2> QED BY <2>1 DEF Frame
<1>3. ASSUME NEW j \in 1..Len(s), s[j].act = "service"  PROVE owner[s[j].obj] = t
  <2>1. Unlocks(s, s[j].obj) > 0
    <3> DEFINE o == s[j].obj
    <3>1. \A p : s[j].act = "service" /\ s[j].obj = p => Unlocks(s, p) > 0
      BY <1>1, UnlocksNat
    <3> QED BY <1>3, <3>1
  <2>2. s[j].obj \in Objects
    BY <1>2
  <2> HIDE DEF s
  <2>3. Unlocks(s, s[j].obj) = IF owner[s[j].obj] = t THEN depth[s[j].obj] ELSE 0
    BY <2>2 DEF LocksHeld, Unlocks, s
  <2> QED BY <2>1, <2>3
<1> HIDE DEF s
<1>4. ASSUME NEW j \in 1..Len(s), s[j].act # "service"
      PROVE  j + 1 \in 1..Len(s) /\ s[j + 1].obj = s[j].obj /\ s[j + 1].act \in {"service", "check"}
             /\ (s[j].act = "check" => s[j + 1].act = "service")
  BY <1>1, <1>4 DEF Stack
<1>5. ASSUME NEW j \in 1..Len(s), s[j].act = "check"  PROVE owner[s[j].obj] = t
  <2>1. j + 1 \in 1..Len(s) /\ s[j + 1].obj = s[j].obj /\ s[j + 1].act = "service"
    BY <1>4, <1>5
  <2>2. owner[s[j + 1].obj] = t
    BY <1>3, <2>1
  <2> QED BY <2>1, <2>2
<1>6. ASSUME NEW j \in 1..Len(s)  PROVE owner[s[j].obj] = t
  <2>1. CASE s[j].act = "service"
    BY <1>3, <2>1
  <2>2. CASE s[j].act # "service"
    <3>1. j + 1 \in 1..Len(s) /\ s[j + 1].obj = s[j].obj /\ s[j + 1].act \in {"service", "check"}
      BY <1>4, <2>2
    <3>2. owner[s[j + 1].obj] = t
      BY <1>3, <1>5, <3>1
    <3> QED BY <3>1, <3>2
  <2> QED BY <2>1, <2>2
<1> QED BY <1>6 DEF s

\* What the frames of t unlock, without the first.
LEMMA UnlocksRest ==
  ASSUME Places, NEW t \in Tasks, agenda[t] # <<>>
  PROVE  /\ Rest(t) \in Seq(Frame)
         /\ \A o : Unlocks(agenda[t], o) = IF First(t).act = "service" /\ First(t).obj = o
                                           THEN Unlocks(Rest(t), o) + 1 ELSE Unlocks(Rest(t), o)
<1>1. agenda[t] \in Seq(Frame)
  BY DEF Places, ControlTyped
<1>2. Rest(t) \in Seq(Frame) /\ First(t) = agenda[t][1]
  BY <1>1, PopProperties DEF First, Rest
<1>3. \A o : Unlocks(agenda[t], o) = IF agenda[t][1].act = "service" /\ agenda[t][1].obj = o
                                     THEN Unlocks(Tail(agenda[t]), o) + 1 ELSE Unlocks(Tail(agenda[t]), o)
  BY <1>1, UnlocksPop
<1> QED BY <1>2, <1>3 DEF Rest

\* A step that puts one frame that unlocks nothing in front of the rest, or none.
LEMMA FrameReplaced ==
  ASSUME Places, LocksHeld, NEW t \in Tasks, agenda[t] # <<>>, First(t).act # "service",
         UNCHANGED locks,
         \/ agenda' = [agenda EXCEPT ![t] = <<>> \o Rest(t)]
         \/ \E x \in Frame : x.act # "service" /\ agenda' = [agenda EXCEPT ![t] = <<x>> \o Rest(t)]
  PROVE  LocksHeld'
<1>1. /\ Rest(t) \in Seq(Frame)
      /\ \A o : Unlocks(agenda[t], o) = Unlocks(Rest(t), o)
  BY UnlocksRest
<1>2. ControlTyped
  BY DEF Places
<1>3. CASE agenda' = [agenda EXCEPT ![t] = <<>> \o Rest(t)]
  <2>1. agenda' = [agenda EXCEPT ![t] = Rest(t)]
    BY <1>1, <1>3, NothingPushed
  <2> QED BY <1>1, <1>2, <2>1, LocksKept
<1>4. ASSUME NEW x \in Frame, x.act # "service", agenda' = [agenda EXCEPT ![t] = <<x>> \o Rest(t)]
      PROVE  LocksHeld'
  <2> DEFINE s == <<x>> \o Rest(t)
  <2>1. \A o : Unlocks(s, o) = Unlocks(Rest(t), o)
    BY <1>1, <1>4, UnlocksPush
  <2>2. agenda' = [agenda EXCEPT ![t] = s]
    BY <1>4
  <2> HIDE DEF s
  <2>3. \A o \in Objects : Unlocks(s, o) = Unlocks(agenda[t], o)
    BY <1>1, <2>1
  <2> QED BY <1>2, <2>2, <2>3, LocksKept
<1> QED BY <1>3, <1>4

LEMMA FrameReplacedLocks ==
  ASSUME Places, LocksHeld, NEW t \in Tasks,
         \/ DoBegin(t) \/ Enqueue(t) \/ DoCancel(t) \/ BodyCompletes(t) \/ AfterDone(t)
         \/ \E r \in Requeues, e \in Entries : BodyRequeues(t, r, e)
  PROVE  LocksHeld'
<1> DEFINE f == First(t)
<1>1. agenda[t] # <<>> /\ f.act \in Acting /\ UNCHANGED locks
  BY DEF DoBegin, Enqueue, DoCancel, BodyCompletes, AfterDone, BodyRequeues, At, First, Acting
<1>2. /\ f.obj \in Objects /\ f.call \in Callers
      /\ f.act \in {"body", "after"} => f.serving \in BOOLEAN
  BY <1>1, FirstFrame DEF Places, Acting, First
<1>3. Body(f.obj, f.call, FALSE) \in Frame /\ Body(f.obj, f.call, FALSE).act # "service"
  BY <1>2 DEF Body, Frame
<1>4. f.act = "body" =>
        After(f.obj, f.call, f.serving) \in Frame /\ After(f.obj, f.call, f.serving).act # "service"
  BY <1>2 DEF After, Frame
<1>5. f.act # "service"
  BY <1>1 DEF Acting
<1>6. CASE DoBegin(t)
  <2>1. agenda' = [agenda EXCEPT ![t] = <<Body(f.obj, f.call, FALSE)>> \o Rest(t)]
    BY <1>6 DEF DoBegin, Continue, First, Rest
  <2> HIDE DEF f
  <2> QED BY <1>1, <1>3, <1>5, <2>1, FrameReplaced DEF f
<1>7. CASE Enqueue(t) \/ DoCancel(t) \/ AfterDone(t)
  <2>1. agenda' = [agenda EXCEPT ![t] = <<>> \o Rest(t)]
    BY <1>7 DEF Enqueue, DoCancel, AfterDone, Continue, Rest
  <2> QED BY <1>1, <1>5, <2>1, FrameReplaced
<1>8. CASE BodyCompletes(t) \/ \E r \in Requeues, e \in Entries : BodyRequeues(t, r, e)
  <2>1. /\ f.act = "body"
        /\ agenda' = [agenda EXCEPT ![t] = <<After(f.obj, f.call, f.serving)>> \o Rest(t)]
    BY <1>8 DEF BodyCompletes, BodyRequeues, Continue, At, First, Rest
  <2> HIDE DEF f
  <2> QED BY <1>1, <1>4, <1>5, <2>1, FrameReplaced DEF f
<1> QED BY <1>6, <1>7, <1>8

LEMMA TriedLocks ==
  ASSUME Places, LocksHeld, NEW t \in Tasks, DoQueue(t) \/ ReadState(t)
  PROVE  LocksHeld'
<1>1. /\ agenda[t] # <<>> /\ First(t).act # "service" /\ UNCHANGED locks
      /\ \E r : Agenda(t, r) /\ \A p : Unlocks(r, p) = Unlocks(Rest(t), p)
  BY TriedFrame
<1>2. PICK r : Agenda(t, r) /\ \A p : Unlocks(r, p) = Unlocks(Rest(t), p)
  BY <1>1
<1>3. \A o : Unlocks(agenda[t], o) = Unlocks(Rest(t), o)
  BY <1>1, UnlocksRest
<1>4. agenda' = [agenda EXCEPT ![t] = r] /\ ControlTyped
  BY <1>2 DEF Agenda, Places
<1>5. \A o \in Objects : Unlocks(r, o) = Unlocks(agenda[t], o)
  BY <1>2, <1>3
<1> QED BY <1>1, <1>4, <1>5, LocksKept

LEMMA RequeueOtherLocks ==
  ASSUME Places, LocksHeld, NEW t \in Tasks, RequeueOther(t)
  PROVE  LocksHeld'
<1>1. /\ Target(t) \in Objects
      /\ \E r : /\ Agenda(t, r)
                /\ \A p : Unlocks(r, p) = IF p = Target(t) THEN Unlocks(Rest(t), p) + 1
                                          ELSE Unlocks(Rest(t), p)
  BY RequeueOtherFrames
<1>2. PICK r : /\ Agenda(t, r)
               /\ \A p : Unlocks(r, p) = IF p = Target(t) THEN Unlocks(Rest(t), p) + 1
                                         ELSE Unlocks(Rest(t), p)
  BY <1>1
<1>3. agenda[t] # <<>> /\ First(t).act # "service"
  BY AfterFrame DEF RequeueOther
<1>4. \A o : Unlocks(agenda[t], o) = Unlocks(Rest(t), o)
  BY <1>3, UnlocksRest
<1>5. Free(t, Target(t)) /\ Lock(t, Target(t))
  BY DEF RequeueOther, Target, First
<1>6. agenda' = [agenda EXCEPT ![t] = r] /\ ControlTyped /\ ObjectsTyped
  BY <1>2 DEF Agenda, Places, Typed
<1>7. \A p \in Objects : Unlocks(r, p) = IF p = Target(t) THEN Unlocks(agenda[t], p) + 1
                                         ELSE Unlocks(agenda[t], p)
  BY <1>2, <1>4
<1> QED BY <1>1, <1>5, <1>6, <1>7, LocksTaken

LEMMA RequeueSameLocks ==
  ASSUME Places, LocksHeld, NEW t \in Tasks, RequeueSame(t)
  PROVE  LocksHeld'
<1>1. /\ agenda[t] # <<>> /\ First(t).act # "service" /\ First(t).call \in Callers
      /\ \A o : Unlocks(Requeued(t), o) = Unlocks(Rest(t), o)
  BY AfterFrame DEF RequeueSame
<1>2. \A o : Unlocks(agenda[t], o) = Unlocks(Rest(t), o)
  BY <1>1, UnlocksRest
<1>3. UNCHANGED locks /\ \E r : Agenda(t, r) /\ \A p : Unlocks(r, p) = Unlocks(Requeued(t), p)
  BY <1>1, RequeueSameCases
<1>4. PICK r : Agenda(t, r) /\ \A p : Unlocks(r, p) = Unlocks(Requeued(t), p)
  BY <1>3
<1>5. agenda' = [agenda EXCEPT ![t] = r] /\ ControlTyped
  BY <1>4 DEF Agenda, Places
<1>6. \A o \in Objects : Unlocks(r, o) = Unlocks(agenda[t], o)
  BY <1>1, <1>2, <1>4
<1> QED BY <1>3, <1>5, <1>6, LocksKept

LEMMA AfterRequeueLocks ==
  ASSUME Places, LocksHeld, NEW t \in Tasks, AfterRequeue(t)
  PROVE  LocksHeld'
<1>1. /\ At(t, "check") /\ First(t).act = "check"
      /\ \/ /\ agenda' = [agenda EXCEPT ![t] = Tail(Rest(t))]
            /\ Unlock(First(t).obj)
         \/ /\ agenda' = [agenda EXCEPT ![t] = <<>> \o Rest(t)]
            /\ UNCHANGED locks
  BY DEF AfterRequeue, At, First, Rest, Continue, Places, ControlTyped
<1>2. /\ agenda[t] # <<>> /\ First(t).obj \in Objects
      /\ Rest(t) \in Seq(Frame) /\ Tail(Rest(t)) \in Seq(Frame)
      /\ Rest(t) # <<>> /\ Rest(t)[1].act = "service" /\ Rest(t)[1].obj = First(t).obj
  BY <1>1, OtherFrame
<1>3. CASE agenda' = [agenda EXCEPT ![t] = <<>> \o Rest(t)] /\ UNCHANGED locks
  BY <1>1, <1>2, <1>3, FrameReplaced
<1>4. CASE agenda' = [agenda EXCEPT ![t] = Tail(Rest(t))] /\ Unlock(First(t).obj)
  <2>1. \A o : Unlocks(agenda[t], o) = Unlocks(Rest(t), o)
    BY <1>1, <1>2, UnlocksRest
  <2>2. \A o : Unlocks(Rest(t), o) = IF Rest(t)[1].act = "service" /\ Rest(t)[1].obj = o
                                     THEN Unlocks(Tail(Rest(t)), o) + 1 ELSE Unlocks(Tail(Rest(t)), o)
    BY <1>2, UnlocksPop
  <2>3. \A p \in Objects : Unlocks(agenda[t], p) = IF p = First(t).obj THEN Unlocks(Tail(Rest(t)), p) + 1
                                                   ELSE Unlocks(Tail(Rest(t)), p)
    BY <1>2, <2>1, <2>2
  <2>4. ControlTyped /\ ObjectsTyped
    BY DEF Places, Typed
  <2> QED BY <1>2, <1>4, <2>3, <2>4, LocksReleased
<1> QED BY <1>1, <1>3, <1>4

LEMMA ServiceLocks ==
  ASSUME Places, LocksHeld, NEW t \in Tasks,
         ServiceEnd(t) \/ \E e \in Entries : ServiceSelect(t, e)
  PROVE  LocksHeld'
<1>1. At(t, "service") /\ First(t).act = "service"
  BY DEF ServiceEnd, ServiceSelect, At, First
<1>2. /\ agenda[t] # <<>> /\ First(t).obj \in Objects /\ agenda[t] \in Seq(Frame)
      /\ Rest(t) \in Seq(Frame) /\ ControlTyped /\ ObjectsTyped
  BY <1>1, OtherFrame DEF Places, Typed
<1>3. CASE ServiceEnd(t)
  <2>1. agenda' = [agenda EXCEPT ![t] = <<>> \o Rest(t)] /\ Unlock(First(t).obj)
    BY <1>3 DEF ServiceEnd, First, Rest, Continue
  <2>2. agenda' = [agenda EXCEPT ![t] = Rest(t)]
    BY <1>2, <2>1, NothingPushed
  <2>3. \A o \in Objects : Unlocks(agenda[t], o) = IF o = First(t).obj THEN Unlocks(Rest(t), o) + 1
                                                   ELSE Unlocks(Rest(t), o)
    BY <1>1, <1>2, UnlocksRest
  <2> QED BY <1>2, <2>1, <2>2, <2>3, LocksReleased
<1>4. ASSUME NEW e \in Entries, ServiceSelect(t, e)  PROVE LocksHeld'
  <2> DEFINE c == Head(Served(t, e))
             x == Body(First(t).obj, c, TRUE)
             s == <<x>> \o agenda[t]
  <2>1. c \in Callers
    BY <1>4, SelectedCall
  <2>2. agenda' = [agenda EXCEPT ![t] = s] /\ UNCHANGED locks
    BY <1>4 DEF ServiceSelect, Served, First
  <2> HIDE DEF c
  <2>3. x \in Frame /\ x.act # "service"
    BY <1>2, <2>1 DEF Body, Frame
  <2> HIDE DEF x
  <2>4. \A o : Unlocks(s, o) = Unlocks(agenda[t], o)
    BY <1>2, <2>3, UnlocksPush
  <2> HIDE DEF s
  <2> QED BY <1>2, <2>2, <2>4, LocksKept
<1> QED BY <1>3, <1>4

\* A task with nothing to do locks a free object.
LEMMA FirstLock ==
  ASSUME Places, LocksHeld, NEW t \in Tasks, agenda[t] = <<>>,
         NEW o \in Objects, owner[o] = NoTask, Lock(t, o),
         NEW s, agenda' = [agenda EXCEPT ![t] = s],
         \A p : Unlocks(s, p) = IF p = o THEN 1 ELSE 0
  PROVE  LocksHeld'
<1>1. \A p : Unlocks(agenda[t], p) = 0
  <2>1. agenda[t] \in Seq(Frame)
    BY DEF Places, ControlTyped
  <2> QED BY <2>1, UnlocksNat
<1>2. Free(t, o) /\ ControlTyped /\ ObjectsTyped
  BY DEF Free, Places, Typed
<1>3. \A p \in Objects : Unlocks(s, p) = IF p = o THEN Unlocks(agenda[t], p) + 1
                                         ELSE Unlocks(agenda[t], p)
  BY <1>1
<1> QED BY <1>2, <1>3, LocksTaken

LEMMA NextLocks == Places /\ LocksHeld /\ [Next]_vars => LocksHeld'
<1> SUFFICES ASSUME Places, LocksHeld, [Next]_vars  PROVE LocksHeld'
  OBVIOUS
<1>1. CASE UNCHANGED <<agenda, locks>>
  BY <1>1 DEF LocksHeld, locks
<1>2. ASSUME NEW s \in Setters, NEW o \in Objects, NEW b \in SUBSET Entries, CallProcedure(s, o, b)
      PROVE  LocksHeld'
  <2>1. s \in Tasks
    BY DEF Tasks
  <2>2. /\ pc[s] = "idle" /\ owner[o] = NoTask /\ Lock(s, o)
        /\ agenda' = [agenda EXCEPT ![s] = <<Service(o)>>]
    BY <1>2 DEF CallProcedure, Go
  <2>3. agenda[s] = <<>>
    BY <2>1, <2>2, NotCalling
  <2>4. \A p : Unlocks(<<Service(o)>>, p) = IF p = o THEN 1 ELSE 0
    BY ServiceFrame
  <2> QED BY <2>1, <2>2, <2>3, <2>4, FirstLock
<1>3. ASSUME NEW c \in Callers, NEW m \in Modes, NEW o \in Objects, NEW e \in Entries,
             NEW d \in Deferred, CallEntry(c, m, o, e, d)
      PROVE  LocksHeld'
  <2>1. c \in Tasks
    BY DEF Tasks
  <2>2. /\ pc[c] = "idle" /\ owner[o] = NoTask /\ Lock(c, o)
        /\ agenda' = [agenda EXCEPT ![c] = Retry(o, c)]
    BY <1>3 DEF CallEntry, Go, Retry
  <2>3. agenda[c] = <<>>
    BY <2>1, <2>2, NotCalling
  <2>4. \A p : Unlocks(Retry(o, c), p) = IF p = o THEN 1 ELSE 0
    BY CallFrames
  <2> QED BY <2>1, <2>2, <2>3, <2>4, FirstLock
<1>4. ASSUME NEW t \in Tasks, ServerStep(t)  PROVE LocksHeld'
  BY <1>4, FrameReplacedLocks, TriedLocks, RequeueOtherLocks, RequeueSameLocks, AfterRequeueLocks, ServiceLocks
     DEF ServerStep
<1>5. ASSUME NEW c \in Callers, CancelCall(c)  PROVE LocksHeld'
  <2>1. c \in Tasks /\ Test_PO[c] \in Objects
    BY DEF Tasks, Places, Typed, CallersTyped
  <2>2. /\ pc[c] = "locking" /\ owner[Test_PO[c]] = NoTask /\ Lock(c, Test_PO[c])
        /\ agenda' = [agenda EXCEPT ![c] = <<Service(Test_PO[c])>>]
    BY <1>5 DEF CancelCall, Go
  <2>3. agenda[c] = <<>>
    BY <2>1, <2>2, NotCalling
  <2>4. \A p : Unlocks(<<Service(Test_PO[c])>>, p) = IF p = Test_PO[c] THEN 1 ELSE 0
    BY <2>1, ServiceFrame
  <2> QED BY <2>1, <2>2, <2>3, <2>4, FirstLock
<1>6. CASE \E s \in Setters : ReturnProcedure(s)
  BY <1>1, <1>6 DEF ReturnProcedure
<1>7. ASSUME NEW c \in Callers, CallerStep(c) \/ TimeOut(c) \/ AbortTask(c), ~CancelCall(c)
      PROVE  LocksHeld'
  BY <1>1, <1>7 DEF CallerStep, AfterCall, Relock, PollCancel, PollOver, PollSleep, Wake, TimeOut,
                    TestState, MarkAbortable, LockServerAgain, DoNotCancel, AfterCancel, Leave, AbortTask, control
<1>8. CASE UNCHANGED vars
  BY <1>1, <1>8 DEF vars, control
<1> QED BY <1>2, <1>3, <1>4, <1>5, <1>6, <1>7, <1>8 DEF Next, ProgramStep

LEMMA InitLocks == Init => LocksHeld
<1> SUFFICES ASSUME Init  PROVE LocksHeld
  OBVIOUS
<1>1. \A t \in Tasks : agenda[t] = <<>>
  BY DEF Init
<1>2. <<>> \in Seq(Frame)
  OBVIOUS
<1>3. \A t \in Tasks, o \in Objects : Unlocks(agenda[t], o) = 0
  BY <1>1, <1>2, UnlocksNat
<1>4. \A o \in Objects : owner[o] = NoTask /\ depth[o] = 0
  BY DEF Init
<1>5. NoTask \notin Tasks
  BY EntriesAssumption DEF Tasks
<1> QED BY <1>3, <1>4, <1>5 DEF LocksHeld, Unlocks

\* An object is entered as often as its owner's agenda unlocks it, and nobody
\* else's unlocks it: the locks of nested requeues balance.
THEOREM LocksBalance == Spec => [](Places /\ LocksHeld)
<1>1. Init => Places /\ LocksHeld
  BY InitPlaces, InitLocks
<1>2. Places /\ LocksHeld /\ [Next]_vars => (Places /\ LocksHeld)'
  BY NextPlaces, NextLocks
<1> QED BY <1>1, <1>2, PTL DEF Spec

\* Types, and that only the owner of an object executes its entry bodies:
\* every frame of an agenda is of an object that its task has locked.
THEOREM TypeCorrect == Spec => []TypeOK
<1>1. Places /\ LocksHeld => TypeOK
  <2> SUFFICES ASSUME Places, LocksHeld  PROVE TypeOK
    OBVIOUS
  <2>1. \A o \in Objects : depth[o] \in Nat
    <3> SUFFICES ASSUME NEW o \in Objects  PROVE depth[o] \in Nat
      OBVIOUS
    <3>1. CASE owner[o] = NoTask
      BY <3>1 DEF LocksHeld
    <3>2. CASE owner[o] # NoTask
      <4>1. owner[o] \in Tasks
        BY <3>2 DEF Places, Typed, ObjectsTyped
      <4>2. agenda[owner[o]] \in Seq(Frame)
        BY <4>1 DEF Places, ControlTyped
      <4>3. Unlocks(agenda[owner[o]], o) \in Nat
        BY <4>2, UnlocksNat
      <4>4. Unlocks(agenda[owner[o]], o) = depth[o]
        BY <4>1 DEF LocksHeld, Unlocks
      <4> QED BY <4>3, <4>4
    <3> QED BY <3>1, <3>2
  <2>2. depth \in [Objects -> Nat]
    BY <2>1 DEF Places, Typed, ObjectsTyped
  <2>3. \A t \in Tasks : \A f \in Frames(t) : owner[f.obj] = t
    BY FramesOwned DEF Frames
  <2>4. \A o \in Objects, e \in Entries : Entry_Queues[o][e] \in Seq(Callers)
    BY QueueTyped DEF Places
  <2> QED BY <2>2, <2>3, <2>4 DEF TypeOK, Places, Typed, RecordTyped, ObjectsTyped, CallersTyped
<1> QED BY <1>1, LocksBalance, PTL

-----------------------------------------------------------------------------
(* What follows a body.                                                    *)

\* Other tasks find of their bodies what they left.
LEMMA OthersBodies ==
  ASSUME Owned, NEW t \in Tasks, \A u \in Tasks : u # t => agenda'[u] = agenda[u],
         \A o \in Objects : owner[o] # t => Call_In_Progress'[o] = Call_In_Progress[o],
         \A c \in Callers : \/ Called_PO'[c] = Called_PO[c] /\ With_Abort'[c] = With_Abort[c]
                            \/ \A u \in Tasks : u # t => ~Serves(u, c),
         AfterBodyOf(t)'
  PROVE  AfterBody'
<1> SUFFICES ASSUME NEW u \in Tasks, u # t, agenda[u] # <<>>, agenda[u][1].act \in {"body", "after"}
             PROVE  AfterBodyOf(u)'
  BY DEF AfterBody, AfterBodyOf
<1>1. agenda[u][1] \in Frame /\ 1 \in 1..Len(agenda[u])
  BY PopProperties DEF Owned, Places, ControlTyped
<1>2. agenda[u][1].obj \in Objects /\ agenda[u][1].call \in Callers
  BY <1>1 DEF Frame
<1>3. owner[agenda[u][1].obj] = u
  BY <1>1, FramesOwned DEF Owned
<1>4. Call_In_Progress'[agenda[u][1].obj] = Call_In_Progress[agenda[u][1].obj]
  BY <1>2, <1>3
<1>5. Serves(u, agenda[u][1].call)
  BY DEF Serves, Acting
<1>6. /\ Called_PO'[agenda[u][1].call] = Called_PO[agenda[u][1].call]
      /\ With_Abort'[agenda[u][1].call] = With_Abort[agenda[u][1].call]
  BY <1>2, <1>5
<1>7. agenda'[u] = agenda[u] /\ AfterBodyOf(u)
  BY DEF Owned, AfterBody
<1> QED BY <1>4, <1>6, <1>7 DEF AfterBodyOf

\* No body ends or begins.
LEMMA NoBody ==
  ASSUME Owned, NEW t \in Tasks, NEW s, agenda' = [agenda EXCEPT ![t] = s],
         s # <<>> => s[1].act \notin {"body", "after"},
         \A o \in Objects : owner[o] # t => Call_In_Progress'[o] = Call_In_Progress[o],
         \A c \in Callers : \/ Called_PO'[c] = Called_PO[c] /\ With_Abort'[c] = With_Abort[c]
                            \/ \A u \in Tasks : u # t => ~Serves(u, c)
  PROVE  AfterBody'
<1>1. \A u \in Tasks : agenda'[u] = IF u = t THEN s ELSE agenda[u]
  BY DEF Owned, Places, ControlTyped
<1>2. AfterBodyOf(t)'
  BY <1>1 DEF AfterBodyOf
<1> QED BY <1>1, <1>2, OthersBodies

\* A body begins: its call is the one in progress.
LEMMA BodyBegins ==
  ASSUME Owned, NEW t \in Tasks, NEW s, agenda' = [agenda EXCEPT ![t] = s],
         NEW o \in Objects, owner[o] = t, NEW c,
         s # <<>>, s[1].act = "body", s[1].obj = o, s[1].call = c,
         Call_In_Progress' = [Call_In_Progress EXCEPT ![o] = c],
         UNCHANGED <<Called_PO, With_Abort>>
  PROVE  AfterBody'
<1>1. \A u \in Tasks : agenda'[u] = IF u = t THEN s ELSE agenda[u]
  BY DEF Owned, Places, ControlTyped
<1>2. \A p \in Objects : Call_In_Progress'[p] = IF p = o THEN c ELSE Call_In_Progress[p]
  BY DEF Owned, Places, Typed, ObjectsTyped
<1>3. AfterBodyOf(t)'
  BY <1>1, <1>2 DEF AfterBodyOf
<1>4. \A p \in Objects : owner[p] # t => Call_In_Progress'[p] = Call_In_Progress[p]
  BY <1>2
<1> QED BY <1>1, <1>3, <1>4, OthersBodies

\* The first frame of t, owned by t.
LEMMA FirstOwned ==
  ASSUME Owned, NEW t \in Tasks, agenda[t] # <<>>
  PROVE  /\ First(t) = agenda[t][1] /\ First(t).obj \in Objects /\ owner[First(t).obj] = t
         /\ First(t).act \in Acting => First(t).call \in Callers /\ Serves(t, First(t).call)
         /\ First(t).act \in {"body", "after"} => First(t).serving \in BOOLEAN
         /\ Rest(t) \in Seq(Frame)
         /\ Rest(t) # <<>> => Rest(t)[1].act \notin Acting
<1>1. agenda[t] \in Seq(Frame) /\ 1 \in 1..Len(agenda[t])
  BY PopProperties DEF Owned, Places, ControlTyped
<1>2. /\ First(t) = agenda[t][1] /\ First(t).obj \in Objects
      /\ First(t).act \in Acting => First(t).call \in Callers /\ Serves(t, First(t).call)
      /\ First(t).act \in {"body", "after"} => First(t).serving \in BOOLEAN
      /\ Rest(t) \in Seq(Frame)
      /\ Rest(t) # <<>> => Rest(t)[1].act \notin Acting
  BY FirstFrame DEF Owned, Places, First, Rest, Acting
<1>3. owner[agenda[t][1].obj] = t
  BY <1>1, FramesOwned DEF Owned
<1> QED BY <1>2, <1>3

LEMMA ServerAfterBody ==
  ASSUME Owned, NEW t \in Tasks, ServerStep(t)
  PROVE  AfterBody'
<1> DEFINE f == First(t)
           s == Rest(t)
<1>1. agenda[t] # <<>>
  BY DEF ServerStep, DoBegin, DoQueue, ReadState, Enqueue, DoCancel, BodyCompletes, BodyRequeues, AfterDone,
         RequeueOther, RequeueSame, AfterRequeue, ServiceSelect, ServiceEnd, At
<1>2. /\ f = agenda[t][1] /\ f.obj \in Objects /\ owner[f.obj] = t
      /\ f.act \in Acting => f.call \in Callers /\ Serves(t, f.call)
      /\ f.act \in {"body", "after"} => f.serving \in BOOLEAN
      /\ s \in Seq(Frame)
      /\ s # <<>> => s[1].act \notin {"body", "after"}
  BY <1>1, FirstOwned DEF Acting
<1>3. Places /\ <<>> \o s = s
  BY <1>2, NothingPushed DEF Owned
<1>4. ASSUME f.act = "after",
             Call_In_Progress' = [Call_In_Progress EXCEPT ![f.obj] = NoTask]
      PROVE  \A o \in Objects : owner[o] # t => Call_In_Progress'[o] = Call_In_Progress[o]
  BY <1>2, <1>4 DEF Owned, Places, Typed, ObjectsTyped
<1> HIDE DEF f, s
<1>5. CASE DoBegin(t)
  <2> DEFINE x == Body(f.obj, f.call, FALSE)
             r == <<x>> \o s
  <2>1. /\ f.act = "do" /\ agenda' = [agenda EXCEPT ![t] = r]
        /\ Call_In_Progress' = [Call_In_Progress EXCEPT ![f.obj] = f.call]
        /\ UNCHANGED <<Called_PO, With_Abort>>
    BY <1>5 DEF DoBegin, At, Continue, f, s, First, Rest
  <2>2. x \in Frame /\ x.act = "body" /\ x.obj = f.obj /\ x.call = f.call
    BY <1>2, <2>1 DEF Body, Frame, Acting
  <2> HIDE DEF x
  <2>3. r # <<>> /\ r[1] = x
    BY <1>2, <2>2, PushProperties
  <2> HIDE DEF r
  <2>4. r # <<>> /\ r[1].act = "body" /\ r[1].obj = f.obj /\ r[1].call = f.call
    BY <2>2, <2>3
  <2> QED BY <1>2, <2>1, <2>4, BodyBegins
<1>6. CASE Enqueue(t) \/ DoCancel(t)
  <2>1. agenda' = [agenda EXCEPT ![t] = s] /\ UNCHANGED <<Call_In_Progress, Called_PO, With_Abort>>
    BY <1>3, <1>6 DEF Enqueue, DoCancel, Continue, objects, s, Rest
  <2> QED BY <1>2, <2>1, NoBody
<1>7. CASE BodyCompletes(t)
  <2> DEFINE x == After(f.obj, f.call, f.serving)
             r == <<x>> \o s
  <2>1. /\ f.act = "body" /\ agenda' = [agenda EXCEPT ![t] = r]
        /\ UNCHANGED <<Call_In_Progress, Called_PO, With_Abort>>
    BY <1>7 DEF BodyCompletes, At, Continue, record, f, s, First, Rest
  <2>2. x \in Frame /\ x.act = "after" /\ x.obj = f.obj
    BY <1>2, <2>1 DEF After, Frame, Acting
  <2> HIDE DEF x
  <2>3. r # <<>> /\ r[1] = x
    BY <1>2, <2>2, PushProperties
  <2> HIDE DEF r
  <2>4. Call_In_Progress[f.obj] # NoTask
    <3>1. Call_In_Progress[f.obj] = f.call /\ f.call \in Callers
      BY <1>1, <1>2, <2>1 DEF Owned, AfterBody, AfterBodyOf, Acting
    <3> QED BY <3>1, EntriesAssumption
  <2>5. \A u \in Tasks : agenda'[u] = IF u = t THEN r ELSE agenda[u]
    BY <2>1 DEF Owned, Places, ControlTyped
  <2>6. AfterBodyOf(t)'
    BY <2>1, <2>2, <2>3, <2>4, <2>5 DEF AfterBodyOf
  <2> QED BY <2>1, <2>5, <2>6, OthersBodies
<1>8. ASSUME NEW r0 \in Requeues, NEW e \in Entries, BodyRequeues(t, r0, e)
      PROVE  AfterBody'
  <2> DEFINE x == After(f.obj, f.call, f.serving)
             r == <<x>> \o s
  <2>1. /\ f.act = "body" /\ agenda' = [agenda EXCEPT ![t] = r] /\ r0.from = f.obj
        /\ Called_PO' = [Called_PO EXCEPT ![f.call] = r0.to]
        /\ With_Abort' = [With_Abort EXCEPT ![f.call] = r0.with_abort]
        /\ Call_In_Progress' = [Call_In_Progress EXCEPT ![f.obj] = NoTask]
    BY <1>8 DEF BodyRequeues, At, Continue, f, s, First, Rest
  <2>2. x \in Frame /\ x.act = "after" /\ x.obj = f.obj /\ x.call = f.call
    BY <1>2, <2>1 DEF After, Frame, Acting
  <2> HIDE DEF x
  <2>3. r # <<>> /\ r[1] = x
    BY <1>2, <2>2, PushProperties
  <2> HIDE DEF r
  <2>4. f.call \in Callers /\ Serves(t, f.call)
    BY <1>2, <2>1 DEF Acting
  <2>5. \A u \in Tasks : agenda'[u] = IF u = t THEN r ELSE agenda[u]
    BY <2>1 DEF Owned, Places, ControlTyped
  <2>6. Called_PO'[f.call] = r0.to /\ With_Abort'[f.call] = r0.with_abort
    BY <2>1, <2>4 DEF Owned, Places, Typed, RecordTyped
  <2>7. [from |-> f.obj, to |-> r0.to, with_abort |-> r0.with_abort] \in Requeues
    <3>1. r0 \in [from : Objects, to : Objects, with_abort : BOOLEAN]
      BY EntriesAssumption
    <3>2. r0 = [from |-> r0.from, to |-> r0.to, with_abort |-> r0.with_abort]
      BY <3>1
    <3> QED BY <2>1, <3>2
  <2>8. AfterBodyOf(t)'
    BY <2>2, <2>3, <2>5, <2>6, <2>7 DEF AfterBodyOf
  <2>9. \A c \in Callers : \/ Called_PO'[c] = Called_PO[c] /\ With_Abort'[c] = With_Abort[c]
                           \/ \A u \in Tasks : u # t => ~Serves(u, c)
    <3> SUFFICES ASSUME NEW c \in Callers
                 PROVE  \/ Called_PO'[c] = Called_PO[c] /\ With_Abort'[c] = With_Abort[c]
                        \/ \A u \in Tasks : u # t => ~Serves(u, c)
      OBVIOUS
    <3>1. CASE c = f.call
      BY <2>4, <3>1 DEF Owned, Places, ServedByOne
    <3>2. CASE c # f.call
      BY <2>1, <3>2 DEF Owned, Places, Typed, RecordTyped
    <3> QED BY <3>1, <3>2
  <2>10. \A o \in Objects : owner[o] # t => Call_In_Progress'[o] = Call_In_Progress[o]
    BY <1>2, <2>1 DEF Owned, Places, Typed, ObjectsTyped
  <2> QED BY <2>5, <2>8, <2>9, <2>10, OthersBodies
<1>9. CASE AfterDone(t)
  <2>1. /\ agenda' = [agenda EXCEPT ![t] = s] /\ UNCHANGED <<Called_PO, With_Abort>>
        /\ f.act = "after" /\ Call_In_Progress' = [Call_In_Progress EXCEPT ![f.obj] = NoTask]
    BY <1>3, <1>9 DEF AfterDone, At, Continue, f, s, First, Rest
  <2> QED BY <1>2, <1>4, <2>1, NoBody
<1>10. CASE RequeueOther(t)
  <2>1. UNCHANGED <<Call_In_Progress, Called_PO, With_Abort>>
    BY <1>10 DEF RequeueOther, record, objects
  <2>2. \E r : Agenda(t, r) /\ r[1].act = "do"
    BY <1>3, <1>10, RequeueOtherFrames
  <2>3. PICK r : Agenda(t, r) /\ r[1].act = "do"
    BY <2>2
  <2>4. agenda' = [agenda EXCEPT ![t] = r] /\ r[1].act \notin {"body", "after"}
    BY <2>3 DEF Agenda
  <2> QED BY <2>1, <2>4, NoBody
<1>11. CASE RequeueSame(t)
  <2>1. First(t).call \in Callers /\ Requeued(t)[1].act \notin Acting
    BY <1>3, <1>11, AfterFrame DEF RequeueSame
  <2>2. /\ UNCHANGED <<Call_In_Progress, Called_PO, With_Abort>>
        /\ \E r : Agenda(t, r) /\ (r[1].act \in {"do", "queue"} \/ r = Requeued(t))
    BY <1>3, <1>11, <2>1, RequeueSameCases DEF objects
  <2>3. PICK r : Agenda(t, r) /\ (r[1].act \in {"do", "queue"} \/ r = Requeued(t))
    BY <2>2
  <2>4. agenda' = [agenda EXCEPT ![t] = r] /\ r[1].act \notin {"body", "after"}
    BY <2>1, <2>3 DEF Agenda, Acting
  <2> QED BY <2>2, <2>4, NoBody
<1>12. CASE AfterRequeue(t)
  <2>1. At(t, "check") /\ f.act = "check" /\ UNCHANGED <<Call_In_Progress, Called_PO, With_Abort>>
    BY <1>12 DEF AfterRequeue, At, f, First, record, objects
  <2>2. \E r : /\ agenda' = [agenda EXCEPT ![t] = r]
               /\ r = Tail(s) \/ r = s
    BY <1>3, <1>12 DEF AfterRequeue, Continue, s, Rest, Owned, Places, ControlTyped
  <2>3. Tail(s) # <<>> => Tail(s)[1].act \notin Acting
    BY <1>3, <2>1, OtherFrame DEF f, s
  <2>4. PICK r : /\ agenda' = [agenda EXCEPT ![t] = r]
                 /\ r # <<>> => r[1].act \notin {"body", "after"}
    BY <1>2, <2>2, <2>3 DEF Acting
  <2> QED BY <2>1, <2>4, NoBody
<1>13. ASSUME NEW e \in Entries, ServiceSelect(t, e)  PROVE AfterBody'
  <2> DEFINE c == Head(Served(t, e))
             x == Body(f.obj, c, TRUE)
             r == <<x>> \o agenda[t]
  <2>1. c \in Callers
    BY <1>3, <1>13, SelectedCall
  <2>2. /\ agenda' = [agenda EXCEPT ![t] = r]
        /\ Call_In_Progress' = [Call_In_Progress EXCEPT ![f.obj] = c]
        /\ UNCHANGED <<Called_PO, With_Abort>>
    BY <1>13 DEF ServiceSelect, Served, f, First
  <2> HIDE DEF c
  <2>3. x \in Frame /\ x.act = "body" /\ x.obj = f.obj /\ x.call = c
    BY <1>2, <2>1 DEF Body, Frame
  <2> HIDE DEF x
  <2>4. r # <<>> /\ r[1] = x
    <3>1. agenda[t] \in Seq(Frame)
      BY DEF Owned, Places, ControlTyped
    <3> QED BY <2>3, <3>1, PushProperties
  <2> HIDE DEF r
  <2>5. r # <<>> /\ r[1].act = "body" /\ r[1].obj = f.obj /\ r[1].call = c
    BY <2>3, <2>4
  <2> QED BY <1>2, <2>2, <2>5, BodyBegins
<1>14. CASE ServiceEnd(t)
  <2>1. agenda' = [agenda EXCEPT ![t] = s] /\ UNCHANGED <<Call_In_Progress, Called_PO, With_Abort>>
    BY <1>3, <1>14 DEF ServiceEnd, Continue, record, objects, s, Rest
  <2> QED BY <1>2, <2>1, NoBody
<1>15. CASE DoQueue(t) \/ ReadState(t)
  <2>1. UNCHANGED <<Call_In_Progress, Called_PO, With_Abort>>
    BY <1>15 DEF DoQueue, ReadState, record, objects
  <2>2. \E r : Agenda(t, r) /\ r[1].act \in {"queue", "update"}
    BY <1>3, <1>15, TriedFrame
  <2>3. PICK r : Agenda(t, r) /\ r[1].act \in {"queue", "update"}
    BY <2>2
  <2>4. agenda' = [agenda EXCEPT ![t] = r] /\ r[1].act \notin {"body", "after"}
    BY <2>3 DEF Agenda
  <2> QED BY <2>1, <2>4, NoBody
<1> QED BY <1>5, <1>6, <1>7, <1>8, <1>9, <1>10, <1>11, <1>12, <1>13, <1>14, <1>15 DEF ServerStep

LEMMA NextAfterBody == Owned /\ [Next]_vars => AfterBody'
<1> SUFFICES ASSUME Owned, [Next]_vars  PROVE AfterBody'
  OBVIOUS
<1>1. CASE UNCHANGED <<agenda, Call_In_Progress, Called_PO, With_Abort>>
  BY <1>1 DEF Owned, AfterBody, AfterBodyOf
<1>2. ASSUME NEW s \in Setters, NEW o \in Objects, NEW b \in SUBSET Entries, CallProcedure(s, o, b)
      PROVE  AfterBody'
  <2>1. s \in Tasks
    BY DEF Tasks
  <2>2. /\ agenda' = [agenda EXCEPT ![s] = <<Service(o)>>]
        /\ UNCHANGED <<Call_In_Progress, Called_PO, With_Abort>>
    BY <1>2 DEF CallProcedure, record
  <2>3. <<Service(o)>>[1].act \notin {"body", "after"}
    BY ServiceFrame DEF Acting
  <2> QED BY <2>1, <2>2, <2>3, NoBody
<1>3. ASSUME NEW c \in Callers, NEW m \in Modes, NEW o \in Objects, NEW e \in Entries,
             NEW d \in Deferred, CallEntry(c, m, o, e, d)
      PROVE  AfterBody'
  <2>1. c \in Tasks
    BY DEF Tasks
  <2>2. /\ pc[c] = "idle" /\ agenda' = [agenda EXCEPT ![c] = Retry(o, c)]
        /\ Called_PO' = [Called_PO EXCEPT ![c] = o]
        /\ With_Abort' = [With_Abort EXCEPT ![c] = TRUE]
        /\ UNCHANGED Call_In_Progress
    BY <1>3 DEF CallEntry, Go, Retry, objects
  <2>3. Retry(o, c)[1].act \notin {"body", "after"}
    BY CallFrames
  <2>4. \A u \in Tasks : ~Serves(u, c)
    BY <2>1, <2>2, NotCalling DEF Owned, Placed, Waiting
  <2>5. \A x \in Callers : \/ Called_PO'[x] = Called_PO[x] /\ With_Abort'[x] = With_Abort[x]
                           \/ \A u \in Tasks : u # c => ~Serves(u, x)
    BY <2>2, <2>4 DEF Owned, Places, Typed, RecordTyped
  <2> QED BY <2>1, <2>2, <2>3, <2>5, NoBody
<1>4. ASSUME NEW c \in Callers, CancelCall(c)  PROVE AfterBody'
  <2>1. c \in Tasks /\ Test_PO[c] \in Objects
    BY DEF Tasks, Owned, Places, Typed, CallersTyped
  <2>2. /\ agenda' = [agenda EXCEPT ![c] = <<Service(Test_PO[c])>>]
        /\ UNCHANGED <<Call_In_Progress, Called_PO, With_Abort>>
    BY <1>4 DEF CancelCall
  <2>3. <<Service(Test_PO[c])>>[1].act \notin {"body", "after"}
    BY <2>1, ServiceFrame DEF Acting
  <2> QED BY <2>1, <2>2, <2>3, NoBody
<1>5. ASSUME NEW c \in Callers, Leave(c)  PROVE AfterBody'
  <2>1. c \in Tasks
    BY DEF Tasks
  <2>2. /\ pc[c] = "leaving"
        /\ Called_PO' = [Called_PO EXCEPT ![c] = AnyObject]
        /\ With_Abort' = [With_Abort EXCEPT ![c] = TRUE]
        /\ UNCHANGED <<agenda, Call_In_Progress>>
    BY <1>5 DEF Leave, Go, objects
  <2>3. agenda[c] = <<>> /\ \A u \in Tasks : ~Serves(u, c)
    BY <2>1, <2>2, NotCalling DEF Owned, Placed, Waiting
  <2>4. \A x \in Callers : \/ Called_PO'[x] = Called_PO[x] /\ With_Abort'[x] = With_Abort[x]
                           \/ \A u \in Tasks : u # c => ~Serves(u, x)
    BY <2>2, <2>3 DEF Owned, Places, Typed, RecordTyped
  <2>5. AfterBodyOf(c)'
    BY <2>2, <2>3 DEF AfterBodyOf
  <2> QED BY <2>1, <2>2, <2>4, <2>5, OthersBodies
<1>6. CASE \E s \in Setters : ReturnProcedure(s)
  BY <1>1, <1>6 DEF ReturnProcedure, record, objects
<1>7. ASSUME NEW c \in Callers, CallerStep(c) \/ TimeOut(c) \/ AbortTask(c), ~CancelCall(c), ~Leave(c)
      PROVE  AfterBody'
  BY <1>1, <1>7 DEF CallerStep, AfterCall, Relock, PollCancel, PollOver, PollSleep, Wake, TimeOut,
                    TestState, MarkAbortable, LockServerAgain, DoNotCancel, AfterCancel, AbortTask, control, record, objects
<1>8. CASE UNCHANGED vars
  BY <1>1, <1>8 DEF vars, control, record, objects
<1> QED BY <1>2, <1>3, <1>4, <1>5, <1>6, <1>7, <1>8, ServerAfterBody DEF Next, ProgramStep

\* The inductive invariant with the locks: a task's bodies are of objects it
\* owns, and a call that is requeued goes where a requeue statement says.
THEOREM OwnedInvariant == Spec => []Owned
<1>1. Init => Owned
  <2>1. Init => AfterBody
    BY DEF Init, AfterBody, AfterBodyOf
  <2> QED BY <2>1, InitPlaces, InitLocks DEF Owned
<1>2. Owned /\ [Next]_vars => Owned'
  <2>1. Owned /\ [Next]_vars => Places' /\ LocksHeld'
    BY NextPlaces, NextLocks DEF Owned
  <2> QED BY <2>1, NextAfterBody DEF Owned
<1> QED BY <1>1, <1>2, PTL DEF Spec

-----------------------------------------------------------------------------
(* The barriers are checked before an object is unlocked.                  *)

\* PO_Service_Entries leaves its loop because the requeued call is cancelled.
LeavesLoop(t) == AfterRequeue(t) /\ State[Head(agenda[t]).call] = "Cancelled"

\* A step of t that leaves the objects of others alone, and unlocks nothing.
LEMMA StillClosed ==
  ASSUME ObjectsTyped, NoOpenEntryLeft, NEW t \in Tasks,
         \A o \in Objects : owner'[o] = NoTask =>
           /\ owner[o] = NoTask
           /\ open'[o] = open[o]
           /\ \A e \in Entries : Entry_Queues[o][e] = <<>> => Entry_Queues'[o][e] = <<>>
  PROVE  NoOpenEntryLeft'
  BY DEF NoOpenEntryLeft, Selectable

LEMMA LockOwner ==
  ASSUME ObjectsTyped, NEW t \in Tasks, NEW o \in Objects, Lock(t, o)
  PROVE  \A p \in Objects : owner'[p] = NoTask => owner[p] = NoTask /\ p # o
  BY EntriesAssumption DEF Lock, ObjectsTyped, Tasks

\* The queues, but for that of o, are as before.
LEMMA QueueOwner ==
  ASSUME ObjectsTyped, NEW o \in Objects, NEW e \in Entries, NEW q,
         Entry_Queues' = [Entry_Queues EXCEPT ![o][e] = q]
  PROVE  \A p \in Objects : p # o => Entry_Queues'[p] = Entry_Queues[p]
  BY DEF ObjectsTyped

LEMMA NextClosed ==
  ASSUME Owned, NoOpenEntryLeft, [Next]_vars, \A t \in Tasks : ~LeavesLoop(t)
  PROVE  NoOpenEntryLeft'
<1>1. ObjectsTyped /\ NoTask \notin Tasks /\ Places
  BY EntriesAssumption DEF Owned, Places, Typed, Tasks
<1>2. CASE UNCHANGED <<owner, open, Entry_Queues>>
  BY <1>2 DEF NoOpenEntryLeft, Selectable
<1>3. ASSUME NEW s \in Setters, NEW o \in Objects, NEW b \in SUBSET Entries, CallProcedure(s, o, b)
      PROVE  NoOpenEntryLeft'
  <2>1. s \in Tasks
    BY DEF Tasks
  <2>2. Lock(s, o) /\ open' = [open EXCEPT ![o] = b] /\ UNCHANGED Entry_Queues
    BY <1>3 DEF CallProcedure
  <2>3. \A p \in Objects : p # o => open'[p] = open[p]
    BY <1>1, <2>2 DEF ObjectsTyped
  <2> QED BY <1>1, <2>1, <2>2, <2>3, LockOwner, StillClosed
<1>4. ASSUME NEW c \in Callers, NEW m \in Modes, NEW o \in Objects, NEW e \in Entries,
             NEW d \in Deferred, CallEntry(c, m, o, e, d)
      PROVE  NoOpenEntryLeft'
  <2>1. c \in Tasks
    BY DEF Tasks
  <2>2. Lock(c, o) /\ UNCHANGED <<open, Entry_Queues>>
    BY <1>4 DEF CallEntry, objects
  <2> QED BY <1>1, <2>1, <2>2, LockOwner, StillClosed
<1>5. ASSUME NEW c \in Callers, CancelCall(c)  PROVE NoOpenEntryLeft'
  <2>1. c \in Tasks /\ Test_PO[c] \in Objects /\ E[c] \in Entries
    BY DEF Tasks, Owned, Places, Typed, RecordTyped, CallersTyped
  <2>2. Lock(c, Test_PO[c]) /\ UNCHANGED open
    BY <1>5 DEF CancelCall
  <2>3. \A p \in Objects : p # Test_PO[c] => Entry_Queues'[p] = Entry_Queues[p]
    BY <1>1, <1>5, <2>1 DEF CancelCall, Dequeue_Call, ObjectsTyped
  <2> QED BY <1>1, <2>1, <2>2, <2>3, LockOwner, StillClosed
<1>6. ASSUME NEW t \in Tasks, ServerStep(t)  PROVE NoOpenEntryLeft'
  <2> DEFINE f == First(t)
  <2>1. agenda[t] # <<>>
    BY <1>6 DEF ServerStep, DoBegin, DoQueue, ReadState, Enqueue, DoCancel, BodyCompletes, BodyRequeues, AfterDone,
                RequeueOther, RequeueSame, AfterRequeue, ServiceSelect, ServiceEnd, At
  <2>2. /\ f.obj \in Objects /\ owner[f.obj] = t
        /\ f.act \in Acting => f.call \in Callers /\ E[f.call] \in Entries
    BY <2>1, FirstOwned DEF Owned, Places, Typed, RecordTyped
  <2>3. ASSUME UNCHANGED owner, \A p \in Objects : p # f.obj => open'[p] = open[p],
               \A p \in Objects : p # f.obj => Entry_Queues'[p] = Entry_Queues[p]
        PROVE  NoOpenEntryLeft'
    BY <1>1, <2>2, <2>3, StillClosed
  <2>4. CASE DoBegin(t) \/ DoQueue(t) \/ DoCancel(t) \/ ReadState(t) \/ AfterDone(t) \/ RequeueSame(t)
    BY <1>2, <2>4 DEF DoBegin, DoQueue, DoCancel, ReadState, AfterDone, RequeueSame, locks, objects
  <2>5. CASE Enqueue(t)
    <3>1. /\ UNCHANGED <<owner, open>> /\ f.act \in Acting
          /\ Entry_Queues' = [Entry_Queues EXCEPT ![f.obj][E[f.call]] = Append(@, f.call)]
      BY <2>5 DEF Enqueue, At, locks, f, First, Acting
    <3>2. \A p \in Objects : p # f.obj => Entry_Queues'[p] = Entry_Queues[p]
      BY <1>1, <2>2, <3>1 DEF ObjectsTyped
    <3> QED BY <2>3, <3>1, <3>2
  <2>6. CASE BodyCompletes(t) \/ \E r \in Requeues, e \in Entries : BodyRequeues(t, r, e)
    <3>1. UNCHANGED <<owner, Entry_Queues>> /\ \E b \in SUBSET Entries : open' = [open EXCEPT ![f.obj] = b]
      BY <2>6 DEF BodyCompletes, BodyRequeues, locks, f, First
    <3>2. \A p \in Objects : p # f.obj => open'[p] = open[p]
      BY <1>1, <2>2, <3>1 DEF ObjectsTyped
    <3> QED BY <2>3, <3>1, <3>2
  <2>7. CASE RequeueOther(t)
    <3>1. Target(t) \in Objects
      BY <1>1, <2>7, RequeueOtherFrames
    <3>2. Lock(t, Target(t)) /\ UNCHANGED <<open, Entry_Queues>>
      BY <2>7 DEF RequeueOther, Target, First, objects
    <3> QED BY <1>1, <3>1, <3>2, LockOwner, StillClosed
  <2>9. CASE AfterRequeue(t)
    BY <1>2, <2>9 DEF AfterRequeue, LeavesLoop, locks, objects
  <2>10. ASSUME NEW e \in Entries, ServiceSelect(t, e)  PROVE NoOpenEntryLeft'
    <3>1. /\ UNCHANGED <<owner, open>>
          /\ Entry_Queues' = [Entry_Queues EXCEPT ![f.obj][e] = Tail(@)]
      BY <2>10 DEF ServiceSelect, locks, f, First
    <3>2. \A p \in Objects : p # f.obj => Entry_Queues'[p] = Entry_Queues[p]
      BY <1>1, <2>2, <3>1 DEF ObjectsTyped
    <3> QED BY <2>3, <3>1, <3>2
  <2>11. CASE ServiceEnd(t)
    <3>1. /\ \A e \in Entries : ~Selectable(f.obj, e)
          /\ Unlock(f.obj) /\ UNCHANGED <<open, Entry_Queues>>
      BY <2>11 DEF ServiceEnd, f, First, objects
    <3>2. \A p \in Objects : p # f.obj => owner'[p] = owner[p]
      BY <1>1, <2>2, <3>1 DEF Unlock, ObjectsTyped
    <3> QED BY <3>1, <3>2 DEF NoOpenEntryLeft, Selectable
  <2> QED BY <1>6, <2>4, <2>5, <2>6, <2>7, <2>9, <2>10, <2>11 DEF ServerStep
<1>7. CASE \E s \in Setters : ReturnProcedure(s)
  BY <1>2, <1>7 DEF ReturnProcedure, locks, objects
<1>8. ASSUME NEW c \in Callers, CallerStep(c) \/ TimeOut(c) \/ AbortTask(c), ~CancelCall(c)
      PROVE  NoOpenEntryLeft'
  BY <1>2, <1>8 DEF CallerStep, AfterCall, Relock, PollCancel, PollOver, PollSleep, Wake, TimeOut,
                    TestState, MarkAbortable, LockServerAgain, DoNotCancel, AfterCancel, Leave, AbortTask, locks, objects
<1>9. CASE UNCHANGED vars
  BY <1>2, <1>9 DEF vars, locks, objects
<1> QED BY <1>3, <1>4, <1>5, <1>6, <1>7, <1>8, <1>9 DEF Next, ProgramStep

\* PO_Service_Entries "keeps checking barriers until all of them are closed"
\* (s-tpobop.ads:104-106), with the one exception its code has: no object is
\* left unlocked with a call queued on an open entry but by the exit of the loop
\* when a requeued call is cancelled.
THEOREM BarriersChecked ==
  Spec => [][NoOpenEntryLeft => NoOpenEntryLeft' \/ \E t \in Tasks : LeavesLoop(t)]_vars
<1>1. Owned /\ [Next]_vars =>
        [NoOpenEntryLeft => NoOpenEntryLeft' \/ \E t \in Tasks : LeavesLoop(t)]_vars
  BY NextClosed
<1> QED BY <1>1, OwnedInvariant, PTL DEF Spec

\* With no requeue statement nothing is looked at after a requeue.
NoChecks(s) == \A i \in 1..Len(s) : s[i].act # "check"

NothingChecked == \A t \in Tasks : NoChecks(agenda[t])

LEMMA ChecksPush ==
  ASSUME NEW s \in Seq(Frame), NoChecks(s), NEW x \in Frame, x.act # "check"
  PROVE  NoChecks(<<x>> \o s)
<1> DEFINE r == <<x>> \o s
<1>1. /\ Len(s) \in Nat /\ Len(r) = Len(s) + 1 /\ r[1] = x
      /\ \A i \in 1..Len(s) : r[i + 1] = s[i]
  BY PushProperties
<1> HIDE DEF r
<1>2. ASSUME NEW i \in 1..Len(r), i # 1  PROVE r[i].act # "check"
  <2>1. i - 1 \in 1..Len(s) /\ (i - 1) + 1 = i
    BY <1>1, <1>2
  <2>2. r[i] = s[i - 1]
    BY <1>1, <2>1
  <2> QED BY <2>1, <2>2 DEF NoChecks
<1> QED BY <1>1, <1>2 DEF NoChecks, r

LEMMA ChecksPop ==
  ASSUME NEW s \in Seq(Frame), s # <<>>, NoChecks(s)
  PROVE  NoChecks(Tail(s))
<1>1. /\ Len(s) \in Nat \ {0} /\ Len(Tail(s)) = Len(s) - 1
      /\ \A i \in 1..Len(s) - 1 : Tail(s)[i] = s[i + 1]
  BY PopProperties
<1>2. \A i \in 1..Len(s) - 1 : i + 1 \in 1..Len(s)
  BY <1>1
<1> QED BY <1>1, <1>2 DEF NoChecks

LEMMA NextNothingChecked ==
  ASSUME Requeues = {}, Owned, NothingChecked, [Next]_vars
  PROVE  NothingChecked'
<1>1. CASE UNCHANGED agenda
  BY <1>1 DEF NothingChecked, NoChecks
<1>2. ASSUME NEW t \in Tasks, NEW s, agenda' = [agenda EXCEPT ![t] = s], NoChecks(s)
      PROVE  NothingChecked'
  <2>1. \A u \in Tasks : agenda'[u] = IF u = t THEN s ELSE agenda[u]
    BY <1>2 DEF Owned, Places, ControlTyped
  <2> QED BY <1>2, <2>1 DEF NothingChecked, NoChecks
<1>3. \A o \in Objects : NoChecks(<<Service(o)>>)
  BY DEF NoChecks, Service
<1>4. \A o \in Objects, c \in Callers : NoChecks(Retry(o, c))
  BY DEF NoChecks, Retry, Do, Service
<1>5. ASSUME NEW s \in Setters, NEW o \in Objects, NEW b \in SUBSET Entries, CallProcedure(s, o, b)
      PROVE  NothingChecked'
  BY <1>2, <1>3, <1>5 DEF CallProcedure, Tasks
<1>6. ASSUME NEW c \in Callers, NEW m \in Modes, NEW o \in Objects, NEW e \in Entries,
             NEW d \in Deferred, CallEntry(c, m, o, e, d)
      PROVE  NothingChecked'
  BY <1>2, <1>4, <1>6 DEF CallEntry, Tasks, Retry
<1>7. ASSUME NEW c \in Callers, CancelCall(c)  PROVE NothingChecked'
  <2>1. c \in Tasks /\ Test_PO[c] \in Objects
    BY DEF Tasks, Owned, Places, Typed, CallersTyped
  <2> QED BY <1>2, <1>3, <1>7, <2>1 DEF CancelCall
<1>8. ASSUME NEW t \in Tasks, ServerStep(t)  PROVE NothingChecked'
  <2> DEFINE f == First(t)
             s == Rest(t)
  <2>1. agenda[t] # <<>>
    BY <1>8 DEF ServerStep, DoBegin, DoQueue, ReadState, Enqueue, DoCancel, BodyCompletes, BodyRequeues, AfterDone,
                RequeueOther, RequeueSame, AfterRequeue, ServiceSelect, ServiceEnd, At
  <2>2. /\ f = agenda[t][1] /\ f.obj \in Objects
        /\ f.act \in Acting => f.call \in Callers
        /\ f.act \in {"body", "after"} => f.serving \in BOOLEAN
        /\ s \in Seq(Frame) /\ agenda[t] \in Seq(Frame)
    BY <2>1, FirstOwned DEF Owned, Places, ControlTyped
  <2>3. NoChecks(agenda[t]) /\ NoChecks(s) /\ <<>> \o s = s
    BY <2>1, <2>2, ChecksPop, NothingPushed DEF NothingChecked, Rest
  <2>4. Places
    BY DEF Owned
  <2> HIDE DEF f, s
  <2>5. CASE DoBegin(t)
    <3>1. f.act = "do" /\ agenda' = [agenda EXCEPT ![t] = <<Body(f.obj, f.call, FALSE)>> \o s]
      BY <2>5 DEF DoBegin, At, Continue, f, s, First, Rest
    <3>2. Body(f.obj, f.call, FALSE) \in Frame /\ Body(f.obj, f.call, FALSE).act # "check"
      BY <2>2, <3>1 DEF Body, Frame, Acting
    <3> QED BY <1>2, <2>2, <2>3, <3>1, <3>2, ChecksPush
  <2>6. CASE Enqueue(t) \/ DoCancel(t) \/ AfterDone(t) \/ ServiceEnd(t)
    <3>1. agenda' = [agenda EXCEPT ![t] = s]
      BY <2>3, <2>6 DEF Enqueue, DoCancel, AfterDone, ServiceEnd, Continue, s, Rest
    <3> QED BY <1>2, <2>3, <3>1
  <2>7. CASE BodyCompletes(t)
    <3>1. /\ f.act = "body"
          /\ agenda' = [agenda EXCEPT ![t] = <<After(f.obj, f.call, f.serving)>> \o s]
      BY <2>7 DEF BodyCompletes, At, Continue, f, s, First, Rest
    <3>2. After(f.obj, f.call, f.serving) \in Frame /\ After(f.obj, f.call, f.serving).act # "check"
      BY <2>2, <3>1 DEF After, Frame, Acting
    <3> QED BY <1>2, <2>2, <2>3, <3>1, <3>2, ChecksPush
  <2>8. CASE RequeueOther(t) \/ RequeueSame(t)
    <3>1. f.act = "after" /\ Call_In_Progress[f.obj] = NoTask
      BY <2>8 DEF RequeueOther, RequeueSame, At, f, First
    <3> QED BY <2>1, <2>2, <3>1 DEF Owned, AfterBody, AfterBodyOf
  <2>9. CASE AfterRequeue(t)
    <3>1. f.act = "check" /\ 1 \in 1..Len(agenda[t])
      BY <2>1, <2>2, <2>9, PopProperties DEF AfterRequeue, At, f, First
    <3> QED BY <2>2, <2>3, <3>1 DEF NoChecks
  <2>10. ASSUME NEW e \in Entries, ServiceSelect(t, e)  PROVE NothingChecked'
    <3> DEFINE c == Head(Served(t, e))
               x == Body(f.obj, c, TRUE)
    <3>1. c \in Callers
      BY <2>4, <2>10, SelectedCall
    <3>2. agenda' = [agenda EXCEPT ![t] = <<x>> \o agenda[t]]
      BY <2>10 DEF ServiceSelect, Served, f, First
    <3> HIDE DEF c
    <3>3. x \in Frame /\ x.act # "check"
      BY <2>2, <3>1 DEF Body, Frame
    <3> HIDE DEF x
    <3> QED BY <1>2, <2>2, <2>3, <3>2, <3>3, ChecksPush
  <2>11. CASE DoQueue(t)
    <3>1. f.act = "do" /\ agenda' = [agenda EXCEPT ![t] = <<Queue(f.obj, f.call)>> \o s]
      BY <2>11 DEF DoQueue, At, Continue, f, s, First, Rest
    <3>2. Queue(f.obj, f.call) \in Frame /\ Queue(f.obj, f.call).act # "check"
      BY <2>2, <3>1 DEF Queue, Frame, Acting
    <3> QED BY <1>2, <2>2, <2>3, <3>1, <3>2, ChecksPush
  <2>12. CASE ReadState(t)
    <3> DEFINE x == Update(f.obj, f.call, New_State(With_Abort[f.call], State[f.call]))
    <3>1. f.act = "queue" /\ agenda' = [agenda EXCEPT ![t] = <<x>> \o s]
      BY <2>12 DEF ReadState, At, Continue, f, s, First, Rest
    <3>2. f.call \in Callers /\ Serves(t, f.call)
      BY <2>1, <2>2, <3>1 DEF Serves, Acting
    <3>3. New_State(With_Abort[f.call], State[f.call]) \in States \ Over
      BY <2>4, <3>2, ServedNotOver DEF New_State, States, Over
    <3>4. x \in Frame /\ x.act # "check"
      BY <2>2, <3>2, <3>3 DEF Update, Frame
    <3> HIDE DEF x
    <3> QED BY <1>2, <2>2, <2>3, <3>1, <3>4, ChecksPush
  <2> QED BY <1>8, <2>5, <2>6, <2>7, <2>8, <2>9, <2>10, <2>11, <2>12 DEF ServerStep
<1>9. CASE \E s \in Setters : ReturnProcedure(s)
  BY <1>1, <1>9 DEF ReturnProcedure
<1>10. ASSUME NEW c \in Callers, CallerStep(c) \/ TimeOut(c) \/ AbortTask(c), ~CancelCall(c)
       PROVE  NothingChecked'
  BY <1>1, <1>10 DEF CallerStep, AfterCall, Relock, PollCancel, PollOver, PollSleep, Wake, TimeOut,
                     TestState, MarkAbortable, LockServerAgain, DoNotCancel, AfterCancel, Leave, AbortTask, control
<1>11. CASE UNCHANGED vars
  BY <1>1, <1>11 DEF vars, control
<1> QED BY <1>5, <1>6, <1>7, <1>8, <1>9, <1>10, <1>11 DEF Next, ProgramStep

\* Nobody gives a call up: simple calls alone, by tasks that are not aborted.
NothingGivenUp == Modes \subseteq {"Simple_Call"} /\ Abortable = {}

NothingCancelled ==
  \A c \in Callers : State[c] # "Cancelled" /\ Mode[c] = "Simple_Call" /\ ~Cancellation_Attempted[c]

LEMMA NextNothingCancelled ==
  ASSUME NothingGivenUp, Owned, NothingCancelled, [Next]_vars
  PROVE  NothingCancelled'
<1>1. CASE UNCHANGED <<State, Mode, Cancellation_Attempted>>
  BY <1>1 DEF NothingCancelled
<1>2. /\ State \in [Callers -> States] /\ Mode \in [Callers -> Call_Modes]
      /\ Cancellation_Attempted \in [Callers -> BOOLEAN] /\ Places
  BY DEF Owned, Places, Typed, RecordTyped
<1>3. ASSUME NEW d \in Callers, NEW x, x # "Cancelled", State' = [State EXCEPT ![d] = x],
             UNCHANGED <<Mode, Cancellation_Attempted>>
      PROVE  NothingCancelled'
  BY <1>2, <1>3 DEF NothingCancelled
<1>4. ASSUME NEW c \in Callers, NEW m \in Modes, NEW o \in Objects, NEW e \in Entries,
             NEW d \in Deferred, CallEntry(c, m, o, e, d)
      PROVE  NothingCancelled'
  BY <1>2, <1>4 DEF CallEntry, NothingGivenUp, NothingCancelled
<1>5. ASSUME NEW t \in Tasks, ServerStep(t)  PROVE NothingCancelled'
  <2>1. At(t, "do") \/ At(t, "body") \/ At(t, "after") => First(t).call \in Callers
    BY <1>2, FirstFrame DEF Places, At, First, Acting
  <2>2. \A c \in Callers : State[c] # "Cancelled" /\ Mode[c] = "Simple_Call"
                           /\ ~Cancellation_Attempted[c]
    BY DEF NothingCancelled
  <2>3. CASE DoBegin(t)
    <3>1. /\ First(t).call \in Callers /\ UNCHANGED <<Mode, Cancellation_Attempted>>
          /\ State' = [State EXCEPT ![First(t).call] =
                         IF @ = "Now_Abortable" THEN "Was_Abortable" ELSE @]
      BY <2>1, <2>3 DEF DoBegin, NotAbortable, First
    <3> QED BY <1>3, <2>2, <3>1
  <2>4. CASE Enqueue(t)
    <3>1. /\ First(t).call \in Callers /\ First(t).new \in States \ Over
          /\ State' = [State EXCEPT ![First(t).call] = First(t).new]
          /\ UNCHANGED <<Mode, Cancellation_Attempted>>
      BY <1>2, <2>4, EnqueueFrame
    <3> QED BY <1>3, <3>1 DEF Over
  <2>5. ~DoCancel(t)
    BY <2>1, <2>2 DEF DoCancel, First
  <2>6. CASE AfterDone(t)
    <3>1. /\ First(t).call \in Callers /\ UNCHANGED <<Mode, Cancellation_Attempted>>
          /\ State' = [State EXCEPT ![First(t).call] = "Done"]
      BY <2>1, <2>6 DEF AfterDone, Wakeup_Entry_Caller, First
    <3> QED BY <1>3, <3>1
  <2>7. CASE RequeueSame(t)
    <3>1. First(t).call \in Callers /\ UNCHANGED <<Mode, Cancellation_Attempted>>
      BY <2>1, <2>7 DEF RequeueSame
    <3>2. State' = State
      BY <2>2, <2>7, <3>1 DEF RequeueSame, First
    <3> QED BY <1>1, <3>1, <3>2
  <2>8. ASSUME NEW e \in Entries, ServiceSelect(t, e)  PROVE NothingCancelled'
    <3> DEFINE c == Head(Served(t, e))
    <3>1. c \in Callers
      BY <1>2, <2>8, SelectedCall
    <3>2. /\ UNCHANGED <<Mode, Cancellation_Attempted>>
          /\ State' = [State EXCEPT ![c] = IF @ = "Now_Abortable" THEN "Was_Abortable" ELSE @]
      BY <2>8 DEF ServiceSelect, NotAbortable, Served, First
    <3> HIDE DEF c
    <3> QED BY <1>3, <2>2, <3>1, <3>2
  <2> QED BY <1>1, <1>5, <2>3, <2>4, <2>5, <2>6, <2>7, <2>8
          DEF ServerStep, DoQueue, ReadState, BodyCompletes, BodyRequeues, RequeueOther, AfterRequeue, ServiceEnd, record
<1>6. ASSUME NEW c \in Callers, CallerStep(c) \/ TimeOut(c) \/ AbortTask(c)  PROVE NothingCancelled'
  <2>1. Mode[c] = "Simple_Call" /\ ~Cancellation_Attempted[c]
    BY DEF NothingCancelled
  <2>2. ~TimeOut(c) /\ ~AbortTask(c)
    BY <2>1 DEF TimeOut, TimedWait, AbortTask, NothingGivenUp
  <2>3. CASE CancelCall(c)
    <3>1. State' = [State EXCEPT ![c] = "Done"] /\ UNCHANGED <<Mode, Cancellation_Attempted>>
      BY <2>1, <2>3 DEF CancelCall
    <3> QED BY <1>3, <3>1
  <2>4. CASE Leave(c)
    BY <1>2, <2>4 DEF Leave, NothingCancelled
  <2>5. CASE MarkAbortable(c)
    <3>1. State' = [State EXCEPT ![c] = "Now_Abortable"] /\ UNCHANGED <<Mode, Cancellation_Attempted>>
      BY <2>5 DEF MarkAbortable
    <3> QED BY <1>3, <3>1
  <2> QED BY <1>1, <1>6, <2>2, <2>3, <2>4, <2>5
          DEF CallerStep, AfterCall, Relock, PollCancel, PollOver, PollSleep, TestState, Wake,
              LockServerAgain, DoNotCancel, AfterCancel, record
<1>7. CASE UNCHANGED vars
  BY <1>1, <1>7 DEF vars, record
<1> QED BY <1>1, <1>4, <1>5, <1>6, <1>7 DEF Next, ProgramStep, CallProcedure, ReturnProcedure, record

\* So no object is left unlocked with a call queued on an open entry where no
\* call is requeued, or none is given up: PO_Service_Entries looks at the
\* barriers again after every body.
THEOREM NoOpenEntryIsLeft ==
  ASSUME Requeues = {} \/ NothingGivenUp
  PROVE  Spec => []NoOpenEntryLeft
<1> DEFINE Inv == /\ Owned /\ NoOpenEntryLeft
                  /\ Requeues = {} => NothingChecked
                  /\ NothingGivenUp => NothingCancelled
<1>1. Init => Inv
  <2> SUFFICES ASSUME Init  PROVE NoOpenEntryLeft /\ NothingChecked /\ NothingCancelled /\ Owned
    OBVIOUS
  <2>1. NoOpenEntryLeft /\ NothingCancelled
    BY DEF Init, NoOpenEntryLeft, Selectable, NothingCancelled
  <2>2. NothingChecked
    BY DEF Init, NothingChecked, NoChecks
  <2>3. AfterBody
    BY DEF Init, AfterBody, AfterBodyOf
  <2> QED BY <2>1, <2>2, <2>3, InitPlaces, InitLocks DEF Owned
<1>2. Inv /\ [Next]_vars => Inv'
  <2> SUFFICES ASSUME Inv, [Next]_vars  PROVE Inv'
    OBVIOUS
  <2>1. Owned'
    BY NextPlaces, NextLocks, NextAfterBody DEF Owned
  <2>2. Requeues = {} => NothingChecked'
    BY NextNothingChecked
  <2>3. NothingGivenUp => NothingCancelled'
    BY NextNothingCancelled
  <2>4. \A t \in Tasks : ~LeavesLoop(t)
    <3> SUFFICES ASSUME NEW t \in Tasks, LeavesLoop(t)  PROVE FALSE
      OBVIOUS
    <3>1. At(t, "check") /\ State[First(t).call] = "Cancelled" /\ First(t).act = "check"
      BY DEF LeavesLoop, AfterRequeue, At, First
    <3>2. agenda[t] # <<>> /\ First(t) = agenda[t][1] /\ First(t).call \in Callers
      BY <3>1, OtherFrame DEF Owned
    <3>3. 1 \in 1..Len(agenda[t])
      BY <3>2, PopProperties DEF Owned, Places, ControlTyped
    <3> QED BY <3>1, <3>2, <3>3 DEF NothingChecked, NoChecks, NothingCancelled
  <2> QED BY <2>1, <2>2, <2>3, <2>4, NextClosed
<1>3. Inv => NoOpenEntryLeft
  OBVIOUS
<1> HIDE DEF Inv
<1> QED BY <1>1, <1>2, <1>3, PTL DEF Spec

-----------------------------------------------------------------------------
(* Waking the callers.                                                     *)

\* No requeue with abort to an entry of the same object: PO_Do_Or_Queue may
\* cancel such a call without waking its caller.
NoneWithin == \A r \in Requeues : r.with_abort => r.from # r.to

\* A caller that is about to sleep, or sleeps, says so to those that wake it.
Sleeps ==
  \A c \in Callers :
    pc[c] \in {"yielding", "polling", "asleep", "timing", "marking", "locking", "cancelling"} =>
      Task_State[c] = "Entry_Caller_Sleep"

Woken == Sleeps /\ NoLostCompletion

\* A step of others on the record of c that keeps it awake, or wakes it.
LEMMA StaysWoken ==
  ASSUME Owned, Woken, NEW c \in Callers, UNCHANGED <<pc, Task_State>>,
         \A d \in Callers : d # c => State'[d] = State[d] /\ CV'[d] = CV[d],
         \/ State'[c] \notin Over
         \/ Task_State[c] = "Entry_Caller_Sleep" => CV'[c]
  PROVE  Woken'
<1>1. Sleeps'
  BY DEF Woken, Sleeps
<1>2. NoLostCompletion'
  BY DEF Woken, Sleeps, NoLostCompletion
<1> QED BY <1>1, <1>2 DEF Woken

\* Only the states of calls, and nobody's, change.
LEMMA ServerWoken ==
  ASSUME NoneWithin, Owned, Woken, NEW t \in Tasks, ServerStep(t)
  PROVE  Woken'
<1>1. /\ State \in [Callers -> States] /\ CV \in [Callers -> BOOLEAN] /\ Places
      /\ \A c \in Callers : State[c] \in States
  BY DEF Owned, Places, Typed, RecordTyped, CallersTyped
<1>2. CASE UNCHANGED <<State, pc, Task_State, CV>>
  BY <1>2 DEF Woken, Sleeps, NoLostCompletion
<1>3. At(t, "do") \/ At(t, "body") \/ At(t, "after") =>
        First(t).call \in Callers /\ State[First(t).call] \notin Over
  <2> SUFFICES ASSUME At(t, "do") \/ At(t, "body") \/ At(t, "after")
               PROVE  First(t).call \in Callers /\ State[First(t).call] \notin Over
    OBVIOUS
  <2>1. agenda[t] # <<>> /\ First(t).act \in Acting
    BY DEF At, First, Acting
  <2> QED BY <2>1, <1>1, FirstOwned, ServedNotOver
<1>4. ASSUME NEW c \in Callers, NEW x, x \notin Over, State' = [State EXCEPT ![c] = x],
             UNCHANGED <<pc, Task_State, CV>>
      PROVE  Woken'
  BY <1>1, <1>4, StaysWoken
<1>5. ASSUME NEW c \in Callers, NEW x, Wakeup_Entry_Caller(c, x), UNCHANGED <<pc, Task_State>>
      PROVE  Woken'
  BY <1>1, <1>5, StaysWoken DEF Wakeup_Entry_Caller
<1>6. CASE DoBegin(t)
  <2>1. /\ First(t).call \in Callers /\ State[First(t).call] \notin Over
        /\ UNCHANGED <<pc, Task_State, CV>>
        /\ State' = [State EXCEPT ![First(t).call] =
                       IF @ = "Now_Abortable" THEN "Was_Abortable" ELSE @]
    BY <1>3, <1>6 DEF DoBegin, NotAbortable, First, atcbs
  <2>2. \E x : x \notin Over /\ State' = [State EXCEPT ![First(t).call] = x]
    BY <2>1 DEF Over
  <2> QED BY <1>4, <2>1, <2>2
<1>7. CASE Enqueue(t)
  <2>1. /\ First(t).call \in Callers /\ First(t).new \in States \ Over
        /\ State' = [State EXCEPT ![First(t).call] = First(t).new]
        /\ UNCHANGED <<pc, atcbs>>
    BY <1>1, <1>7, EnqueueFrame
  <2>2. \E x : x \notin Over /\ State' = [State EXCEPT ![First(t).call] = x]
    BY <2>1
  <2> QED BY <1>4, <2>1, <2>2 DEF atcbs
<1>8. CASE DoCancel(t) \/ AfterDone(t)
  <2>1. First(t).call \in Callers /\ UNCHANGED <<pc, Task_State>>
    BY <1>3, <1>8 DEF DoCancel, AfterDone
  <2>2. \E x : Wakeup_Entry_Caller(First(t).call, x)
    BY <1>8 DEF DoCancel, AfterDone, First
  <2> QED BY <1>5, <2>1, <2>2
<1>9. CASE DoQueue(t) \/ ReadState(t) \/ BodyCompletes(t) \/ (\E r \in Requeues, e \in Entries : BodyRequeues(t, r, e))
             \/ RequeueOther(t) \/ AfterRequeue(t) \/ ServiceEnd(t)
  BY <1>2, <1>9 DEF DoQueue, ReadState, BodyCompletes, BodyRequeues, RequeueOther, AfterRequeue, ServiceEnd, record, atcbs
<1>10. CASE RequeueSame(t)
  <2> DEFINE f == First(t)
             c == f.call
  <2>1. /\ c \in Callers /\ State[c] \notin Over /\ UNCHANGED <<pc, Task_State, CV>>
        /\ f.act = "after" /\ Call_In_Progress[f.obj] = NoTask /\ Called_PO[c] = f.obj
    BY <1>3, <1>10 DEF RequeueSame, At, First, atcbs
  <2>2. agenda[t] # <<>> /\ f = agenda[t][1]
    BY <1>1, <1>10, AfterFrame DEF RequeueSame
  <2>3. [from |-> f.obj, to |-> f.obj, with_abort |-> With_Abort[c]] \in Requeues
    BY <2>1, <2>2 DEF Owned, AfterBody, AfterBodyOf
  <2>4. ~With_Abort[c]
    BY <2>3 DEF NoneWithin
  <2>5. State' = State
    BY <1>10, <2>4 DEF RequeueSame, First
  <2> QED BY <1>2, <2>1, <2>5
<1>11. ASSUME NEW e \in Entries, ServiceSelect(t, e)  PROVE Woken'
  <2> DEFINE c == Head(Served(t, e))
  <2>1. c \in Callers /\ Onqueue(c)
    BY <1>1, <1>11, SelectedCall
  <2>2. /\ UNCHANGED <<pc, Task_State, CV>>
        /\ State' = [State EXCEPT ![c] = IF @ = "Now_Abortable" THEN "Was_Abortable" ELSE @]
    BY <1>11 DEF ServiceSelect, NotAbortable, Served, First, atcbs
  <2> HIDE DEF c
  <2>3. State[c] \notin Over
    BY <1>1, <2>1 DEF Places, NotOver, Placed
  <2> QED BY <1>4, <2>1, <2>2, <2>3 DEF Over
<1> QED BY <1>6, <1>7, <1>8, <1>9, <1>10, <1>11 DEF ServerStep

\* A caller moves, and sleeps only when its call is not over.
LEMMA CallerWoken ==
  ASSUME Owned, Woken, NEW c \in Tasks, NEW there, pc' = [pc EXCEPT ![c] = there],
         c \in Callers =>
           /\ there \in {"yielding", "polling", "asleep", "timing", "marking", "locking", "cancelling"} =>
                Task_State'[c] = "Entry_Caller_Sleep"
           /\ there = "asleep" => State'[c] \notin Over \/ CV'[c],
         \A d \in Callers : d # c => /\ State'[d] = State[d] /\ CV'[d] = CV[d]
                                     /\ Task_State'[d] = Task_State[d]
  PROVE  Woken'
<1>1. \A d \in Tasks : pc'[d] = IF d = c THEN there ELSE pc[d]
  BY DEF Owned, Places, ControlTyped
<1>2. \A d \in Callers : d \in Tasks
  BY DEF Tasks
<1> QED BY <1>1, <1>2 DEF Woken, Sleeps, NoLostCompletion

LEMMA NextWoken == NoneWithin /\ Owned /\ Woken /\ [Next]_vars => Woken'
<1> SUFFICES ASSUME NoneWithin, Owned, Woken, [Next]_vars  PROVE Woken'
  OBVIOUS
<1>1. CASE UNCHANGED <<State, pc, Task_State, CV>>
  BY <1>1 DEF Woken, Sleeps, NoLostCompletion
<1>2. /\ State \in [Callers -> States] /\ CV \in [Callers -> BOOLEAN]
      /\ Task_State \in [Callers -> {"Runnable", "Entry_Caller_Sleep"}]
      /\ pc \in [Tasks -> Labels]
  BY DEF Owned, Places, Typed, RecordTyped, CallersTyped, ControlTyped
<1>3. CASE \E s \in Setters, o \in Objects, b \in SUBSET Entries : CallProcedure(s, o, b)
  <2> PICK s \in Setters : \E o \in Objects, b \in SUBSET Entries : CallProcedure(s, o, b)
    BY <1>3
  <2>1. /\ pc' = [pc EXCEPT ![s] = "calling"] /\ s \in Tasks
        /\ UNCHANGED <<State, CV, Task_State>>
    BY DEF CallProcedure, Go, record, atcbs, Tasks
  <2> QED BY <2>1, CallerWoken
<1>4. CASE \E s \in Setters : ReturnProcedure(s)
  <2> PICK s \in Setters : ReturnProcedure(s)
    BY <1>4
  <2>1. /\ pc' = [pc EXCEPT ![s] = "idle"] /\ s \in Tasks
        /\ UNCHANGED <<State, CV, Task_State>>
    BY DEF ReturnProcedure, Go, record, atcbs, Tasks
  <2> QED BY <2>1, CallerWoken
<1>5. ASSUME NEW c \in Callers, NEW m \in Modes, NEW o \in Objects, NEW e \in Entries,
             NEW d \in Deferred, CallEntry(c, m, o, e, d)
      PROVE  Woken'
  <2>1. /\ pc' = [pc EXCEPT ![c] = "calling"] /\ c \in Tasks
        /\ UNCHANGED <<CV, Task_State>>
        /\ \A x \in Callers : x # c => State'[x] = State[x]
    BY <1>2, <1>5 DEF CallEntry, Go, atcbs, Tasks
  <2> QED BY <2>1, CallerWoken
<1>6. ASSUME NEW c \in Callers, CallerStep(c) \/ TimeOut(c)  PROVE Woken'
  <2>1. c \in Tasks
    BY DEF Tasks
  <2>2. pc[c] \in {"yielding", "polling", "asleep", "timing", "marking", "locking", "cancelling"} =>
          Task_State[c] = "Entry_Caller_Sleep"
    BY DEF Woken, Sleeps
  <2>3. CASE AfterCall(c)
    <3>1. CASE State[c] \in Over
      BY <2>1, <2>3, <3>1, CallerWoken DEF AfterCall, Go, record
    <3>2. CASE State[c] \notin Over
      <4>1. /\ \E there \in {"polling", "yielding"} : pc' = [pc EXCEPT ![c] = there]
            /\ Task_State' = [Task_State EXCEPT ![c] = "Entry_Caller_Sleep"]
            /\ UNCHANGED <<State, CV>>
        BY <2>3, <3>2 DEF AfterCall, Go, record
      <4> QED BY <1>2, <2>1, <4>1, CallerWoken
    <3> QED BY <3>1, <3>2
  <2>4. CASE Relock(c)
    BY <2>1, <2>2, <2>4, CallerWoken DEF Relock, Go, record, atcbs
  <2>5. CASE PollCancel(c)
    BY <2>1, <2>2, <2>5, CallerWoken DEF PollCancel, Go, record, atcbs
  <2>6. CASE PollOver(c)
    BY <1>2, <2>1, <2>6, CallerWoken DEF PollOver, Go, record
  <2>7. CASE PollSleep(c)
    <3>1. /\ pc[c] = "polling" /\ pc' = [pc EXCEPT ![c] = "asleep"] /\ State[c] \notin Over
          /\ CV' = [CV EXCEPT ![c] = FALSE] /\ UNCHANGED <<State, Task_State>>
      BY <2>7 DEF PollSleep, Go, StillWaiting, record
    <3> QED BY <1>2, <2>1, <2>2, <3>1, CallerWoken
  <2>8. CASE Wake(c)
    BY <2>1, <2>2, <2>8, CallerWoken DEF Wake, Go, record, atcbs
  <2>9. CASE LockServerAgain(c)
    BY <1>1, <2>9 DEF LockServerAgain, record, atcbs
  <2>10. CASE CancelCall(c)
    <3>1. /\ pc[c] = "locking" /\ pc' = [pc EXCEPT ![c] = "cancelling"]
          /\ UNCHANGED <<CV, Task_State>>
          /\ \A x \in Callers : x # c => State'[x] = State[x]
      BY <1>2, <2>10 DEF CancelCall, Go, atcbs
    <3> QED BY <2>1, <2>2, <3>1, CallerWoken
  <2>11. CASE DoNotCancel(c)
    BY <2>1, <2>2, <2>11, CallerWoken DEF DoNotCancel, Go, record, atcbs
  <2>12. CASE AfterCancel(c)
    BY <2>1, <2>2, <2>12, CallerWoken DEF AfterCancel, Go, record, atcbs
  <2>13. CASE Leave(c)
    <3>1. /\ \E there \in {"idle", "aborted"} : pc' = [pc EXCEPT ![c] = there]
          /\ CV' = [CV EXCEPT ![c] = FALSE] /\ UNCHANGED <<State, Task_State>>
      BY <2>13 DEF Leave, Go
    <3> QED BY <1>2, <2>1, <3>1, CallerWoken
  <2>14. CASE TimeOut(c)
    <3>1. /\ pc[c] \in {"asleep", "polling"} /\ pc' = [pc EXCEPT ![c] = "timing"]
          /\ UNCHANGED <<State, CV, Task_State>>
      BY <2>14 DEF TimeOut
    <3> QED BY <2>1, <2>2, <3>1, CallerWoken
  <2>15. CASE TestState(c)
    <3>1. /\ pc[c] = "timing" /\ \E there \in {"polling", "marking"} : pc' = [pc EXCEPT ![c] = there]
          /\ UNCHANGED <<State, CV, Task_State>>
      BY <2>15 DEF TestState, Go, record, atcbs
    <3> QED BY <2>1, <2>2, <3>1, CallerWoken
  <2>16. CASE MarkAbortable(c)
    <3>1. /\ pc[c] = "marking" /\ pc' = [pc EXCEPT ![c] = "polling"]
          /\ UNCHANGED <<CV, Task_State>>
          /\ \A x \in Callers : x # c => State'[x] = State[x]
      BY <1>2, <2>16 DEF MarkAbortable, Go, atcbs
    <3> QED BY <2>1, <2>2, <3>1, CallerWoken
  <2> QED BY <1>6, <2>3, <2>4, <2>5, <2>6, <2>7, <2>8, <2>9, <2>10, <2>11, <2>12, <2>13, <2>14,
             <2>15, <2>16
          DEF CallerStep
<1>7. ASSUME NEW c \in Callers, AbortTask(c)  PROVE Woken'
  <2>1. /\ UNCHANGED <<State, pc, Task_State>>
        /\ CV' = [CV EXCEPT ![c] = @ \/ Task_State[c] = "Entry_Caller_Sleep"]
    BY <1>7 DEF AbortTask, control
  <2> QED BY <1>2, <2>1, StaysWoken
<1>8. CASE UNCHANGED vars
  BY <1>1, <1>8 DEF vars, record, atcbs, control
<1> QED BY <1>3, <1>4, <1>5, <1>6, <1>7, <1>8, ServerWoken DEF Next, ProgramStep

\* A caller whose call is over does not sleep on, with nobody to wake it, where
\* no requeue is with abort and to the same object (Wakeup_Entry_Caller,
\* Wait_For_Completion and its loop in s-taenca.adb).
THEOREM NoCompletionLost ==
  ASSUME NoneWithin
  PROVE  Spec => []NoLostCompletion
<1>1. Init => Owned /\ Woken
  <2>1. Init => AfterBody
    BY DEF Init, AfterBody, AfterBodyOf
  <2>2. Init => Woken
    BY DEF Init, Woken, Sleeps, NoLostCompletion, Tasks
  <2> QED BY <2>1, <2>2, InitPlaces, InitLocks DEF Owned
<1>2. Owned /\ Woken /\ [Next]_vars => (Owned /\ Woken)'
  <2>1. Owned /\ [Next]_vars => Owned'
    BY NextPlaces, NextLocks, NextAfterBody DEF Owned
  <2> QED BY <2>1, NextWoken
<1>3. Woken => NoLostCompletion
  BY DEF Woken
<1> QED BY <1>1, <1>2, <1>3, PTL DEF Spec

-----------------------------------------------------------------------------
(* Calls requeued without abort.                                           *)

\* t executes the body of c's call, or is done with it.
Runs(t, c) == Serves(t, c) /\ agenda[t][1].act \notin Trying

\* Calls are made with abort not deferred: then one that is requeued without
\* abort is not abortable, nor is one whose body executes.
NeverDeferred == Deferred \subseteq {FALSE}

\* Nor is it to become abortable, once the state read for its queue is written.
UpdateProtects(t) ==
  agenda[t] # <<>> /\ agenda[t][1].act = "update" =>
    /\ agenda[t][1].new # "Never_Abortable"
    /\ ~With_Abort[agenda[t][1].call] => agenda[t][1].new = "Was_Abortable"

Protected ==
  /\ \A c \in Callers :
       /\ State[c] # "Never_Abortable"
       /\ (~With_Abort[c] /\ Placed(c)) \/ (\E t \in Tasks : Runs(t, c)) => State[c] = "Was_Abortable"
  /\ \A t \in Tasks : UpdateProtects(t)

\* A step of t with the call of c.
LEMMA StaysProtected ==
  ASSUME Places, Places', Protected, NEW t \in Tasks, NEW c \in Callers,
         NEW s, agenda' = [agenda EXCEPT ![t] = s], s # <<>> /\ s[1].act \in Acting => s[1].call = c,
         s # <<>> /\ s[1].act = "update" =>
           /\ s[1].new # "Never_Abortable"
           /\ ~With_Abort'[c] => s[1].new = "Was_Abortable",
         With_Abort'[c] = With_Abort[c] \/ With_Abort'[c] \/ Serves(t, c),
         \A d \in Callers : d # c => /\ State'[d] = State[d] /\ With_Abort'[d] = With_Abort[d]
                                     /\ Onqueue(d)' => Onqueue(d),
         State'[c] # "Never_Abortable",
         \/ State'[c] \in Over \cup {"Was_Abortable"}
         \/ With_Abort'[c] /\ ~Runs(t, c)' /\ \A u \in Tasks : u # t => ~Runs(u, c)
  PROVE  Protected'
<1>1. \A u \in Tasks : agenda'[u] = IF u = t THEN s ELSE agenda[u]
  BY DEF Places, ControlTyped
<1>2. \A u \in Tasks : \A d \in Callers : u # t => (Serves(u, d)' <=> Serves(u, d))
                                                /\ (Runs(u, d)' <=> Runs(u, d))
  BY <1>1 DEF Serves, Runs
<1>3. \A d \in Callers : d # c => ~Serves(t, d)' /\ ~Runs(t, d)'
  BY <1>1 DEF Serves, Runs
<1>4. ASSUME NEW d \in Callers, d # c
      PROVE  /\ State'[d] # "Never_Abortable"
             /\ (~With_Abort'[d] /\ Placed(d)') \/ (\E u \in Tasks : Runs(u, d)') =>
                  State'[d] = "Was_Abortable"
  BY <1>2, <1>3, <1>4 DEF Protected, Placed
<1>5. State'[c] \in Over => ~Placed(c)'
  BY DEF Places, NotOver
<1>6. \A u \in Tasks : Runs(u, c)' => Placed(c)'
  BY DEF Runs, Placed
<1>7. (~With_Abort'[c] /\ Placed(c)') \/ (\E u \in Tasks : Runs(u, c)') => State'[c] = "Was_Abortable"
  BY <1>2, <1>5, <1>6
<1>8. ASSUME NEW u \in Tasks, agenda'[u] # <<>>, agenda'[u][1].act = "update"
      PROVE  /\ agenda'[u][1].new # "Never_Abortable"
             /\ ~With_Abort'[agenda'[u][1].call] => agenda'[u][1].new = "Was_Abortable"
  <2>1. CASE u = t
    <3>1. agenda'[u] = s /\ s # <<>> /\ s[1].act = "update"
      BY <1>1, <1>8, <2>1
    <3>2. s[1].call = c
      BY <3>1 DEF Acting
    <3> QED BY <3>1, <3>2
  <2>2. CASE u # t
    <3>1. agenda[u] # <<>> /\ agenda[u][1].act = "update" /\ agenda'[u] = agenda[u]
      BY <1>1, <1>8, <2>2
    <3> DEFINE d == agenda[u][1].call
    <3>2. d \in Callers /\ Serves(u, d)
      <4>1. agenda[u] \in Seq(Frame)
        BY DEF Places, ControlTyped
      <4>2. agenda[u][1] \in Frame
        BY <3>1, <4>1, PopProperties
      <4>3. agenda[u][1].call \in Callers
        BY <3>1, <4>2 DEF Frame
      <4> QED BY <3>1, <4>3 DEF Serves, Acting
    <3>3. /\ agenda[u][1].new # "Never_Abortable"
          /\ ~With_Abort[d] => agenda[u][1].new = "Was_Abortable"
      BY <3>1 DEF Protected, UpdateProtects
    <3> HIDE DEF d
    <3>4. d = c => ~Serves(t, c)
      BY <2>2, <3>2 DEF Places, ServedByOne
    <3>5. With_Abort'[d] = With_Abort[d] \/ With_Abort'[d]
      BY <3>2, <3>4
    <3> QED BY <3>1, <3>3, <3>5 DEF d
  <2> QED BY <2>1, <2>2
<1>9. \A u \in Tasks : UpdateProtects(u)'
  BY <1>8 DEF UpdateProtects
<1> QED BY <1>4, <1>7, <1>9 DEF Protected

\* A step that moves no call.
LEMMA NothingProtected ==
  ASSUME Places, Protected, NEW t \in Tasks,
         NEW s, agenda' = [agenda EXCEPT ![t] = s], s # <<>> => s[1].act \notin Acting,
         UNCHANGED <<State, With_Abort, Entry_Queues>>
  PROVE  Protected'
<1>1. \A u \in Tasks : agenda'[u] = IF u = t THEN s ELSE agenda[u]
  BY DEF Places, ControlTyped
<1>2. \A u \in Tasks : \A d \in Callers : (Serves(u, d)' => Serves(u, d)) /\ (Runs(u, d)' => Runs(u, d))
  BY <1>1 DEF Serves, Runs
<1>3. \A d \in Callers : Placed(d)' => Placed(d)
  BY <1>2 DEF Placed, Onqueue
<1>4. \A u \in Tasks : UpdateProtects(u)'
  BY <1>1 DEF Protected, UpdateProtects, Acting
<1> QED BY <1>2, <1>3, <1>4 DEF Protected

\* A longer queue has the calls it had, and the one that was added.
LEMMA AppendContains ==
  ASSUME NEW q \in Seq(Callers), NEW c \in Callers
  PROVE  \A d : Contains(Append(q, c), d) <=> Contains(q, d) \/ d = c
<1>1. /\ Len(q) \in Nat /\ Len(Append(q, c)) = Len(q) + 1
      /\ \A i \in 1..Len(q) : Append(q, c)[i] = q[i]
      /\ Append(q, c)[Len(q) + 1] = c
  BY AppendProperties
<1>2. \A i \in 1 .. Len(q) + 1 : i \in 1..Len(q) \/ i = Len(q) + 1
  BY <1>1
<1>3. \A i \in 1..Len(q) : i \in 1 .. Len(q) + 1
  BY <1>1
<1>4. Len(q) + 1 \in 1 .. Len(q) + 1
  BY <1>1
<1>5. ASSUME NEW d, Contains(Append(q, c), d)  PROVE Contains(q, d) \/ d = c
  BY <1>1, <1>2, <1>5 DEF Contains
<1>6. ASSUME NEW d, Contains(q, d) \/ d = c  PROVE Contains(Append(q, c), d)
  BY <1>1, <1>3, <1>4, <1>6 DEF Contains
<1> QED BY <1>5, <1>6

LEMMA EnqueueOnqueue ==
  ASSUME Places, NEW t \in Tasks, Enqueue(t), NEW c, c = First(t).call
  PROVE  \A d \in Callers : Onqueue(d)' <=> Onqueue(d) \/ d = c
<1> DEFINE o == Called_PO[c]
<1>1. /\ c \in Callers /\ o \in Objects /\ E[c] \in Entries
      /\ Entry_Queues' = [Entry_Queues EXCEPT ![o][E[c]] = Append(@, c)]
  BY EnqueueFrame, ServedNotOver
<1> HIDE DEF o
<1>2. \A p \in Objects, e \in Entries :
        Entry_Queues'[p][e] = IF p = o /\ e = E[c] THEN Append(Entry_Queues[p][e], c)
                              ELSE Entry_Queues[p][e]
  BY <1>1 DEF Places, Typed, ObjectsTyped
<1>3. \A p \in Objects, e \in Entries : \A d \in Callers :
        Contains(Entry_Queues'[p][e], d) <=>
          Contains(Entry_Queues[p][e], d) \/ (p = o /\ e = E[c] /\ d = c)
  <2> SUFFICES ASSUME NEW p \in Objects, NEW e \in Entries, NEW d \in Callers
               PROVE  Contains(Entry_Queues'[p][e], d) <=>
                        Contains(Entry_Queues[p][e], d) \/ (p = o /\ e = E[c] /\ d = c)
    OBVIOUS
  <2>1. Entry_Queues[p][e] \in Seq(Callers)
    BY QueueTyped DEF Places
  <2>2. Contains(Append(Entry_Queues[p][e], c), d) <=> Contains(Entry_Queues[p][e], d) \/ d = c
    BY <1>1, <2>1, AppendContains
  <2> QED BY <1>2, <2>2
<1> QED BY <1>1, <1>3 DEF Onqueue

\* The queue that a call is selected from.
LEMMA SelectOnqueue ==
  ASSUME Places, NEW t \in Tasks, NEW e \in Entries, ServiceSelect(t, e)
  PROVE  \A d \in Callers : Onqueue(d)' <=> Onqueue(d) /\ d # Head(Served(t, e))
<1> DEFINE c == Head(Served(t, e))
           r == Tail(Served(t, e))
<1>1. /\ c \in Callers /\ Called_PO[c] = First(t).obj /\ E[c] = e /\ Distinct(r)
      /\ \A d \in Callers : Contains(r, d) <=> Contains(Served(t, e), d) /\ d # c
  BY SelectedCall
<1> HIDE DEF c
<1>2. /\ \A d \in Callers : Contains(r, d) <=> Contains(Entry_Queues[Called_PO[c]][E[c]], d) /\ d # c
      /\ Entry_Queues' = [Entry_Queues EXCEPT ![Called_PO[c]][E[c]] = r]
  <2>1. Entry_Queues[Called_PO[c]][E[c]] = Served(t, e)
    BY <1>1 DEF Served
  <2>2. Entry_Queues' = [Entry_Queues EXCEPT ![First(t).obj][e] = Tail(@)]
    BY DEF ServiceSelect, First
  <2>3. Entry_Queues' = [Entry_Queues EXCEPT ![First(t).obj][e] = r]
    BY <2>2 DEF Served, r
  <2> QED BY <1>1, <2>1, <2>3
<1> HIDE DEF r
<1> QED BY <1>1, <1>2, TakesCall DEF c

LEMMA CancelOnqueue ==
  ASSUME Places, NEW c \in Callers, CancelCall(c)
  PROVE  \A d \in Callers : Onqueue(d)' <=> Onqueue(d) /\ d # c
<1> DEFINE q == Entry_Queues[Called_PO[c]][E[c]]
           r == Without(q, c)
<1>1. Called_PO[c] \in Objects /\ E[c] \in Entries
  BY DEF Places, Typed, RecordTyped
<1>2. Entry_Queues' = [Entry_Queues EXCEPT ![Called_PO[c]][E[c]] = r]
  BY DEF CancelCall, SameServer, Dequeue_Call
<1>3. q \in Seq(Callers) /\ Distinct(q)
  BY <1>1, QueueTyped DEF Places, QueuedDistinct
<1> HIDE DEF q
<1>4. Distinct(r) /\ \A d : Contains(r, d) <=> Contains(q, d) /\ d # c
  BY <1>3, QueueWithout
<1> HIDE DEF r
<1> QED BY <1>2, <1>4, TakesCall DEF q

LEMMA ServerProtected ==
  ASSUME Owned, Owned', Protected, NEW t \in Tasks, ServerStep(t)
  PROVE  Protected'
<1> DEFINE f == First(t)
           s == Rest(t)
           c == f.call
<1>1. agenda[t] # <<>>
  BY DEF ServerStep, DoBegin, DoQueue, DoCancel, ReadState, Enqueue, BodyCompletes, BodyRequeues,
         AfterDone, RequeueOther, RequeueSame, AfterRequeue, ServiceSelect, ServiceEnd, At
<1>2. /\ f = agenda[t][1] /\ f.obj \in Objects
      /\ f.act \in Acting => c \in Callers /\ Serves(t, c)
      /\ f.act \in {"body", "after"} => f.serving \in BOOLEAN
      /\ s \in Seq(Frame)
      /\ s # <<>> => s[1].act \notin Acting
  BY <1>1, FirstOwned
<1>3. Places /\ Places' /\ <<>> \o s = s
  BY <1>2, NothingPushed DEF Owned
<1>4. /\ State \in [Callers -> States] /\ With_Abort \in [Callers -> BOOLEAN]
      /\ \A d \in Callers : State[d] \in States
  BY <1>3 DEF Places, Typed, RecordTyped
<1>5. f.act \in Acting => /\ State[c] \in {"Was_Abortable", "Now_Abortable"}
                          /\ ~With_Abort[c] \/ f.act \notin Trying => State[c] = "Was_Abortable"
                          /\ \A u \in Tasks : u # t => ~Runs(u, c)
  <2> SUFFICES ASSUME f.act \in Acting
               PROVE  /\ State[c] \in {"Was_Abortable", "Now_Abortable"}
                      /\ ~With_Abort[c] \/ f.act \notin Trying => State[c] = "Was_Abortable"
                      /\ \A u \in Tasks : u # t => ~Runs(u, c)
    OBVIOUS
  <2>1. c \in Callers /\ Serves(t, c)
    BY <1>2
  <2>2. State[c] \in States \ Over /\ State[c] # "Never_Abortable"
    BY <1>3, <2>1, ServedNotOver DEF Protected
  <2>3. Placed(c) /\ (f.act \notin Trying => Runs(t, c))
    BY <1>2, <2>1 DEF Placed, Runs
  <2>4. \A u \in Tasks : u # t => ~Runs(u, c)
    BY <1>3, <2>1 DEF Places, ServedByOne, Runs
  <2> QED BY <2>1, <2>2, <2>3, <2>4 DEF Protected, States
<1> HIDE DEF s, c, f
<1>6. CASE DoBegin(t)
  <2> DEFINE x == Body(f.obj, c, FALSE)
             r == <<x>> \o s
  <2>1. /\ f.act = "do" /\ agenda' = [agenda EXCEPT ![t] = r]
        /\ State' = [State EXCEPT ![c] = IF @ = "Now_Abortable" THEN "Was_Abortable" ELSE @]
        /\ UNCHANGED <<With_Abort, Entry_Queues>>
    BY <1>6 DEF DoBegin, NotAbortable, At, Continue, c, f, s, First, Rest
  <2>2. c \in Callers /\ State[c] \in {"Was_Abortable", "Now_Abortable"}
    BY <1>2, <1>5, <2>1 DEF Acting
  <2>3. x \in Frame /\ x.act = "body" /\ x.call = c
    BY <1>2, <2>2 DEF Body, Frame
  <2> HIDE DEF x
  <2>4. r # <<>> /\ r[1] = x
    BY <1>2, <2>3, PushProperties
  <2> HIDE DEF r
  <2>5. State'[c] = "Was_Abortable" /\ \A d \in Callers : d # c => State'[d] = State[d]
    BY <1>4, <2>1, <2>2
  <2> QED BY <1>3, <2>1, <2>2, <2>3, <2>4, <2>5, StaysProtected DEF Onqueue
<1>7. CASE Enqueue(t)
  <2>1. /\ f.act = "update" /\ c \in Callers
        /\ State' = [State EXCEPT ![c] = f.new]
        /\ agenda' = [agenda EXCEPT ![t] = s] /\ s # <<>>
        /\ UNCHANGED With_Abort
    BY <1>3, <1>7, EnqueueFrame DEF Agenda, f, s, c
  <2>2. /\ f.new # "Never_Abortable"
        /\ ~With_Abort[c] => f.new = "Was_Abortable"
    BY <1>1, <1>2, <2>1 DEF Protected, UpdateProtects, c
  <2>3. \A u \in Tasks : u # t => ~Runs(u, c)
    BY <1>5, <2>1 DEF Acting
  <2>4. /\ State'[c] # "Never_Abortable"
        /\ With_Abort'[c] \/ State'[c] = "Was_Abortable"
        /\ \A d \in Callers : d # c => State'[d] = State[d]
    BY <1>4, <2>1, <2>2
  <2>5. \A d \in Callers : d # c => (Onqueue(d)' => Onqueue(d))
    BY <1>3, <1>7, EnqueueOnqueue DEF c, f
  <2>6. s[1].act \notin Acting /\ s[1].act # "update"
    BY <1>2, <2>1 DEF Acting
  <2>7. agenda'[t] = s
    BY <1>3, <2>1 DEF Places, ControlTyped
  <2>8. PICK d \in Callers : d = c
    BY <2>1
  <2>9. ~Runs(t, d)'
    BY <2>6, <2>7 DEF Runs, Serves
  <2> QED BY <1>3, <2>1, <2>3, <2>4, <2>5, <2>6, <2>8, <2>9, StaysProtected
<1>8. CASE DoQueue(t) \/ ReadState(t)
  <2>1. /\ f.act \in {"do", "queue"} /\ c \in Callers
        /\ UNCHANGED <<State, With_Abort, Entry_Queues>>
        /\ \E r : /\ Agenda(t, r) /\ r # <<>> /\ r[1].act \in {"queue", "update"} /\ r[1].call = c
                  /\ r[1].act = "update" => r[1].new = New_State(With_Abort[c], State[c])
    BY <1>3, <1>8, TriedFrame DEF record, objects, f, c
  <2>2. PICK r : /\ Agenda(t, r) /\ r # <<>> /\ r[1].act \in {"queue", "update"} /\ r[1].call = c
                 /\ r[1].act = "update" => r[1].new = New_State(With_Abort[c], State[c])
    BY <2>1
  <2>3. agenda' = [agenda EXCEPT ![t] = r]
    BY <2>2 DEF Agenda
  <2>4. /\ State[c] \in {"Was_Abortable", "Now_Abortable"}
        /\ ~With_Abort[c] => State[c] = "Was_Abortable"
        /\ \A u \in Tasks : u # t => ~Runs(u, c)
    BY <1>5, <2>1 DEF Acting
  <2>5. r[1].act = "update" =>
          /\ r[1].new # "Never_Abortable"
          /\ ~With_Abort'[c] => r[1].new = "Was_Abortable"
    BY <2>1, <2>2, <2>4 DEF New_State
  <2>6. agenda'[t] = r
    BY <1>3, <2>3 DEF Places, ControlTyped
  <2>7. PICK d \in Callers : d = c
    BY <2>1
  <2>8. ~Runs(t, d)'
    BY <2>2, <2>6 DEF Runs, Serves, Trying
  <2>9. With_Abort'[c] \/ State'[c] = "Was_Abortable"
    BY <2>1, <2>4
  <2> QED BY <1>3, <2>1, <2>2, <2>3, <2>4, <2>5, <2>7, <2>8, <2>9, StaysProtected DEF Onqueue
<1>9. CASE DoCancel(t) \/ AfterDone(t)
  <2>1. /\ f.act \in Acting /\ agenda' = [agenda EXCEPT ![t] = s]
        /\ UNCHANGED <<With_Abort, Entry_Queues>>
        /\ \E x \in Over : State' = [State EXCEPT ![c] = x]
    BY <1>3, <1>9 DEF DoCancel, AfterDone, Wakeup_Entry_Caller, Over, objects, Acting,
                      At, Continue, c, f, s, First, Rest
  <2>2. c \in Callers
    BY <1>2, <2>1
  <2>3. State'[c] \in Over /\ \A d \in Callers : d # c => State'[d] = State[d]
    BY <1>4, <2>1, <2>2
  <2>4. State'[c] # "Never_Abortable"
    BY <2>3 DEF Over
  <2> QED BY <1>2, <1>3, <2>1, <2>2, <2>3, <2>4, StaysProtected DEF Onqueue, Acting
<1>10. CASE BodyCompletes(t) \/ (\E r \in Requeues, e \in Entries : BodyRequeues(t, r, e))
  <2> DEFINE x == After(f.obj, c, f.serving)
             r == <<x>> \o s
  <2>1. /\ f.act = "body" /\ agenda' = [agenda EXCEPT ![t] = r]
        /\ UNCHANGED <<State, Entry_Queues>>
        /\ With_Abort' = With_Abort \/ \E a : With_Abort' = [With_Abort EXCEPT ![c] = a]
    BY <1>10 DEF BodyCompletes, BodyRequeues, record, At, Continue, c, f, s, First, Rest
  <2>2. c \in Callers /\ State[c] = "Was_Abortable"
    BY <1>2, <1>5, <2>1 DEF Acting, Trying
  <2>3. x \in Frame /\ x.act = "after" /\ x.call = c
    BY <1>2, <2>1, <2>2 DEF After, Frame, Acting
  <2> HIDE DEF x
  <2>4. r # <<>> /\ r[1] = x
    BY <1>2, <2>3, PushProperties
  <2> HIDE DEF r
  <2>5. (\A d \in Callers : d # c => With_Abort'[d] = With_Abort[d]) /\ Serves(t, c)
    BY <1>2, <1>4, <2>1 DEF Acting
  <2> QED BY <1>3, <2>1, <2>2, <2>3, <2>4, <2>5, StaysProtected DEF Onqueue
<1>11. CASE RequeueOther(t)
  <2>1. UNCHANGED <<State, With_Abort, Entry_Queues>> /\ f.act = "after"
    BY <1>11 DEF RequeueOther, record, objects, At, f, First
  <2>2. \E r : Agenda(t, r) /\ r[1].act = "do" /\ r[1].call = c
    BY <1>3, <1>11, RequeueOtherFrames DEF c, f
  <2>3. PICK r : Agenda(t, r) /\ r[1].act = "do" /\ r[1].call = c
    BY <2>2
  <2>4. agenda' = [agenda EXCEPT ![t] = r]
    BY <2>3 DEF Agenda
  <2>5. c \in Callers /\ State[c] = "Was_Abortable"
    BY <1>2, <1>5, <2>1 DEF Acting, Trying
  <2> QED BY <1>3, <2>1, <2>3, <2>4, <2>5, StaysProtected DEF Onqueue
<1>12. CASE RequeueSame(t)
  <2>1. f.act = "after"
    BY <1>12 DEF RequeueSame, At, f, First
  <2>2. /\ c \in Callers /\ State[c] = "Was_Abortable"
        /\ \A u \in Tasks : u # t => ~Runs(u, c)
    BY <1>2, <1>5, <2>1 DEF Acting, Trying
  <2>3. Requeued(t)[1].act \notin Acting
    BY <1>3, <1>12, AfterFrame DEF RequeueSame
  <2>4. /\ UNCHANGED With_Abort
        /\ UNCHANGED Entry_Queues
        /\ \/ /\ State' = [State EXCEPT ![c] = "Cancelled"]
              /\ Agenda(t, Requeued(t))
           \/ /\ UNCHANGED State
              /\ \E r : Agenda(t, r) /\ r[1].act \in {"do", "queue"} /\ r[1].call = c
    BY <1>3, <1>12, <2>2, RequeueSameCases DEF c, f, objects
  <2>5. CASE State' = [State EXCEPT ![c] = "Cancelled"] /\ Agenda(t, Requeued(t))
    <3>1. State'[c] = "Cancelled" /\ \A d \in Callers : d # c => State'[d] = State[d]
      BY <1>4, <2>2, <2>5
    <3>2. agenda' = [agenda EXCEPT ![t] = Requeued(t)]
      BY <2>5 DEF Agenda
    <3> QED BY <1>3, <2>2, <2>3, <2>4, <2>5, <3>1, <3>2, StaysProtected DEF Onqueue, Over, Acting
  <2>6. CASE /\ UNCHANGED State
             /\ \E r : Agenda(t, r) /\ r[1].act \in {"do", "queue"} /\ r[1].call = c
    <3>1. PICK r : Agenda(t, r) /\ r[1].act \in {"do", "queue"} /\ r[1].call = c
      BY <2>6
    <3>2. agenda' = [agenda EXCEPT ![t] = r]
      BY <3>1 DEF Agenda
    <3> QED BY <1>3, <2>2, <2>4, <2>6, <3>1, <3>2, StaysProtected DEF Onqueue
  <2> QED BY <2>4, <2>5, <2>6
<1>13. CASE AfterRequeue(t)
  <2>1. At(t, "check") /\ f.act = "check" /\ UNCHANGED <<State, With_Abort, Entry_Queues>>
    BY <1>13 DEF AfterRequeue, At, f, First, record, objects
  <2>2. \E r : /\ agenda' = [agenda EXCEPT ![t] = r]
               /\ r = Tail(s) \/ r = s
    BY <1>3, <1>13 DEF AfterRequeue, Continue, s, Rest, Places, ControlTyped
  <2>3. Tail(s) # <<>> => Tail(s)[1].act \notin Acting
    BY <1>3, <2>1, OtherFrame DEF f, s
  <2>4. PICK r : /\ agenda' = [agenda EXCEPT ![t] = r]
                 /\ r # <<>> => r[1].act \notin Acting
    BY <1>2, <2>2, <2>3
  <2> QED BY <1>3, <2>1, <2>4, NothingProtected
<1>14. ASSUME NEW e \in Entries, ServiceSelect(t, e)  PROVE Protected'
  <2> DEFINE d == Head(Served(t, e))
             x == Body(f.obj, d, TRUE)
             r == <<x>> \o agenda[t]
  <2>1. d \in Callers /\ Onqueue(d)
    BY <1>3, <1>14, SelectedCall
  <2>2. /\ agenda' = [agenda EXCEPT ![t] = r]
        /\ State' = [State EXCEPT ![d] = IF @ = "Now_Abortable" THEN "Was_Abortable" ELSE @]
        /\ UNCHANGED With_Abort
    BY <1>14 DEF ServiceSelect, NotAbortable, Served, f, First
  <2>3. \A y \in Callers : Onqueue(y)' => Onqueue(y)
    BY <1>3, <1>14, SelectOnqueue
  <2> HIDE DEF d
  <2>4. x \in Frame /\ x.act = "body" /\ x.call = d
    BY <1>2, <2>1 DEF Body, Frame
  <2> HIDE DEF x
  <2>5. r # <<>> /\ r[1] = x
    <3>1. agenda[t] \in Seq(Frame)
      BY <1>3 DEF Places, ControlTyped
    <3> QED BY <2>4, <3>1, PushProperties
  <2> HIDE DEF r
  <2>6. State[d] \in {"Was_Abortable", "Now_Abortable"}
    BY <1>3, <1>4, <2>1 DEF Places, NotOver, Placed, Protected, States
  <2>7. State'[d] = "Was_Abortable" /\ \A y \in Callers : y # d => State'[y] = State[y]
    BY <1>4, <2>1, <2>2, <2>6
  <2> QED BY <1>3, <2>1, <2>2, <2>3, <2>4, <2>5, <2>7, StaysProtected
<1>15. CASE ServiceEnd(t)
  <2>1. agenda' = [agenda EXCEPT ![t] = s] /\ UNCHANGED <<State, With_Abort, Entry_Queues>>
    BY <1>3, <1>15 DEF ServiceEnd, Continue, record, objects, s, Rest
  <2> QED BY <1>2, <1>3, <2>1, NothingProtected
<1> QED BY <1>6, <1>7, <1>8, <1>9, <1>10, <1>11, <1>12, <1>13, <1>14, <1>15 DEF ServerStep

\* A caller is about to mark a call after its time-out only if it has found it
\* never abortable.
LEMMA MarkingBegins ==
  ASSUME Places, [Next]_vars, NEW c \in Callers, pc'[c] = "marking", pc[c] # "marking"
  PROVE  State[c] = "Never_Abortable" /\ UNCHANGED State
<1>1. pc \in [Tasks -> Labels] /\ c \in Tasks
  BY DEF Places, ControlTyped, Tasks
<1>2. CASE UNCHANGED pc
  BY <1>2
<1>3. ASSUME NEW t \in Tasks, NEW here, NEW there, there # "marking", Go(t, here, there)  PROVE FALSE
  BY <1>1, <1>3 DEF Go
<1>4. CASE ProgramStep \/ \E s \in Setters : ReturnProcedure(s)
  <2>1. CASE \E s \in Setters, o \in Objects, b \in SUBSET Entries : CallProcedure(s, o, b)
    BY <1>3, <2>1 DEF CallProcedure, Tasks
  <2>2. CASE \E d \in Callers, m \in Modes, o \in Objects, e \in Entries, x \in Deferred :
               CallEntry(d, m, o, e, x)
    BY <1>3, <2>2 DEF CallEntry, Tasks
  <2>3. CASE \E s \in Setters : ReturnProcedure(s)
    BY <1>3, <2>3 DEF ReturnProcedure, Tasks
  <2> QED BY <1>4, <2>1, <2>2, <2>3 DEF ProgramStep
<1>5. CASE \E t \in Tasks : ServerStep(t)
  <2>1. ASSUME NEW t \in Tasks, ServerStep(t)  PROVE UNCHANGED pc
    BY <2>1 DEF ServerStep, DoBegin, DoQueue, DoCancel, ReadState, Enqueue, BodyCompletes,
                BodyRequeues, AfterDone, RequeueOther, RequeueSame, AfterRequeue,
                ServiceSelect, ServiceEnd
  <2> QED BY <1>2, <1>5, <2>1
<1>6. ASSUME NEW d \in Callers, CallerStep(d) \/ TimeOut(d) \/ AbortTask(d)
      PROVE  State[c] = "Never_Abortable" /\ UNCHANGED State
  <2>1. CASE TestState(d)
    BY <1>1, <2>1 DEF TestState, Go, Unmarked, record
  <2>2. CASE TimeOut(d)
    BY <1>1, <2>2 DEF TimeOut
  <2>3. CASE AbortTask(d)
    BY <1>2, <2>3 DEF AbortTask, control
  <2>4. CASE AfterCall(d) \/ Leave(d)
    BY <1>1, <2>4 DEF AfterCall, Leave, Go
  <2>5. CASE LockServerAgain(d)
    BY <1>2, <2>5 DEF LockServerAgain
  <2>6. CASE \/ Relock(d) \/ PollCancel(d) \/ PollOver(d) \/ PollSleep(d) \/ MarkAbortable(d)
             \/ Wake(d) \/ CancelCall(d) \/ DoNotCancel(d) \/ AfterCancel(d)
    BY <1>1, <2>6 DEF Relock, PollCancel, PollOver, PollSleep, MarkAbortable, Wake, CancelCall,
                      DoNotCancel, AfterCancel, Go
  <2> QED BY <1>6, <2>1, <2>2, <2>3, <2>4, <2>5, <2>6 DEF CallerStep
<1>7. CASE UNCHANGED vars
  BY <1>2, <1>7 DEF vars, control
<1> QED BY <1>4, <1>5, <1>6, <1>7 DEF Next

NothingMarked == \A c \in Callers : pc[c] # "marking"

LEMMA NextNothingMarked ==
  ASSUME Places, Protected, NothingMarked, [Next]_vars
  PROVE  NothingMarked'
BY MarkingBegins DEF Protected, NothingMarked

LEMMA NextProtected ==
  NeverDeferred /\ Owned /\ Owned' /\ Protected /\ NothingMarked /\ [Next]_vars => Protected'
<1> SUFFICES ASSUME NeverDeferred, Owned, Owned', Protected, NothingMarked, [Next]_vars
             PROVE  Protected'
  OBVIOUS
<1>1. CASE UNCHANGED <<agenda, State, With_Abort, Entry_Queues>>
  BY <1>1 DEF Protected, UpdateProtects, Placed, Onqueue, Runs, Serves
<1>2. /\ Places /\ Places'
      /\ State \in [Callers -> States] /\ With_Abort \in [Callers -> BOOLEAN]
  BY DEF Owned, Places, Typed, RecordTyped
<1>3. ASSUME NEW s \in Setters, NEW o \in Objects, NEW b \in SUBSET Entries, CallProcedure(s, o, b)
      PROVE  Protected'
  <2>1. s \in Tasks
    BY DEF Tasks
  <2>2. /\ agenda' = [agenda EXCEPT ![s] = <<Service(o)>>]
        /\ UNCHANGED <<State, With_Abort, Entry_Queues>>
    BY <1>3 DEF CallProcedure, record
  <2>3. <<Service(o)>>[1].act \notin Acting
    BY ServiceFrame
  <2> QED BY <1>2, <2>1, <2>2, <2>3, NothingProtected
<1>4. ASSUME NEW c \in Callers, NEW m \in Modes, NEW o \in Objects, NEW e \in Entries,
             NEW d \in Deferred, CallEntry(c, m, o, e, d)
      PROVE  Protected'
  <2>1. c \in Tasks
    BY DEF Tasks
  <2>2. d = FALSE
    BY DEF NeverDeferred
  <2>3. /\ pc[c] = "idle" /\ agenda' = [agenda EXCEPT ![c] = Retry(o, c)]
        /\ State' = [State EXCEPT ![c] = "Now_Abortable"]
        /\ With_Abort' = [With_Abort EXCEPT ![c] = TRUE]
        /\ UNCHANGED Entry_Queues
    BY <1>4, <2>2 DEF CallEntry, Go, Retry, objects
  <2>4. Retry(o, c)[1].act = "do" /\ Retry(o, c)[1].call = c
    BY CallFrames
  <2>5. \A u \in Tasks : ~Runs(u, c)
    BY <2>1, <2>3, <1>2, NotCalling DEF Placed, Waiting, Runs
  <2>6. agenda'[c] = Retry(o, c)
    BY <1>2, <2>1, <2>3 DEF Places, ControlTyped
  <2>7. ~Runs(c, c)'
    BY <2>4, <2>6 DEF Runs, Trying
  <2>8. /\ State'[c] = "Now_Abortable" /\ With_Abort'[c]
        /\ \A x \in Callers : x # c => State'[x] = State[x] /\ With_Abort'[x] = With_Abort[x]
    BY <1>2, <2>3
  <2> QED BY <1>2, <2>1, <2>3, <2>4, <2>5, <2>7, <2>8, StaysProtected DEF Onqueue
<1>5. ASSUME NEW c \in Callers, CancelCall(c)  PROVE Protected'
  <2>1. c \in Tasks /\ Test_PO[c] \in Objects
    BY <1>2 DEF Tasks, Places, Typed, CallersTyped
  <2>2. /\ agenda' = [agenda EXCEPT ![c] = <<Service(Test_PO[c])>>]
        /\ UNCHANGED With_Abort
        /\ \E x \in Over : State' = [State EXCEPT ![c] = x]
    BY <1>5 DEF CancelCall, Over
  <2>3. <<Service(Test_PO[c])>>[1].act \notin Acting
    BY <2>1, ServiceFrame
  <2>4. /\ State'[c] \in Over /\ State'[c] # "Never_Abortable"
        /\ \A d \in Callers : d # c => State'[d] = State[d]
    BY <1>2, <2>2 DEF Over
  <2>5. \A d \in Callers : Onqueue(d)' => Onqueue(d)
    BY <1>2, <1>5, CancelOnqueue
  <2> QED BY <1>2, <2>1, <2>2, <2>3, <2>4, <2>5, StaysProtected DEF Acting
<1>6. ASSUME NEW c \in Callers, Leave(c)  PROVE Protected'
  <2>1. /\ pc[c] = "leaving" /\ UNCHANGED <<State, agenda, Entry_Queues>>
        /\ With_Abort' = [With_Abort EXCEPT ![c] = TRUE]
    BY <1>6 DEF Leave, Go, objects
  <2>2. \A d \in Callers : With_Abort'[d] \/ With_Abort'[d] = With_Abort[d]
    BY <1>2, <2>1
  <2>3. \A t \in Tasks : UpdateProtects(t)'
    <3> SUFFICES ASSUME NEW t \in Tasks, agenda[t] # <<>>, agenda[t][1].act = "update"
                 PROVE  /\ agenda[t][1].new # "Never_Abortable"
                        /\ ~With_Abort'[agenda[t][1].call] => agenda[t][1].new = "Was_Abortable"
      BY <2>1 DEF UpdateProtects
    <3>1. agenda[t] \in Seq(Frame)
      BY <1>2 DEF Places, ControlTyped
    <3>2. agenda[t][1] \in Frame
      BY <3>1, PopProperties
    <3>3. agenda[t][1].call \in Callers
      BY <3>2 DEF Frame
    <3> QED BY <2>2, <3>3 DEF Protected, UpdateProtects
  <2>4. \A d \in Callers : /\ State'[d] # "Never_Abortable"
                           /\ (~With_Abort'[d] /\ Placed(d)') \/ (\E t \in Tasks : Runs(t, d)') =>
                                State'[d] = "Was_Abortable"
    BY <2>1, <2>2 DEF Protected, Placed, Onqueue, Runs, Serves
  <2> QED BY <2>3, <2>4 DEF Protected
<1>7. \A c \in Callers : ~MarkAbortable(c)
  BY DEF NothingMarked, MarkAbortable, Go
<1>8. CASE \E s \in Setters : ReturnProcedure(s)
  BY <1>1, <1>8 DEF ReturnProcedure, record, objects
<1>9. ASSUME NEW c \in Callers, CallerStep(c) \/ TimeOut(c) \/ AbortTask(c), ~CancelCall(c), ~Leave(c)
      PROVE  Protected'
  BY <1>1, <1>7, <1>9 DEF CallerStep, AfterCall, Relock, PollCancel, PollOver, PollSleep, Wake,
                    TimeOut, TestState, LockServerAgain, DoNotCancel, AfterCancel, AbortTask, control, record, objects
<1>10. CASE UNCHANGED vars
  BY <1>1, <1>10 DEF vars, control, record, objects
<1> QED BY <1>3, <1>4, <1>5, <1>6, <1>8, <1>9, <1>10, ServerProtected DEF Next, ProgramStep

\* A step leaves a call that is not abortable in its queue, or serves it.
LEMMA NextStaysQueued ==
  ASSUME Owned, Owned', Protected, [Next]_vars,
         NEW c \in Callers, ~With_Abort[c], Onqueue(c)
  PROVE  (Onqueue(c) \/ InService(c))'
<1>1. CASE UNCHANGED Entry_Queues
  BY <1>1 DEF Onqueue
<1>2. Places /\ Places' /\ State[c] = "Was_Abortable"
  BY DEF Owned, Protected, Placed
<1>3. ASSUME NEW t \in Tasks, Enqueue(t)  PROVE Onqueue(c)'
  BY <1>2, <1>3, EnqueueOnqueue
<1>4. ASSUME NEW t \in Tasks, NEW e \in Entries, ServiceSelect(t, e)
      PROVE  (Onqueue(c) \/ InService(c))'
  <2>1. CASE c # Head(Served(t, e))
    BY <1>2, <1>4, <2>1, SelectOnqueue
  <2>2. CASE c = Head(Served(t, e))
    <3> DEFINE x == Body(First(t).obj, c, TRUE)
               r == <<x>> \o agenda[t]
    <3>1. agenda' = [agenda EXCEPT ![t] = r] /\ agenda[t] # <<>>
      BY <1>4, <2>2 DEF ServiceSelect, Served, First, At
    <3>2. First(t).obj \in Objects
      BY <3>1, FirstOwned
    <3>3. x \in Frame /\ x.act = "body" /\ x.call = c
      BY <3>2 DEF Body, Frame
    <3> HIDE DEF x
    <3>4. r # <<>> /\ r[1] = x
      <4>1. agenda[t] \in Seq(Frame)
        BY <1>2 DEF Places, ControlTyped
      <4> QED BY <3>3, <4>1, PushProperties
    <3> HIDE DEF r
    <3>5. agenda'[t] = r
      BY <1>2, <3>1 DEF Places, ControlTyped
    <3>6. 1 \in 1..Len(agenda'[t]) /\ agenda'[t][1] = x
      <4>1. agenda'[t] \in Seq(Frame)
        BY <1>2 DEF Places, ControlTyped
      <4> QED BY <3>4, <3>5, <4>1, PopProperties
    <3>7. InService(c)'
      <4>1. \E f \in Frames(t)' : f.act \in {"do", "queue", "update", "body", "after"} /\ f.call = c
        BY <3>3, <3>6 DEF Frames
      <4> QED BY <4>1 DEF InService
    <3> QED BY <3>7
  <2> QED BY <2>1, <2>2
<1>5. ASSUME NEW d \in Callers, CancelCall(d)  PROVE Onqueue(c)'
  <2>1. State[d] = "Now_Abortable"
    BY <1>5 DEF CancelCall, Cancellable
  <2>2. c # d
    BY <1>2, <2>1
  <2> QED BY <1>2, <1>5, <2>2, CancelOnqueue
<1>6. ASSUME NEW t \in Tasks, ServerStep(t)  PROVE (Onqueue(c) \/ InService(c))'
  BY <1>1, <1>3, <1>4, <1>6
     DEF ServerStep, DoBegin, DoQueue, DoCancel, ReadState, BodyCompletes, BodyRequeues,
         AfterDone, RequeueOther, RequeueSame, AfterRequeue, ServiceEnd, objects
<1>7. ASSUME NEW d \in Callers, CallerStep(d) \/ TimeOut(d) \/ AbortTask(d)
      PROVE  Onqueue(c)'
  <2>1. CancelCall(d) \/ UNCHANGED Entry_Queues
    BY <1>7 DEF CallerStep, AfterCall, Relock, PollCancel, PollOver, PollSleep, Wake,
                TestState, MarkAbortable, LockServerAgain, DoNotCancel, AfterCancel, Leave,
                TimeOut, AbortTask, objects
  <2>2. ASSUME UNCHANGED Entry_Queues  PROVE Onqueue(c)'
    BY <2>2 DEF Onqueue
  <2> QED BY <1>5, <2>1, <2>2
<1>8. CASE ProgramStep \/ (\E s \in Setters : ReturnProcedure(s)) \/ UNCHANGED vars
  BY <1>1, <1>8 DEF ProgramStep, CallProcedure, CallEntry, ReturnProcedure, vars, objects
<1> QED BY <1>6, <1>7, <1>8 DEF Next

\* What is an invariant where no call is made with abort already deferred.
Undeferred == Owned /\ Protected /\ NothingMarked

LEMMA UndeferredInvariant ==
  ASSUME NeverDeferred
  PROVE  Spec => []Undeferred
<1>1. Init => Undeferred
  <2>1. Init => AfterBody
    BY DEF Init, AfterBody, AfterBodyOf
  <2>2. Init => Protected
    BY DEF Init, Protected, UpdateProtects, Placed, Onqueue, Contains, Runs, Serves
  <2>3. Init => NothingMarked
    BY DEF Init, NothingMarked, Tasks
  <2> QED BY <2>1, <2>2, <2>3, InitPlaces, InitLocks DEF Owned, Undeferred
<1>2. Undeferred /\ [Next]_vars => Undeferred'
  <2>1. Owned /\ [Next]_vars => Owned'
    BY NextPlaces, NextLocks, NextAfterBody DEF Owned
  <2> QED BY <2>1, NextProtected, NextNothingMarked DEF Undeferred, Owned
<1> QED BY <1>1, <1>2, PTL DEF Spec

\* A call that was requeued without abort leaves its queue only to be served,
\* where no call is made with abort already deferred (New_State, the check of
\* Now_Abortable in Check_Pending_Actions_For_Entry_Call).
THEOREM CallsStayQueued ==
  ASSUME NeverDeferred
  PROVE  Spec => StaysQueued
<1>1. Undeferred /\ Undeferred' /\ [Next]_vars =>
        [\A c \in Callers : ~With_Abort[c] /\ Onqueue(c) => (Onqueue(c) \/ InService(c))']_vars
  BY NextStaysQueued DEF Undeferred
<1> QED BY <1>1, UndeferredInvariant, PTL DEF Spec, StaysQueued

-----------------------------------------------------------------------------
(* What is over stays over.                                                *)

\* A caller that is about to mark its call holds its ATCB, which those that end
\* a call lock.
MarksOpen == \A c \in Callers : pc[c] = "marking" => State[c] \notin Over

\* The state of one call changes, and it does not end while it is to be marked.
LEMMA OneChange ==
  ASSUME Places, MarksOpen, NEW d \in Callers, NEW x, State' = [State EXCEPT ![d] = x],
         x \in Over => State[d] \in Over \/ pc[d] # "marking",
         NEW c \in Callers, pc[c] = "marking"
  PROVE  State'[c] \notin Over
BY DEF Places, Typed, RecordTyped, MarksOpen

LEMMA EndsUnmarked ==
  ASSUME NoneWithin, Owned, MarksOpen, [Next]_vars, NEW c \in Callers, pc[c] = "marking"
  PROVE  State'[c] \notin Over
<1>1. Places /\ State \in [Callers -> States] /\ pc \in [Tasks -> Labels] /\ State[c] \notin Over
  BY DEF Owned, Places, Typed, RecordTyped, ControlTyped, MarksOpen
<1>2. CASE UNCHANGED State
  BY <1>1, <1>2
<1>3. ASSUME NEW d \in Callers, NEW x, State' = [State EXCEPT ![d] = x],
             x \in Over => State[d] \in Over \/ pc[d] # "marking"
      PROVE  State'[c] \notin Over
  BY <1>1, <1>3, OneChange
<1>4. CASE ProgramStep
  BY <1>1, <1>2, <1>3, <1>4 DEF ProgramStep, CallProcedure, CallEntry, Go, record, Over
<1>5. ASSUME NEW t \in Tasks, ServerStep(t)  PROVE State'[c] \notin Over
  <2>1. At(t, "do") \/ At(t, "update") \/ At(t, "after") => First(t).call \in Callers
    BY <1>1, FirstFrame DEF Places, At, First, Acting
  <2>2. CASE DoBegin(t)
    BY <1>3, <2>1, <2>2 DEF DoBegin, NotAbortable, First, Over
  <2>3. CASE DoCancel(t)
    BY <1>3, <2>1, <2>3 DEF DoCancel, Wakeup_Entry_Caller, ATCBFree, First
  <2>4. CASE AfterDone(t)
    BY <1>3, <2>1, <2>4 DEF AfterDone, Wakeup_Entry_Caller, ATCBFree, First
  <2>5. CASE Enqueue(t)
    <3>1. First(t).new \notin Over /\ State' = [State EXCEPT ![First(t).call] = First(t).new]
      BY <1>1, <2>5, EnqueueFrame
    <3>2. First(t).call \in Callers
      BY <2>1, <2>5 DEF Enqueue
    <3> QED BY <1>3, <3>1, <3>2
  <2>6. CASE RequeueSame(t)
    <3> DEFINE d == First(t).call
    <3>1. d \in Callers /\ agenda[t] # <<>> /\ First(t) = agenda[t][1] /\ First(t).act = "after"
      BY <1>1, <2>6, AfterFrame DEF RequeueSame
    <3> HIDE DEF d
    <3>2. Call_In_Progress[First(t).obj] = NoTask /\ Called_PO[d] = First(t).obj
      BY <2>6 DEF RequeueSame, First, d
    <3>3. ~With_Abort[d]
      <4>1. [from |-> First(t).obj, to |-> Called_PO[d], with_abort |-> With_Abort[d]] \in Requeues
        BY <3>1, <3>2 DEF Owned, AfterBody, AfterBodyOf, d
      <4> QED BY <3>2, <4>1 DEF NoneWithin
    <3>4. UNCHANGED State
      BY <1>1, <2>6, <3>1, <3>3, RequeueSameCases DEF d
    <3> QED BY <1>2, <3>4
  <2>7. ASSUME NEW e \in Entries, ServiceSelect(t, e)  PROVE State'[c] \notin Over
    <3> DEFINE d == Head(Served(t, e))
    <3>1. d \in Callers
      BY <1>1, <2>7, SelectedCall
    <3>2. State' = [State EXCEPT ![d] = IF @ = "Now_Abortable" THEN "Was_Abortable" ELSE @]
      BY <2>7 DEF ServiceSelect, NotAbortable, Served, First
    <3> HIDE DEF d
    <3>3. State' = [State EXCEPT ![d] = IF State[d] = "Now_Abortable" THEN "Was_Abortable" ELSE State[d]]
      BY <3>2
    <3> QED BY <1>3, <3>1, <3>3 DEF Over
  <2>8. CASE \/ DoQueue(t) \/ ReadState(t) \/ BodyCompletes(t) \/ RequeueOther(t)
             \/ AfterRequeue(t) \/ ServiceEnd(t)
             \/ \E r \in Requeues, e \in Entries : BodyRequeues(t, r, e)
    BY <1>2, <2>8 DEF DoQueue, ReadState, BodyCompletes, BodyRequeues, RequeueOther,
                      AfterRequeue, ServiceEnd, record
  <2> QED BY <1>5, <2>2, <2>3, <2>4, <2>5, <2>6, <2>7, <2>8 DEF ServerStep
<1>6. CASE \E s \in Setters : ReturnProcedure(s)
  BY <1>2, <1>6 DEF ReturnProcedure, record
<1>7. ASSUME NEW d \in Callers, CallerStep(d) \/ TimeOut(d) \/ AbortTask(d)
      PROVE  State'[c] \notin Over
  <2>1. CASE CancelCall(d)
    BY <1>3, <2>1 DEF CancelCall, Go
  <2>2. CASE MarkAbortable(d)
    BY <1>3, <2>2 DEF MarkAbortable, Over
  <2>3. CASE ~CancelCall(d) /\ ~MarkAbortable(d)
    BY <1>2, <1>7, <2>3 DEF CallerStep, TimeOut, TestState, AfterCall, Relock, PollCancel,
         PollOver, PollSleep, Wake, LockServerAgain, DoNotCancel, AfterCancel, Leave, AbortTask, record
  <2> QED BY <2>1, <2>2, <2>3
<1>8. CASE UNCHANGED vars
  BY <1>2, <1>8 DEF vars, record
<1> QED BY <1>4, <1>5, <1>6, <1>7, <1>8 DEF Next

LEMMA NextMarksOpen == NoneWithin /\ Owned /\ MarksOpen /\ [Next]_vars => MarksOpen'
<1> SUFFICES ASSUME NoneWithin, Owned, MarksOpen, [Next]_vars, NEW c \in Callers, pc'[c] = "marking"
             PROVE  State'[c] \notin Over
  BY DEF MarksOpen
<1>1. CASE pc[c] = "marking"
  BY <1>1, EndsUnmarked
<1>2. CASE pc[c] # "marking"
  BY <1>2, MarkingBegins DEF Owned, Over
<1> QED BY <1>1, <1>2

\* A step changes no call that is over, if those to be marked are not.
LEMMA StaysOver ==
  ASSUME Places, MarksOpen, [Next]_vars, NEW c \in Callers, State[c] \in Over, pc[c] # "idle"
  PROVE  State'[c] = State[c]
<1>1. ~MarkAbortable(c)
  BY DEF MarksOpen, MarkAbortable, Go
<1>2. ~Placed(c)
  BY DEF Places, NotOver
<1> QED BY <1>1, <1>2, StateChanges

\* "If State >= Done, it will not change until the task does another entry call
\* at this level" (s-taskin.ads:306-308): so it is where no call is made with
\* abort already deferred, so that a time-out finds nothing to mark
\* (s-taenca.adb:571-577), or none is requeued with abort to its own object, so
\* that nothing is cancelled without its caller's lock (Requeue_Call).
THEOREM OverStaysOver ==
  ASSUME NeverDeferred \/ NoneWithin
  PROVE  Spec => OverIsFinal
<1>1. CASE NeverDeferred
  <2>1. Undeferred /\ [Next]_vars =>
          [\A c \in Callers : State[c] \in Over /\ pc[c] # "idle" => State'[c] = State[c]]_vars
    BY StaysOver DEF Undeferred, NothingMarked, MarksOpen, Owned
  <2>2. Spec => []Undeferred
    BY <1>1, UndeferredInvariant
  <2> QED BY <2>1, <2>2, PTL DEF Spec, OverIsFinal
<1>2. CASE NoneWithin
  <2>1. Init => Owned /\ MarksOpen
    <3>1. Init => AfterBody
      BY DEF Init, AfterBody, AfterBodyOf
    <3>2. Init => MarksOpen
      BY DEF Init, MarksOpen, Tasks
    <3> QED BY <3>1, <3>2, InitPlaces, InitLocks DEF Owned
  <2>2. Owned /\ MarksOpen /\ [Next]_vars => (Owned /\ MarksOpen)'
    BY <1>2, NextPlaces, NextLocks, NextAfterBody, NextMarksOpen DEF Owned
  <2>3. Owned /\ MarksOpen /\ [Next]_vars =>
          [\A c \in Callers : State[c] \in Over /\ pc[c] # "idle" => State'[c] = State[c]]_vars
    BY StaysOver DEF Owned
  <2> QED BY <2>1, <2>2, <2>3, PTL DEF Spec, OverIsFinal
<1> QED BY <1>1, <1>2
=============================================================================
