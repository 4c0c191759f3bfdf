-------------------------- MODULE ProcessList_proofs --------------------------
(***************************************************************************)
(* ListedHandlesOpen for any number of tasks, handles and processes, and   *)
(* whether or not the system gives the number of a closed handle again;    *)
(* ReportedOnce where it does not.                                         *)
(***************************************************************************)
EXTENDS ProcessList, WellFoundedInduction, TLAPS

Entry == [h : Handles, pid : Pids]

Labels == {"idle", "child", "add", "start", "copy", "call", "blocked", "exitcode",
           "remove", "signal", "return", "pidwait", "pidremove", "pidsignal"}

\* The part of the state the list depends on.
Typed ==
  /\ list \in Seq(Entry)
  /\ handle \in [Handles -> Processes \cup {Unused, Closed}]
  /\ pidOf \in [Processes -> Pids \cup {NoPid}]
  /\ pc \in [Tasks -> Labels]
  /\ own \in [Tasks -> Handles \cup {NULL}]
  /\ DOMAIN got = Tasks

\* A handle names only processes that were created.
NamesCreated == \A h \in Handles : handle[h] \in Processes => pidOf[handle[h]] \in Pids

\* The tasks that hold a handle nobody else knows.
Holding == {"child", "add", "pidwait"}

\* A task's own handle is open, not listed and no other task's.
OwnPrivate ==
  /\ \A t \in Tasks : pc[t] \in Holding =>
       /\ own[t] \in Handles
       /\ handle[own[t]] \in Processes
       /\ \A j \in DOMAIN list : list[j].h # own[t]
  /\ \A t, u \in Tasks : pc[t] \in Holding /\ pc[u] \in Holding /\ own[t] = own[u] => t = u

\* A spawn lists its handle with the identifier of its process.
SpawnedPid == \A t \in Tasks : pc[t] = "add" => got[t].pid = pidOf[handle[own[t]]]

\* A step of task t's: no other task moves or forgets what it goes on with.
Moves(t) ==
  /\ pc' \in [Tasks -> Labels]
  /\ DOMAIN got' = Tasks
  /\ \A u \in Tasks : u # t => pc'[u] = pc[u] /\ got'[u] = got[u]

\* The inductive invariant.
Inv == Typed /\ NamesCreated /\ OwnPrivate /\ SpawnedPid /\ ListedHandlesOpen

-----------------------------------------------------------------------------
\* Neither mark of a handle that is not open is a process.
LEMMA MarksNoProcess == Unused \notin Processes /\ Closed \notin Processes
  BY MaxSpawnAssumption DEF Unused, Closed, Processes

\* A nonempty set of naturals has a first element.
LEMMA FirstOfNaturals ==
  ASSUME NEW S, S \subseteq Nat, S # {}
  PROVE  \E j \in S : \A k \in S : j <= k
<1>1. PICK j \in S : \A k \in S : ~ (<<k, j>> \in OpToRel(<, Nat))
  BY NatLessThanWellFounded, WFMin
<1>2. \A k \in S : ~ (k < j)
  BY <1>1 DEF OpToRel
<1> QED BY <1>2

\* The list without one of its entries: the others, each once.
LEMMA RemoveEntryLemma ==
  ASSUME list \in Seq(Entry), NEW j \in DOMAIN list, RemoveEntry(j)
  PROVE  /\ list' \in Seq(Entry)
         /\ \A k \in DOMAIN list' : \E m \in DOMAIN list : m # j /\ list'[k] = list[m]
         /\ ListedHandlesOpen =>
              \A k, l \in DOMAIN list' : list'[k].h = list'[l].h => k = l
<1> DEFINE n == Len(list)
           At(k) == IF k = j THEN list[n] ELSE list[k]
<1>1. /\ n \in Nat /\ DOMAIN list = 1 .. n
      /\ \A k \in 1 .. n : list[k] \in Entry
      /\ j \in 1 .. n
  OBVIOUS
<1>2. list' = [k \in 1 .. n - 1 |-> At(k)]
  BY DEF RemoveEntry
<1>3. \A k \in 1 .. n - 1 : At(k) \in Entry
  BY <1>1
<1>4. list' \in Seq(Entry)
  <2>1. n - 1 \in Nat
    BY <1>1
  <2> HIDE DEF At, n
  <2> QED BY <1>2, <1>3, <2>1
<1>5. DOMAIN list' = 1 .. n - 1
  BY <1>2
<1>6. \A k \in DOMAIN list' : list'[k] = At(k)
  BY <1>2, <1>5
<1>7. \A k \in DOMAIN list' : \E m \in DOMAIN list : m # j /\ list'[k] = list[m]
  <2> TAKE k \in DOMAIN list'
  <2> DEFINE m == IF k = j THEN n ELSE k
  <2>1. m \in DOMAIN list /\ m # j
    BY <1>1, <1>5
  <2>2. list'[k] = list[m]
    BY <1>6
  <2> QED BY <2>1, <2>2
<1>8. ASSUME NEW k \in DOMAIN list', NEW l \in DOMAIN list',
             list'[k].h = list'[l].h, ListedHandlesOpen
      PROVE  k = l
  <2>1. \A p, q \in 1 .. n : list[p].h = list[q].h => p = q
    BY <1>8, <1>1 DEF ListedHandlesOpen
  <2>2. k \in 1 .. n - 1 /\ l \in 1 .. n - 1
    BY <1>5, <1>8
  <2>3. At(k).h = At(l).h
    BY <1>6, <1>8
  <2> QED BY <1>1, <2>1, <2>2, <2>3
<1> QED BY <1>4, <1>7, <1>8

-----------------------------------------------------------------------------
\* A step that leaves the list, the handles and the tasks' own ones alone,
\* by a task that holds none.
LEMMA QuietLemma ==
  ASSUME Inv, NEW t \in Tasks, Moves(t), pc'[t] \notin Holding,
         UNCHANGED <<list, handle, pidOf, own>>
  PROVE  Inv'
<1>1. /\ pc' \in [Tasks -> Labels] /\ DOMAIN got' = Tasks
      /\ \A u \in Tasks : u # t => pc'[u] = pc[u] /\ got'[u] = got[u]
  BY DEF Moves
<1>2. Typed'
  BY <1>1 DEF Inv, Typed
<1>3. NamesCreated'
  BY DEF Inv, NamesCreated
<1>4. \A u \in Tasks : pc'[u] \in Holding => u # t /\ pc[u] \in Holding
  BY <1>1
<1>5. OwnPrivate'
  BY <1>4 DEF Inv, OwnPrivate
<1>6. SpawnedPid'
  <2>1. ASSUME NEW u \in Tasks, pc'[u] = "add"  PROVE got'[u].pid = pidOf'[handle'[own'[u]]]
    <3>1. u # t /\ pc[u] = "add"
      BY <1>1, <2>1 DEF Holding
    <3> QED BY <1>1, <3>1 DEF Inv, SpawnedPid
  <2> QED BY <2>1 DEF SpawnedPid
<1>7. ListedHandlesOpen'
  BY DEF Inv, ListedHandlesOpen
<1> QED BY <1>2, <1>3, <1>5, <1>6, <1>7 DEF Inv

\* A task gives its own handle back: the list does not know it.
LEMMA CloseOwnLemma ==
  ASSUME Inv, NEW t \in Tasks, Moves(t), pc[t] \in Holding, pc'[t] \notin Holding,
         CloseHandle(own[t]), own' = [own EXCEPT ![t] = NULL],
         UNCHANGED <<list, pidOf>>
  PROVE  Inv'
<1>1. /\ pc' \in [Tasks -> Labels] /\ DOMAIN got' = Tasks
      /\ \A u \in Tasks : u # t => pc'[u] = pc[u] /\ own'[u] = own[u] /\ got'[u] = got[u]
      /\ own' \in [Tasks -> Handles \cup {NULL}]
  BY DEF Inv, Typed, Moves
<1>2. own[t] \in Handles
  BY DEF Inv, OwnPrivate
<1>3. /\ handle' \in [Handles -> Processes \cup {Unused, Closed}]
      /\ handle'[own[t]] \notin Processes
      /\ \A h \in Handles : h # own[t] => handle'[h] = handle[h]
  BY <1>2, MarksNoProcess DEF CloseHandle, Inv, Typed
<1>4. Typed'
  BY <1>1, <1>3 DEF Inv, Typed
<1>5. NamesCreated'
  BY <1>3 DEF Inv, NamesCreated
<1>6. \A u \in Tasks : pc'[u] \in Holding =>
        /\ u # t /\ pc[u] \in Holding /\ own'[u] = own[u] /\ own[u] \in Handles
        /\ own[u] # own[t] /\ handle'[own[u]] = handle[own[u]]
  BY <1>1, <1>3 DEF Inv, OwnPrivate
<1>7. OwnPrivate'
  BY <1>6 DEF Inv, OwnPrivate
<1>8. SpawnedPid'
  <2>1. ASSUME NEW u \in Tasks, pc'[u] = "add"  PROVE got'[u].pid = pidOf'[handle'[own'[u]]]
    <3>1. pc'[u] \in Holding /\ u # t /\ pc[u] = "add"
      BY <1>1, <2>1 DEF Holding
    <3> QED BY <1>1, <3>1, <1>6 DEF Inv, SpawnedPid
  <2> QED BY <2>1 DEF SpawnedPid
<1>9. \A j \in DOMAIN list : list[j].h \in Handles /\ list[j].h # own[t]
  <2>1. \A j \in DOMAIN list : list[j] \in Entry
    BY DEF Inv, Typed
  <2> QED BY <2>1 DEF Inv, OwnPrivate, Entry
<1>10. ListedHandlesOpen'
  BY <1>3, <1>9 DEF Inv, ListedHandlesOpen
<1> QED BY <1>4, <1>5, <1>7, <1>8, <1>10 DEF Inv

\* __gnat_win32_remove_handle, called with a handle or with an identifier:
\* the handle it closes was that of the entry it takes away.
LEMMA RemoveHandleLemma ==
  ASSUME Inv, NEW t \in Tasks, NEW h, NEW pid,
         NEW then \in Labels \ Holding, NEW else \in Labels \ Holding,
         h = NULL \/ pid = NoPid,
         win32_remove_handle(t, h, pid, then, else),
         UNCHANGED <<pidOf, own, got>>
  PROVE  Inv'
<1>1. CASE Entries(h, pid) = {}
  <2>1. UNCHANGED <<list, handle>> /\ Goto(t, else)
    BY <1>1 DEF win32_remove_handle
  <2>2. Moves(t) /\ pc'[t] \notin Holding
    BY <2>1 DEF Moves, Goto, Inv, Typed
  <2> QED BY <2>1, <2>2, QuietLemma
<1>2. CASE Entries(h, pid) # {}
  <2>1. Entries(h, pid) \subseteq DOMAIN list
    BY DEF Entries
  <2>2. \E j \in Entries(h, pid) : \A k \in Entries(h, pid) : j <= k
    <3>1. Entries(h, pid) \subseteq Nat
      BY <2>1 DEF Inv, Typed
    <3> QED BY <1>2, <3>1, FirstOfNaturals
  <2>3. PICK j \in Entries(h, pid) : RemoveEntry(j)
    BY <1>2, <2>2 DEF win32_remove_handle
  <2>4. CloseHandle(h) /\ Goto(t, then)
    BY <1>2 DEF win32_remove_handle
  <2>5. /\ j \in DOMAIN list
        /\ list[j].h = h \/ list[j].pid = pid
        /\ list[j] \in Entry
    BY <2>1 DEF Entries, Inv, Typed
  <2>6. h \in Handles => list[j].h = h
    BY <2>5, NoneAssumption DEF Entry
  <2>7. /\ list' \in Seq(Entry)
        /\ \A k \in DOMAIN list' : \E m \in DOMAIN list : m # j /\ list'[k] = list[m]
        /\ \A k, l \in DOMAIN list' : list'[k].h = list'[l].h => k = l
    BY <2>3, <2>5, RemoveEntryLemma DEF Inv, Typed
  <2>8. /\ handle' \in [Handles -> Processes \cup {Unused, Closed}]
        /\ \A g \in Handles : handle'[g] = handle[g] \/ handle'[g] \notin Processes
        /\ \A g \in Handles : g # h => handle'[g] = handle[g]
    BY <2>4, MarksNoProcess DEF CloseHandle, Inv, Typed
  <2>9. \A k \in DOMAIN list' : \E m \in DOMAIN list :
          /\ list'[k] = list[m] /\ list[m].h \in Handles /\ list[m].h # list[j].h
    <3>1. \A m \in DOMAIN list : list[m].h \in Handles /\ (m # j => list[m].h # list[j].h)
      <4>1. \A m \in DOMAIN list : list[m] \in Entry
        BY DEF Inv, Typed
      <4> QED BY <2>5, <4>1 DEF Inv, Entry, ListedHandlesOpen
    <3> QED BY <2>7, <3>1
  <2>10. /\ pc' \in [Tasks -> Labels]
         /\ \A u \in Tasks : pc'[u] \in Holding => pc[u] = pc'[u]
    BY <2>4 DEF Goto, Inv, Typed
  <2>11. \A u \in Tasks : pc'[u] \in Holding => own[u] \in Handles /\ own[u] # h
    BY <2>5, <2>6, <2>10 DEF Inv, OwnPrivate
  <2>12. Typed'
    BY <2>7, <2>8, <2>10 DEF Inv, Typed
  <2>13. NamesCreated'
    BY <2>8 DEF Inv, NamesCreated
  <2>14. OwnPrivate'
    BY <2>8, <2>9, <2>10, <2>11 DEF Inv, OwnPrivate
  <2>15. SpawnedPid'
    BY <2>8, <2>10, <2>11 DEF Inv, SpawnedPid, Holding
  <2>16. ListedHandlesOpen'
    <3>1. ASSUME NEW k \in DOMAIN list'
          PROVE  handle'[list'[k].h] \in Processes /\ pidOf'[handle'[list'[k].h]] = list'[k].pid
      <4>1. PICK m \in DOMAIN list :
              list'[k] = list[m] /\ list[m].h \in Handles /\ list[m].h # list[j].h
        BY <2>9
      <4>2. handle'[list[m].h] = handle[list[m].h]
        BY <2>6, <2>8, <4>1
      <4> QED BY <4>1, <4>2 DEF Inv, ListedHandlesOpen
    <3> QED BY <3>1, <2>7 DEF ListedHandlesOpen
  <2> QED BY <2>12, <2>13, <2>14, <2>15, <2>16 DEF Inv
<1> QED BY <1>1, <1>2

-----------------------------------------------------------------------------
LEMMA InitInv == Init => Inv
<1> SUFFICES ASSUME Init PROVE Inv
  OBVIOUS
<1>1. Typed
  BY DEF Init, Typed, Labels
<1>2. NamesCreated
  BY MarksNoProcess DEF Init, NamesCreated
<1>3. OwnPrivate /\ SpawnedPid
  BY DEF Init, OwnPrivate, SpawnedPid, Holding
<1>4. ListedHandlesOpen
  BY DEF Init, ListedHandlesOpen
<1> QED BY <1>1, <1>2, <1>3, <1>4 DEF Inv

\* A new handle names a process with an identifier, and nobody holds it yet.
LEMMA NewHandleLemma ==
  ASSUME Inv, NEW t \in Tasks, Moves(t), pc[t] = "idle", pc'[t] \in Holding,
         NEW i \in Processes, NEW h \in Handles, handle[h] = Unused,
         handle' = [handle EXCEPT ![h] = i], own' = [own EXCEPT ![t] = h],
         list' = list, pidOf' \in [Processes -> Pids \cup {NoPid}], pidOf'[i] \in Pids,
         \A k \in Processes : pidOf[k] \in Pids => pidOf'[k] = pidOf[k],
         pc'[t] = "add" => got'[t].pid = pidOf'[i]
  PROVE  Inv'
<1>1. /\ pc' \in [Tasks -> Labels] /\ pc[t] \notin Holding /\ DOMAIN got' = Tasks
      /\ \A u \in Tasks : u # t => pc'[u] = pc[u] /\ own'[u] = own[u] /\ got'[u] = got[u]
      /\ own' \in [Tasks -> Handles \cup {NULL}] /\ own'[t] = h
  BY DEF Inv, Typed, Moves, Holding
<1>2. /\ handle' \in [Handles -> Processes \cup {Unused, Closed}]
      /\ handle'[h] = i
      /\ \A g \in Handles : g # h => handle'[g] = handle[g]
  BY DEF Inv, Typed
<1>3. handle[h] \notin Processes
  BY MarksNoProcess
<1>4. Typed'
  BY <1>1, <1>2 DEF Inv, Typed
<1>5. NamesCreated'
  BY <1>2 DEF Inv, NamesCreated
<1>6. \A u \in Tasks : u # t /\ pc'[u] \in Holding =>
        /\ pc[u] = pc'[u] /\ own'[u] = own[u] /\ own[u] \in Handles
        /\ own[u] # h /\ handle'[own[u]] = handle[own[u]]
  BY <1>1, <1>2, <1>3 DEF Inv, OwnPrivate
<1>7. \A j \in DOMAIN list : list[j].h \in Handles /\ list[j].h # h
  <2>1. \A j \in DOMAIN list : list[j] \in Entry
    BY DEF Inv, Typed
  <2> QED BY <2>1, <1>3 DEF Inv, ListedHandlesOpen, Entry
<1>8. OwnPrivate'
  BY <1>1, <1>2, <1>6, <1>7 DEF Inv, OwnPrivate
<1>9. SpawnedPid'
  <2>1. ASSUME NEW u \in Tasks, pc'[u] = "add"  PROVE got'[u].pid = pidOf'[handle'[own'[u]]]
    <3>1. CASE u = t
      BY <3>1, <2>1, <1>1, <1>2
    <3>2. CASE u # t
      <4>1. pc'[u] \in Holding
        BY <2>1 DEF Holding
      <4>2. handle[own[u]] \in Processes /\ own[u] \in Handles /\ pc[u] = "add"
        BY <2>1, <3>2, <4>1, <1>6 DEF Inv, OwnPrivate
      <4> QED BY <4>1, <4>2, <3>2, <1>1, <1>6 DEF Inv, SpawnedPid, NamesCreated
    <3> QED BY <3>1, <3>2
  <2> QED BY <2>1 DEF SpawnedPid
<1>10. ListedHandlesOpen'
  <2>1. \A j \in DOMAIN list : handle'[list[j].h] = handle[list[j].h]
    BY <1>2, <1>7
  <2>2. \A j \in DOMAIN list : pidOf'[handle[list[j].h]] = pidOf[handle[list[j].h]]
    BY <1>7 DEF Inv, ListedHandlesOpen, NamesCreated
  <2> QED BY <2>1, <2>2 DEF Inv, ListedHandlesOpen
<1> QED BY <1>4, <1>5, <1>8, <1>9, <1>10 DEF Inv

LEMMA SpawnInv ==
  ASSUME Inv, NEW t \in Tasks, NEW blocking \in BOOLEAN, win32_spawn(t, blocking)
  PROVE  Inv'
<1>1. PICK i \in Processes \ Created, h \in FreeHandles, p \in FreePids :
        /\ \A j \in Processes \ Created : i <= j
        /\ handle' = [handle EXCEPT ![h] = i]
        /\ pidOf' = [pidOf EXCEPT ![i] = p]
        /\ own' = [own EXCEPT ![t] = h]
        /\ got' = [got EXCEPT ![t] = [NoGot EXCEPT !.pid = p]]
  BY Zenon DEF win32_spawn
<1>2. i \in Processes /\ h \in Handles /\ handle[h] = Unused /\ p \in Pids
  BY DEF FreeHandles, FreePids
<1>3. pidOf[i] = NoPid
  BY DEF Created
<1>4. /\ pidOf' \in [Processes -> Pids \cup {NoPid}] /\ pidOf'[i] = p
      /\ \A k \in Processes : pidOf[k] \in Pids => pidOf'[k] = pidOf[k]
  BY <1>1, <1>2, <1>3, NoneAssumption DEF Inv, Typed
<1>5. got'[t].pid = p
  BY <1>1 DEF Inv, Typed, NoGot
<1>6. pc[t] = "idle" /\ list' = list /\ (Goto(t, "child") \/ Goto(t, "add"))
  BY DEF win32_spawn
<1>7. Moves(t) /\ pc'[t] \in Holding
  BY <1>1, <1>6 DEF Moves, Goto, Labels, Holding, Inv, Typed
<1> QED BY <1>1, <1>2, <1>4, <1>5, <1>6, <1>7, NewHandleLemma

LEMMA OpenInv ==
  ASSUME Inv, NEW t \in Tasks, NEW pid \in Pids, OpenProcess(t, pid)
  PROVE  Inv'
<1> DEFINE named == {i \in Created : pidOf[i] = pid /\ Alive(i)}
<1>1. got' = [got EXCEPT ![t] = [NoGot EXCEPT !.pid = pid]]
  BY DEF OpenProcess
<1>2. CASE named = {}
  <2>1. Goto(t, "pidremove") /\ UNCHANGED <<list, handle, pidOf, own>>
    BY <1>2 DEF OpenProcess
  <2>2. Moves(t) /\ pc'[t] \notin Holding
    BY <1>1, <2>1 DEF Moves, Goto, Labels, Holding, Inv, Typed
  <2> QED BY <2>1, <2>2, QuietLemma
<1>3. CASE named # {}
  <2>1. PICK i \in named, h \in FreeHandles :
          /\ handle' = [handle EXCEPT ![h] = i]
          /\ own' = [own EXCEPT ![t] = h]
          /\ Goto(t, "pidwait")
    BY <1>3 DEF OpenProcess
  <2>2. i \in Processes /\ pidOf[i] \in Pids /\ h \in Handles /\ handle[h] = Unused
    BY DEF Created, FreeHandles
  <2>3. pc[t] = "idle" /\ list' = list /\ pidOf' = pidOf
    BY DEF OpenProcess
  <2>4. Moves(t) /\ pc'[t] \in Holding /\ pc'[t] # "add"
    BY <1>1, <2>1 DEF Moves, Goto, Labels, Holding, Inv, Typed
  <2>5. pidOf \in [Processes -> Pids \cup {NoPid}]
    BY DEF Inv, Typed
  <2> HIDE DEF named
  <2> QED BY <2>1, <2>2, <2>3, <2>4, <2>5, NewHandleLemma
<1> QED BY <1>2, <1>3

\* A spawn hands its private handle over to the list.
LEMMA AddInv ==
  ASSUME Inv, NEW t \in Tasks, add_handle(t)
  PROVE  Inv'
<1> DEFINE e == [h |-> own[t], pid |-> got[t].pid]
           n == Len(list)
<1>1. /\ pc[t] = "add" /\ list' = Append(list, e)
      /\ own' = [own EXCEPT ![t] = NULL] /\ got' = [got EXCEPT ![t] = NoGot]
      /\ Goto(t, "idle") /\ UNCHANGED <<handle, pidOf>>
  BY DEF add_handle
<1>2. /\ own[t] \in Handles /\ handle[own[t]] \in Processes
      /\ \A j \in DOMAIN list : list[j].h # own[t]
      /\ got[t].pid = pidOf[handle[own[t]]] /\ got[t].pid \in Pids
  BY <1>1 DEF Inv, OwnPrivate, SpawnedPid, NamesCreated, Holding
<1>3. e \in Entry
  BY <1>2 DEF Entry
<1>4. /\ list' \in Seq(Entry) /\ DOMAIN list' = 1 .. n + 1 /\ list'[n + 1] = e
      /\ n \in Nat /\ DOMAIN list = 1 .. n
      /\ \A k \in 1 .. n : list'[k] = list[k]
  <2> HIDE DEF e
  <2> QED BY <1>1, <1>3 DEF Inv, Typed
<1>5. /\ pc' \in [Tasks -> Labels] /\ own' \in [Tasks -> Handles \cup {NULL}]
      /\ DOMAIN got' = Tasks /\ pc'[t] = "idle"
      /\ \A u \in Tasks : u # t => pc'[u] = pc[u] /\ own'[u] = own[u] /\ got'[u] = got[u]
  <2> HIDE DEF e, n
  <2> QED BY <1>1 DEF Inv, Typed, Goto, Labels
<1>6. Typed'
  BY <1>1, <1>4, <1>5 DEF Inv, Typed
<1>7. NamesCreated'
  BY <1>1 DEF Inv, NamesCreated
<1>8. \A u \in Tasks : pc'[u] \in Holding => u # t /\ pc[u] \in Holding /\ own'[u] = own[u]
  BY <1>5 DEF Holding
<1>9. \A k \in DOMAIN list' :
        \/ k \in DOMAIN list /\ list'[k] = list[k]
        \/ k = n + 1 /\ list'[k] = e
  <2> HIDE DEF e, n
  <2> QED BY <1>4
<1>10. OwnPrivate'
  <2>1. pc[t] \in Holding
    BY <1>1 DEF Holding
  <2> QED BY <1>1, <1>8, <1>9, <2>1 DEF Inv, OwnPrivate
<1>11. SpawnedPid'
  BY <1>1, <1>5 DEF Inv, SpawnedPid
<1>12. ListedHandlesOpen'
  BY <1>1, <1>2, <1>9 DEF Inv, ListedHandlesOpen
<1> QED BY <1>6, <1>7, <1>10, <1>11, <1>12 DEF Inv

LEMMA NextInv == Inv /\ [Next]_vars => Inv'
<1> SUFFICES ASSUME Inv, [Next]_vars PROVE Inv'
  OBVIOUS
<1>1. ASSUME NEW i \in Processes, Exit(i)  PROVE Inv'
  BY <1>1 DEF Exit, Inv, Typed, NamesCreated, OwnPrivate, SpawnedPid, ListedHandlesOpen
<1>2. ASSUME NEW t \in Tasks, Wait(t)  PROVE Inv'
  <2>1. Moves(t) /\ pc'[t] \notin Holding /\ UNCHANGED <<list, handle, pidOf, own>>
    BY <1>2 DEF Wait, Moves, Goto, Labels, Holding, Inv, Typed
  <2> QED BY <2>1, QuietLemma
<1>3. ASSUME NEW t \in Tasks, NEW blocking \in BOOLEAN, win32_spawn(t, blocking)  PROVE Inv'
  BY <1>3, SpawnInv
<1>4. ASSUME NEW t \in Tasks, NEW pid \in Pids, OpenProcess(t, pid)  PROVE Inv'
  BY <1>4, OpenInv
<1>5. ASSUME NEW t \in Tasks, Step(t)  PROVE Inv'
  <2>1. CASE BlockingSpawnEnds(t)
    <3>1. /\ CloseHandle(own[t]) /\ own' = [own EXCEPT ![t] = NULL]
          /\ UNCHANGED <<list, pidOf>>
      BY <2>1 DEF BlockingSpawnEnds
    <3>2. Moves(t) /\ pc[t] \in Holding /\ pc'[t] \notin Holding
      BY <2>1 DEF BlockingSpawnEnds, Moves, Goto, Labels, Holding, Inv, Typed
    <3> QED BY <3>1, <3>2, CloseOwnLemma
  <2>2. CASE add_handle(t)
    BY <2>2, AddInv
  <2>3. CASE SignalListChanged(t)
    <3>1. Moves(t) /\ pc'[t] \notin Holding /\ UNCHANGED <<list, handle, pidOf, own>>
      BY <2>3 DEF SignalListChanged, Moves, Goto, Labels, Holding, Inv, Typed
    <3> QED BY <3>1, QuietLemma
  <2>4. CASE StartWait(t)
    <3>1. Moves(t) /\ pc'[t] \notin Holding /\ UNCHANGED <<list, handle, pidOf, own>>
      BY <2>4 DEF StartWait, Moves, Goto, Labels, Holding, Inv, Typed
    <3> QED BY <3>1, QuietLemma
  <2>5. CASE CopyList(t)
    <3>1. Moves(t) /\ pc'[t] \notin Holding /\ UNCHANGED <<list, handle, pidOf, own>>
      BY <2>5 DEF CopyList, Moves, Goto, Labels, Holding, Inv, Typed
    <3> QED BY <3>1, QuietLemma
  <2>6. CASE WaitForMultipleObjects(t)
    <3>1. Moves(t) /\ pc'[t] \notin Holding /\ UNCHANGED <<list, handle, pidOf, own>>
      BY <2>6 DEF WaitForMultipleObjects, Moves, Goto, Labels, Holding, Inv, Typed
    <3> QED BY <3>1, QuietLemma
  <2>7. CASE ListChanged(t)
    <3>1. Moves(t) /\ pc'[t] \notin Holding /\ UNCHANGED <<list, handle, pidOf, own>>
      BY <2>7 DEF ListChanged, Moves, Goto, Labels, Holding, Inv, Typed
    <3> QED BY <3>1, QuietLemma
  <2>8. CASE ChildEnded(t)
    <3>1. Moves(t) /\ pc'[t] \notin Holding /\ UNCHANGED <<list, handle, pidOf, own>>
      BY <2>8 DEF ChildEnded, Moves, Goto, Labels, Holding, Inv, Typed
    <3> QED BY <3>1, QuietLemma
  <2>9. CASE GetExitCodeProcess(t)
    <3>1. Moves(t) /\ pc'[t] \notin Holding /\ UNCHANGED <<list, handle, pidOf, own>>
      BY <2>9 DEF GetExitCodeProcess, Moves, Goto, Labels, Holding, Inv, Typed
    <3> QED BY <3>1, QuietLemma
  <2>10. CASE RemoveEnded(t)
    <3>1. /\ win32_remove_handle(t, got[t].h, NoPid, "signal", "start")
          /\ UNCHANGED <<pidOf, own, got>>
      BY <2>10 DEF RemoveEnded
    <3>2. "signal" \in Labels \ Holding /\ "start" \in Labels \ Holding
      BY DEF Holding, Labels
    <3> QED BY <3>1, <3>2, RemoveHandleLemma
  <2>11. CASE ReturnFromWait(t)
    <3>1. Moves(t) /\ pc'[t] \notin Holding /\ UNCHANGED <<list, handle, pidOf, own>>
      BY <2>11 DEF ReturnFromWait, Moves, Goto, Labels, Holding, Inv, Typed
    <3> QED BY <3>1, QuietLemma
  <2>12. CASE WaitForSingleObject(t)
    <3>1. /\ CloseHandle(own[t]) /\ own' = [own EXCEPT ![t] = NULL]
          /\ UNCHANGED <<list, pidOf>>
      BY <2>12 DEF WaitForSingleObject
    <3>2. Moves(t) /\ pc[t] \in Holding /\ pc'[t] \notin Holding
      BY <2>12 DEF WaitForSingleObject, Moves, Goto, Labels, Holding, Inv, Typed
    <3> QED BY <3>1, <3>2, CloseOwnLemma
  <2>13. CASE RemoveWaited(t)
    <3>1. /\ win32_remove_handle(t, NULL, got[t].pid, "pidsignal", "idle")
          /\ UNCHANGED <<pidOf, own, got>>
      BY <2>13 DEF RemoveWaited
    <3>2. "pidsignal" \in Labels \ Holding /\ "idle" \in Labels \ Holding
      BY DEF Holding, Labels
    <3> QED BY <3>1, <3>2, RemoveHandleLemma
  <2> QED BY <1>5, <2>1, <2>2, <2>3, <2>4, <2>5, <2>6, <2>7, <2>8, <2>9, <2>10, <2>11, <2>12, <2>13
          DEF Step
<1>6. CASE UNCHANGED vars
  BY <1>6 DEF vars, Inv, Typed, NamesCreated, OwnPrivate, SpawnedPid, ListedHandlesOpen
<1> QED BY <1>1, <1>2, <1>3, <1>4, <1>5, <1>6 DEF Next

-----------------------------------------------------------------------------
(***************************************************************************)
(* Whatever the interleaving of spawns, waits and ends of children, the    *)
(* list of adaint.c names open handles only, each once and with its        *)
(* process's identifier: win32_wait and __gnat_waitpid close none that the *)
(* list or a spawn still counts on.                                        *)
(***************************************************************************)
THEOREM ListedHandlesStayOpen == Spec => []ListedHandlesOpen
<1>1. Inv => ListedHandlesOpen
  BY DEF Inv
<1> QED BY <1>1, InitInv, NextInv, PTL DEF Spec

(***************************************************************************)
(* A task's own handle, of a spawn under way or of __gnat_waitpid, is open *)
(* and neither the list nor another task has it, so that no other call can *)
(* close it.                                                               *)
(***************************************************************************)
THEOREM OwnHandlesStayPrivate == Spec => []OwnPrivate
<1>1. Inv => OwnPrivate
  BY DEF Inv
<1> QED BY <1>1, InitInv, NextInv, PTL DEF Spec

-----------------------------------------------------------------------------
(* Reports.                                                                *)

Got == [h : Handles \cup {NULL}, pid : Pids \cup {NoPid}, obj : 0 .. MaxSpawn,
        status : 0 .. MaxSpawn]

\* The part of the state that is a wait's own, and the reports.
WaitTyped ==
  /\ snap \in [Tasks -> Seq(Entry)]
  /\ objects \in [Tasks -> Seq(Processes)]
  /\ got \in [Tasks -> Got]
  /\ reported \in Seq(Got)
  /\ exited \subseteq Created

\* A handle that named i does so until it is closed, if none is given again.
Named(h, i) == handle[h] \in {i, Closed}

\* The wait of t has taken a process off the list and not returned yet.
Claims(t) == pc[t] \in {"signal", "return"}

\* What a wait knows of the process it goes on with.
WaitOf(t) ==
  /\ pc[t] = "blocked" =>
       /\ DOMAIN objects[t] = DOMAIN snap[t]
       /\ \A k \in DOMAIN snap[t] : Named(snap[t][k].h, objects[t][k])
  /\ pc[t] \in {"exitcode", "remove"} =>
       got[t].h \in Handles /\ Named(got[t].h, got[t].obj) /\ got[t].obj \in exited
  /\ pc[t] = "remove" /\ handle[got[t].h] = got[t].obj => got[t].status = got[t].obj
  /\ Claims(t) => got[t].obj \in exited /\ got[t].status = got[t].obj

Waits == \A t \in Tasks : WaitOf(t)

(***************************************************************************)
(* A process is at one place at most: with the spawn that will list it, in *)
(* the list, with the wait that took it off, or among the reports.         *)
(***************************************************************************)
ListedOnce ==
  \A j, k \in DOMAIN list : handle[list[j].h] = handle[list[k].h] => j = k

AddedOnce ==
  \A t \in Tasks : pc[t] = "add" =>
    /\ \A j \in DOMAIN list : handle[list[j].h] # handle[own[t]]
    /\ \A u \in Tasks : pc[u] = "add" /\ handle[own[u]] = handle[own[t]] => u = t

ClaimedOnce ==
  \A t \in Tasks : Claims(t) =>
    /\ \A j \in DOMAIN list : handle[list[j].h] # got[t].obj
    /\ \A u \in Tasks : /\ pc[u] = "add" => handle[own[u]] # got[t].obj
                        /\ Claims(u) /\ got[u].obj = got[t].obj => u = t

ReportsFinal ==
  \A r \in DOMAIN reported :
    /\ \A j \in DOMAIN list : handle[list[j].h] # reported[r].obj
    /\ \A u \in Tasks : /\ pc[u] = "add" => handle[own[u]] # reported[r].obj
                        /\ Claims(u) => got[u].obj # reported[r].obj

Accounts == ListedOnce /\ AddedOnce /\ ClaimedOnce /\ ReportsFinal /\ ReportedOnce

RInv == WaitTyped /\ Waits /\ Accounts

\* Nobody is given the number of a closed handle: a handle that was used goes
\* on naming its process until it is closed.
HandlesKept ==
  \A h \in Handles : handle[h] # Unused => handle'[h] \in {handle[h], Closed}

-----------------------------------------------------------------------------
LEMMA NextHandlesKept == Inv /\ ~ReuseHandles /\ [Next]_vars => HandlesKept
<1> SUFFICES ASSUME Inv, ~ReuseHandles, [Next]_vars, NEW g \in Handles, handle[g] # Unused
             PROVE  handle'[g] \in {handle[g], Closed}
  BY DEF HandlesKept
<1>h. handle \in [Handles -> Processes \cup {Unused, Closed}]
  BY DEF Inv, Typed
<1>1. ASSUME NEW h, CloseHandle(h)  PROVE handle'[g] \in {handle[g], Closed}
  BY <1>1, <1>h DEF CloseHandle
<1>2. ASSUME NEW h \in FreeHandles, NEW i, handle' = [handle EXCEPT ![h] = i]
      PROVE  handle'[g] \in {handle[g], Closed}
  BY <1>2, <1>h DEF FreeHandles
<1>3. ASSUME handle' = handle  PROVE handle'[g] \in {handle[g], Closed}
  BY <1>3
<1>4. CASE UNCHANGED vars \/ \E i \in Processes : Exit(i)
  BY <1>4 DEF vars, Exit
<1>5. ASSUME NEW t \in Tasks, NEW blocking \in BOOLEAN, win32_spawn(t, blocking)
      PROVE  handle'[g] \in {handle[g], Closed}
  BY <1>2, <1>5 DEF win32_spawn
<1>6. ASSUME NEW t \in Tasks, NEW pid \in Pids, OpenProcess(t, pid)
      PROVE  handle'[g] \in {handle[g], Closed}
  BY <1>2, <1>3, <1>6 DEF OpenProcess
<1>7. ASSUME NEW t \in Tasks, BlockingSpawnEnds(t) \/ WaitForSingleObject(t)
      PROVE  handle'[g] \in {handle[g], Closed}
  BY <1>1, <1>7 DEF BlockingSpawnEnds, WaitForSingleObject
<1>8. ASSUME NEW t \in Tasks, RemoveEnded(t) \/ RemoveWaited(t)
      PROVE  handle'[g] \in {handle[g], Closed}
  <2>1. ASSUME NEW h, NEW pid, NEW then, NEW else, win32_remove_handle(t, h, pid, then, else)
        PROVE  handle'[g] \in {handle[g], Closed}
    BY <1>1, <2>1 DEF win32_remove_handle
  <2> QED BY <1>8, <2>1 DEF RemoveEnded, RemoveWaited
<1>9. ASSUME NEW t \in Tasks, Step(t) \/ Wait(t)  PROVE handle'[g] \in {handle[g], Closed}
  <2>1. \/ handle' = handle \/ BlockingSpawnEnds(t) \/ WaitForSingleObject(t)
        \/ RemoveEnded(t) \/ RemoveWaited(t)
    BY <1>9 DEF Step, Wait, add_handle, SignalListChanged, StartWait, CopyList,
       WaitForMultipleObjects, ListChanged, ChildEnded, GetExitCodeProcess, ReturnFromWait
  <2> QED BY <1>7, <1>8, <2>1
<1> QED BY <1>4, <1>5, <1>6, <1>9 DEF Next

LEMMA ExitedGrows == [Next]_vars => exited \subseteq exited'
  BY DEF Next, vars, Exit, Step, Wait, win32_spawn, OpenProcess, BlockingSpawnEnds, add_handle,
     SignalListChanged, StartWait, CopyList, WaitForMultipleObjects, ListChanged, ChildEnded,
     GetExitCodeProcess, RemoveEnded, ReturnFromWait, WaitForSingleObject, RemoveWaited

\* A step leaves what a wait of another task's goes on with true.
LEMMA WaitKept ==
  ASSUME WaitTyped, HandlesKept, exited \subseteq exited', NEW t \in Tasks, WaitOf(t),
         pc'[t] = pc[t], snap'[t] = snap[t], objects'[t] = objects[t], got'[t] = got[t]
  PROVE  WaitOf(t)'
<1>1. \A i \in Processes : i # Unused /\ i # Closed
  BY MarksNoProcess
<1>2. \A h \in Handles, i \in Processes :
        Named(h, i) => Named(h, i)' /\ (handle'[h] = i => handle[h] = i)
  BY <1>1 DEF Named, HandlesKept, Unused, Closed
<1>3. \A i \in exited : i \in Processes /\ i \in exited'
  BY DEF WaitTyped, Created
<1>4. pc[t] = "blocked" =>
        \A k \in DOMAIN snap[t] : snap[t][k].h \in Handles /\ objects[t][k] \in Processes
  <2>1. snap[t] \in Seq(Entry) /\ objects[t] \in Seq(Processes)
    BY DEF WaitTyped
  <2>2. \A k \in DOMAIN snap[t] : snap[t][k] \in Entry
    BY <2>1
  <2>3. \A k \in DOMAIN objects[t] : objects[t][k] \in Processes
    BY <2>1
  <2> QED BY <2>2, <2>3 DEF WaitOf, Entry
<1>5. pc'[t] = "blocked" =>
        /\ DOMAIN objects'[t] = DOMAIN snap'[t]
        /\ \A k \in DOMAIN snap'[t] : Named(snap[t][k].h, objects[t][k])'
  BY <1>2, <1>4 DEF WaitOf
<1>6. pc'[t] \in {"exitcode", "remove"} =>
        /\ got'[t].h \in Handles /\ Named(got[t].h, got[t].obj)' /\ got'[t].obj \in exited'
        /\ handle'[got'[t].h] = got'[t].obj => handle[got[t].h] = got[t].obj
  BY <1>2, <1>3 DEF WaitOf
<1> QED BY <1>3, <1>5, <1>6 DEF WaitOf, Claims, Named

\* A step that moves no process to another place.
LEMMA AccountsKept ==
  ASSUME Inv, RInv, UNCHANGED <<list, reported>>, exited \subseteq exited',
         \A j \in DOMAIN list : handle'[list[j].h] = handle[list[j].h],
         \A u \in Tasks : pc'[u] = "add" => pc[u] = "add" /\ handle'[own'[u]] = handle[own[u]],
         \A u \in Tasks : Claims(u)' => Claims(u) /\ got'[u].obj = got[u].obj
  PROVE  Accounts'
<1>1. ListedOnce' /\ AddedOnce'
  BY DEF RInv, Accounts, ListedOnce, AddedOnce
<1>2. ClaimedOnce'
  BY DEF RInv, Accounts, ClaimedOnce
<1>3. ReportsFinal' /\ ReportedOnce'
  BY DEF RInv, Accounts, ReportsFinal, ReportedOnce
<1> QED BY <1>1, <1>2, <1>3 DEF Accounts

\* So does one of a task that enters or leaves no such place.
LEMMA QuietAccounts ==
  ASSUME Inv, RInv, [Next]_vars, UNCHANGED <<list, handle, own, reported>>,
         NEW t \in Tasks, pc'[t] # "add", pc'[t] \in {"signal", "return"} => Claims(t),
         \A u \in Tasks : u # t => pc'[u] = pc[u] /\ got'[u] = got[u],
         Claims(t) => got'[t] = got[t] \/ pc'[t] \notin {"signal", "return"}
  PROVE  Accounts'
<1>1. \A u \in Tasks : pc'[u] = "add" => pc[u] = "add"
  OBVIOUS
<1>2. \A u \in Tasks : Claims(u)' => Claims(u) /\ got'[u] = got[u]
  BY DEF Claims
<1> QED BY <1>1, <1>2, ExitedGrows, AccountsKept

\* A new process is at no place yet.
LEMMA SpawnAccounts ==
  ASSUME Inv, RInv, NEW t \in Tasks, NEW blocking \in BOOLEAN, win32_spawn(t, blocking)
  PROVE  Accounts'
<1>1. PICK i \in Processes \ Created, h \in FreeHandles :
        handle' = [handle EXCEPT ![h] = i] /\ own' = [own EXCEPT ![t] = h]
  BY Zenon DEF win32_spawn
<1>2. /\ pc[t] = "idle" /\ UNCHANGED <<list, exited, reported>>
      /\ Goto(t, "child") \/ Goto(t, "add")
      /\ \E g : got' = [got EXCEPT ![t] = g]
  BY Zenon DEF win32_spawn
<1>3. /\ pc'[t] \in {"child", "add"}
      /\ \A u \in Tasks : u # t => pc'[u] = pc[u] /\ own'[u] = own[u] /\ got'[u] = got[u]
      /\ own'[t] = h /\ handle'[h] = i /\ handle[h] = Unused
      /\ \A g \in Handles : g # h => handle'[g] = handle[g]
  BY <1>1, <1>2 DEF Goto, Inv, Typed, FreeHandles
<1>4. \A g \in Handles : handle[g] \in Processes => g # h /\ handle'[g] = handle[g] /\ handle[g] # i
  BY <1>1, <1>3, MarksNoProcess, NoneAssumption DEF Inv, NamesCreated, Created
<1>5. \A j \in DOMAIN list : handle'[list[j].h] = handle[list[j].h] /\ handle[list[j].h] # i
  <2>1. \A j \in DOMAIN list : list[j] \in Entry
    BY DEF Inv, Typed
  <2> QED BY <1>4, <2>1 DEF Inv, ListedHandlesOpen, Entry
<1>6. \A u \in Tasks : u # t /\ pc[u] = "add" =>
        handle'[own'[u]] = handle[own[u]] /\ handle[own[u]] # i
  BY <1>3, <1>4 DEF Inv, OwnPrivate, Holding
<1>7. i \notin exited
  BY DEF RInv, WaitTyped
<1>8. \A u \in Tasks : Claims(u)' => u # t /\ Claims(u) /\ got'[u] = got[u] /\ got[u].obj # i
  BY <1>3, <1>7 DEF Claims, RInv, Waits, WaitOf
<1>9. \A r \in DOMAIN reported : reported[r].obj # i
  BY <1>7 DEF RInv, Accounts, ReportedOnce
<1>10. ListedOnce'
  BY <1>2, <1>5 DEF RInv, Accounts, ListedOnce
<1>11. AddedOnce'
  BY <1>2, <1>3, <1>5, <1>6 DEF RInv, Accounts, AddedOnce
<1>12. ClaimedOnce'
  BY <1>2, <1>3, <1>5, <1>6, <1>8 DEF RInv, Accounts, ClaimedOnce
<1>13. ReportsFinal' /\ ReportedOnce'
  BY <1>2, <1>3, <1>5, <1>6, <1>8, <1>9 DEF RInv, Accounts, ReportsFinal, ReportedOnce
<1> QED BY <1>10, <1>11, <1>12, <1>13 DEF Accounts

\* A handle of a task's own is of no account but a spawn's that will list it.
LEMMA OpenAccounts ==
  ASSUME Inv, RInv, [Next]_vars, NEW t \in Tasks, NEW pid \in Pids, OpenProcess(t, pid)
  PROVE  Accounts'
<1>1. /\ pc[t] = "idle" /\ UNCHANGED <<list, exited, reported>>
      /\ got' = [got EXCEPT ![t] = [NoGot EXCEPT !.pid = pid]]
  BY DEF OpenProcess
<1>a. \/ Goto(t, "pidremove") /\ UNCHANGED <<handle, own>>
      \/ /\ Goto(t, "pidwait")
         /\ \E i \in Processes, h \in FreeHandles :
              handle' = [handle EXCEPT ![h] = i] /\ own' = [own EXCEPT ![t] = h]
  <2> DEFINE named == {i \in Created : pidOf[i] = pid /\ Alive(i)}
  <2>1. CASE named = {}
    BY <2>1 DEF OpenProcess
  <2>2. CASE named # {}
    <3>1. PICK i \in named, h \in FreeHandles :
            /\ handle' = [handle EXCEPT ![h] = i]
            /\ own' = [own EXCEPT ![t] = h]
            /\ Goto(t, "pidwait")
      BY <2>2 DEF OpenProcess
    <3>2. i \in Processes
      BY DEF Created
    <3> QED BY <3>1, <3>2
  <2> QED BY <2>1, <2>2
<1>2. /\ pc'[t] \in {"pidremove", "pidwait"}
      /\ \A u \in Tasks : u # t => pc'[u] = pc[u] /\ own'[u] = own[u] /\ got'[u] = got[u]
  BY <1>1, <1>a DEF Goto, Inv, Typed
<1>3. \A g \in Handles : handle[g] \in Processes => handle'[g] = handle[g]
  BY <1>a, MarksNoProcess DEF Inv, Typed, FreeHandles
<1>4. \A j \in DOMAIN list : handle'[list[j].h] = handle[list[j].h]
  <2>1. \A j \in DOMAIN list : list[j] \in Entry
    BY DEF Inv, Typed
  <2> QED BY <1>3, <2>1 DEF Inv, ListedHandlesOpen, Entry
<1>5. \A u \in Tasks : pc'[u] = "add" => pc[u] = "add" /\ handle'[own'[u]] = handle[own[u]]
  BY <1>2, <1>3 DEF Inv, OwnPrivate, Holding
<1>6. \A u \in Tasks : Claims(u)' => Claims(u) /\ got'[u] = got[u]
  BY <1>2 DEF Claims
<1> QED BY <1>1, <1>4, <1>5, <1>6, AccountsKept

LEMMA CloseOwnAccounts ==
  ASSUME Inv, RInv, [Next]_vars, NEW t \in Tasks, BlockingSpawnEnds(t) \/ WaitForSingleObject(t)
  PROVE  Accounts'
<1>1. /\ pc[t] \in {"child", "pidwait"} /\ UNCHANGED <<list, exited, reported>>
      /\ Goto(t, "idle") \/ Goto(t, "pidremove")
      /\ \E g : got' = [got EXCEPT ![t] = g] \/ got' = got
      /\ CloseHandle(own[t]) /\ own' = [own EXCEPT ![t] = NULL]
  BY Zenon DEF BlockingSpawnEnds, WaitForSingleObject
<1>2. /\ pc'[t] \in {"idle", "pidremove"}
      /\ \A u \in Tasks : u # t => pc'[u] = pc[u] /\ own'[u] = own[u] /\ got'[u] = got[u]
  BY <1>1 DEF Goto, Inv, Typed
<1>3. \A g \in Handles : g # own[t] => handle'[g] = handle[g]
  BY <1>1 DEF Inv, Typed, CloseHandle
<1>4. \A j \in DOMAIN list : handle'[list[j].h] = handle[list[j].h]
  <2>1. \A j \in DOMAIN list : list[j] \in Entry
    BY DEF Inv, Typed
  <2> QED BY <1>1, <1>3, <2>1 DEF Inv, OwnPrivate, Holding, Entry
<1>5. \A u \in Tasks : pc'[u] = "add" => pc[u] = "add" /\ handle'[own'[u]] = handle[own[u]]
  BY <1>1, <1>2, <1>3 DEF Inv, OwnPrivate, Holding
<1>6. \A u \in Tasks : Claims(u)' => Claims(u) /\ got'[u] = got[u]
  BY <1>2 DEF Claims
<1> QED BY <1>1, <1>4, <1>5, <1>6, AccountsKept

\* The spawn's process is with the list now.
LEMMA AddAccounts ==
  ASSUME Inv, RInv, NEW t \in Tasks, add_handle(t)
  PROVE  Accounts'
<1> DEFINE e == [h |-> own[t], pid |-> got[t].pid]
           n == Len(list)
<1>1. /\ pc[t] = "add" /\ list' = Append(list, e)
      /\ own' = [own EXCEPT ![t] = NULL] /\ got' = [got EXCEPT ![t] = NoGot]
      /\ Goto(t, "idle") /\ UNCHANGED <<handle, exited, reported>>
  BY DEF add_handle
<1>2. own[t] \in Handles /\ e \in Entry /\ e.h = own[t]
  BY <1>1 DEF Inv, OwnPrivate, SpawnedPid, NamesCreated, Holding, Entry
<1>3. \A k \in DOMAIN list' :
        \/ k \in DOMAIN list /\ list'[k] = list[k]
        \/ k = n + 1 /\ list'[k].h = own[t]
  <2> HIDE DEF e
  <2> QED BY <1>1, <1>2 DEF Inv, Typed
<1>4. /\ pc'[t] = "idle"
      /\ \A u \in Tasks : u # t => pc'[u] = pc[u] /\ own'[u] = own[u] /\ got'[u] = got[u]
  BY <1>1 DEF Inv, Typed, Goto
<1>5. \A u \in Tasks : pc'[u] = "add" => u # t /\ pc[u] = "add" /\ own'[u] = own[u]
  BY <1>4
<1>6. \A u \in Tasks : Claims(u)' => u # t /\ Claims(u) /\ got'[u] = got[u]
  BY <1>4 DEF Claims
<1> HIDE DEF e, n
<1>7. ListedOnce'
  BY <1>1, <1>3 DEF RInv, Accounts, ListedOnce, AddedOnce
<1>8. AddedOnce'
  BY <1>1, <1>3, <1>5 DEF RInv, Accounts, AddedOnce
<1>9. ClaimedOnce'
  BY <1>1, <1>3, <1>5, <1>6 DEF RInv, Accounts, ClaimedOnce
<1>10. ReportsFinal' /\ ReportedOnce'
  BY <1>1, <1>3, <1>5, <1>6 DEF RInv, Accounts, ReportsFinal, ReportedOnce
<1> QED BY <1>7, <1>8, <1>9, <1>10 DEF Accounts

\* The first entry that has the handle or the identifier is taken away, and
\* with it the only place of its process; the others stay.
LEMMA RemovedEntry ==
  ASSUME Inv, RInv, NEW t \in Tasks, NEW h, NEW pid, NEW then, NEW else,
         h = NULL \/ pid = NoPid,
         win32_remove_handle(t, h, pid, then, else), Entries(h, pid) # {}
  PROVE  \E j \in DOMAIN list :
           /\ h \in Handles => list[j].h = h
           /\ \A k \in DOMAIN list' : \E m \in DOMAIN list :
                m # j /\ list'[k] = list[m] /\ handle'[list[m].h] = handle[list[m].h]
           /\ ListedOnce'
           /\ CloseHandle(h) /\ Goto(t, then)
<1>1. Entries(h, pid) \subseteq DOMAIN list
  BY DEF Entries
<1>2. \E j \in Entries(h, pid) : \A k \in Entries(h, pid) : j <= k
  <2>1. Entries(h, pid) \subseteq Nat
    BY <1>1 DEF Inv, Typed
  <2> QED BY <2>1, FirstOfNaturals
<1>3. PICK j \in Entries(h, pid) : RemoveEntry(j)
  BY <1>2 DEF win32_remove_handle
<1>4. CloseHandle(h) /\ Goto(t, then)
  BY DEF win32_remove_handle
<1>5. /\ j \in DOMAIN list
      /\ list[j].h = h \/ list[j].pid = pid
      /\ \A m \in DOMAIN list : list[m] \in Entry
  BY <1>1 DEF Entries, Inv, Typed
<1>6. h \in Handles => list[j].h = h
  BY <1>5, NoneAssumption DEF Entry
<1>7. /\ \A k \in DOMAIN list' : \E m \in DOMAIN list : m # j /\ list'[k] = list[m]
      /\ \A k, l \in DOMAIN list' : list'[k].h = list'[l].h => k = l
  BY <1>3, <1>5, RemoveEntryLemma DEF Inv, Typed
<1>8. \A m \in DOMAIN list : m # j => handle'[list[m].h] = handle[list[m].h]
  <2>1. \A g \in Handles : g # h => handle'[g] = handle[g]
    BY <1>4 DEF CloseHandle, Inv, Typed
  <2>2. h \notin Handles => handle' = handle
    BY <1>4 DEF CloseHandle
  <2> QED BY <1>5, <1>6, <2>1, <2>2 DEF Inv, ListedHandlesOpen, Entry
<1>9. ListedOnce'
  BY <1>7, <1>8 DEF RInv, Accounts, ListedOnce
<1> QED BY <1>4, <1>5, <1>6, <1>7, <1>8, <1>9

\* A wait takes its process off the list, and nobody else will.
LEMMA RemoveEndedAccounts ==
  ASSUME Inv, RInv, [Next]_vars, NEW t \in Tasks, RemoveEnded(t)
  PROVE  Accounts' /\ WaitOf(t)'
<1>1. /\ pc[t] = "remove" /\ UNCHANGED <<exited, own, got, reported>>
      /\ win32_remove_handle(t, got[t].h, NoPid, "signal", "start")
  BY DEF RemoveEnded
<1>2. CASE Entries(got[t].h, NoPid) = {}
  <2>1. UNCHANGED <<list, handle>> /\ Goto(t, "start")
    BY <1>1, <1>2 DEF win32_remove_handle
  <2>2. pc'[t] = "start" /\ \A u \in Tasks : u # t => pc'[u] = pc[u]
    BY <2>1 DEF Goto, Inv, Typed
  <2>3. Accounts'
    BY <1>1, <2>1, <2>2, QuietAccounts
  <2> QED BY <2>2, <2>3 DEF WaitOf, Claims
<1>3. CASE Entries(got[t].h, NoPid) # {}
  <2>1. PICK j \in DOMAIN list :
          /\ got[t].h \in Handles => list[j].h = got[t].h
          /\ \A k \in DOMAIN list' : \E m \in DOMAIN list :
               m # j /\ list'[k] = list[m] /\ handle'[list[m].h] = handle[list[m].h]
          /\ ListedOnce'
          /\ CloseHandle(got[t].h) /\ Goto(t, "signal")
    BY <1>1, <1>3, RemovedEntry
  <2> DEFINE i == got[t].obj
  <2>2. /\ got[t].h \in Handles /\ i \in exited /\ Named(got[t].h, i)
        /\ handle[got[t].h] = i => got[t].status = i
    BY <1>1 DEF RInv, Waits, WaitOf
  <2>3. handle[list[j].h] = i /\ got[t].status = i
    BY <2>1, <2>2, MarksNoProcess DEF Named, Inv, ListedHandlesOpen
  <2>4. pc'[t] = "signal" /\ \A u \in Tasks : u # t => pc'[u] = pc[u]
    BY <2>1 DEF Goto, Inv, Typed
  <2>5. \A u \in Tasks : pc'[u] = "add" =>
          u # t /\ pc[u] = "add" /\ handle'[own'[u]] = handle[own[u]] /\ handle[own[u]] # i
    <3>1. \A g \in Handles : g # got[t].h => handle'[g] = handle[g]
      BY <2>1 DEF CloseHandle, Inv, Typed
    <3>2. \A u \in Tasks : pc'[u] = "add" => u # t /\ pc[u] = "add"
      BY <2>4
    <3>3. \A u \in Tasks : pc[u] = "add" => own[u] \in Handles /\ own[u] # list[j].h
      BY DEF Inv, OwnPrivate, Holding
    <3> QED BY <1>1, <2>1, <2>2, <2>3, <3>1, <3>2, <3>3 DEF RInv, Accounts, AddedOnce
  <2>6. \A u \in Tasks : Claims(u)' => u = t \/ (Claims(u) /\ got[u].obj # i)
    BY <2>3, <2>4 DEF Claims, RInv, Accounts, ClaimedOnce
  <2>7. \A k \in DOMAIN list' : \E m \in DOMAIN list :
          list'[k] = list[m] /\ handle'[list[m].h] = handle[list[m].h] /\ handle[list[m].h] # i
    BY <2>1, <2>3 DEF RInv, Accounts, ListedOnce
  <2>8. \A r \in DOMAIN reported : reported[r].obj # i
    BY <2>3 DEF RInv, Accounts, ReportsFinal
  <2> HIDE DEF i
  <2>9. AddedOnce'
    BY <2>5, <2>7 DEF RInv, Accounts, AddedOnce
  <2>10. ClaimedOnce'
    <3>1. ASSUME NEW u \in Tasks, Claims(u)'
          PROVE  /\ \A k \in DOMAIN list' : handle'[list'[k].h] # got[u].obj
                 /\ \A v \in Tasks : /\ pc'[v] = "add" => handle'[own'[v]] # got[u].obj
                                     /\ Claims(v)' /\ got[v].obj = got[u].obj => v = u
      <4>1. CASE u = t
        BY <4>1, <2>5, <2>6, <2>7 DEF i
      <4>2. CASE u # t
        BY <3>1, <4>2, <2>5, <2>6, <2>7 DEF RInv, Accounts, ClaimedOnce, i
      <4> QED BY <4>1, <4>2
    <3> QED BY <3>1, <1>1 DEF ClaimedOnce
  <2>11. ReportsFinal'
    BY <1>1, <2>5, <2>6, <2>7, <2>8 DEF RInv, Accounts, ReportsFinal, i
  <2>12. ReportedOnce'
    BY <1>1 DEF RInv, Accounts, ReportedOnce
  <2>13. WaitOf(t)'
    BY <1>1, <2>2, <2>3, <2>4 DEF WaitOf, Claims, i
  <2> QED BY <2>1, <2>9, <2>10, <2>11, <2>12, <2>13 DEF Accounts
<1> QED BY <1>2, <1>3

\* __gnat_waitpid takes an entry off that nobody reports.
LEMMA RemoveWaitedAccounts ==
  ASSUME Inv, RInv, [Next]_vars, NEW t \in Tasks, RemoveWaited(t)
  PROVE  Accounts'
<1>1. /\ pc[t] = "pidremove" /\ UNCHANGED <<exited, own, got, reported>>
      /\ win32_remove_handle(t, NULL, got[t].pid, "pidsignal", "idle")
  BY DEF RemoveWaited
<1>2. CASE Entries(NULL, got[t].pid) = {}
  <2>1. UNCHANGED <<list, handle>> /\ Goto(t, "idle")
    BY <1>1, <1>2 DEF win32_remove_handle
  <2>2. pc'[t] = "idle" /\ \A u \in Tasks : u # t => pc'[u] = pc[u]
    BY <2>1 DEF Goto, Inv, Typed
  <2> QED BY <1>1, <2>1, <2>2, QuietAccounts
<1>3. CASE Entries(NULL, got[t].pid) # {}
  <2>1. /\ \A k \in DOMAIN list' : \E m \in DOMAIN list : list'[k] = list[m]
        /\ ListedOnce' /\ CloseHandle(NULL) /\ Goto(t, "pidsignal")
    BY <1>1, <1>3, RemovedEntry
  <2>2. handle' = handle
    BY <2>1, NoneAssumption DEF CloseHandle
  <2>3. pc'[t] = "pidsignal" /\ \A u \in Tasks : u # t => pc'[u] = pc[u]
    BY <2>1 DEF Goto, Inv, Typed
  <2>4. \A u \in Tasks : /\ pc'[u] = "add" => pc[u] = "add"
                         /\ Claims(u)' => Claims(u)
    BY <2>3 DEF Claims
  <2>5. AddedOnce' /\ ClaimedOnce'
    BY <1>1, <2>1, <2>2, <2>4 DEF RInv, Accounts, AddedOnce, ClaimedOnce
  <2>6. ReportsFinal' /\ ReportedOnce'
    BY <1>1, <2>1, <2>2, <2>4 DEF RInv, Accounts, ReportsFinal, ReportedOnce
  <2> QED BY <2>1, <2>5, <2>6 DEF Accounts
<1> QED BY <1>2, <1>3

\* A wait returns the process it claimed.
LEMMA ReturnAccounts ==
  ASSUME Inv, RInv, NEW t \in Tasks, ReturnFromWait(t)
  PROVE  Accounts'
<1> DEFINE n == Len(reported)
<1>1. /\ pc[t] = "return" /\ reported' = Append(reported, got[t])
      /\ got' = [got EXCEPT ![t] = NoGot] /\ Goto(t, "idle")
      /\ UNCHANGED <<list, handle, exited, own>>
  BY DEF ReturnFromWait
<1>2. /\ Claims(t) /\ got[t].obj \in exited /\ got[t].status = got[t].obj
  BY <1>1 DEF Claims, RInv, Waits, WaitOf
<1>3. /\ \A r \in DOMAIN reported' :
           \/ r \in DOMAIN reported /\ reported'[r] = reported[r]
           \/ r = n + 1 /\ reported'[r] = got[t]
  <2>1. got[t] \in Got /\ reported \in Seq(Got)
    BY DEF RInv, WaitTyped
  <2> QED BY <1>1, <2>1
<1>4. pc'[t] = "idle" /\ \A u \in Tasks : u # t => pc'[u] = pc[u] /\ got'[u] = got[u]
  BY <1>1 DEF Goto, Inv, Typed
<1>5. \A u \in Tasks : /\ pc'[u] = "add" => u # t /\ pc[u] = "add"
                       /\ Claims(u)' => u # t /\ Claims(u) /\ got'[u] = got[u]
  BY <1>4 DEF Claims
<1> HIDE DEF n
<1>6. ListedOnce' /\ AddedOnce' /\ ClaimedOnce'
  BY <1>1, <1>5 DEF RInv, Accounts, ListedOnce, AddedOnce, ClaimedOnce
<1>7. ReportsFinal'
  BY <1>1, <1>2, <1>3, <1>5 DEF RInv, Accounts, ReportsFinal, ClaimedOnce
<1>8. ReportedOnce'
  BY <1>1, <1>2, <1>3 DEF RInv, Accounts, ReportsFinal, ReportedOnce
<1> QED BY <1>6, <1>7, <1>8 DEF Accounts

-----------------------------------------------------------------------------
LEMMA GotTyped ==
  /\ NoGot \in Got /\ \A p \in Pids : [NoGot EXCEPT !.pid = p] \in Got
  /\ \A i \in Processes : i \in 0 .. MaxSpawn
  BY MaxSpawnAssumption DEF NoGot, Got, Processes

LEMMA NextWaitTyped == Inv /\ RInv /\ [Next]_vars => WaitTyped'
<1> SUFFICES ASSUME Inv, RInv, [Next]_vars  PROVE WaitTyped'
  OBVIOUS
<1>t. /\ list \in Seq(Entry) /\ WaitTyped
      /\ snap \in [Tasks -> Seq(Entry)] /\ objects \in [Tasks -> Seq(Processes)]
      /\ got \in [Tasks -> Got] /\ reported \in Seq(Got) /\ exited \subseteq Created
  BY DEF Inv, Typed, RInv, WaitTyped
<1>e. <<>> \in Seq(Entry) /\ <<>> \in Seq(Processes)
  OBVIOUS
<1>1. CASE UNCHANGED vars
  BY <1>1, <1>t DEF vars, WaitTyped, Created
<1>2. ASSUME NEW i \in Processes, Exit(i)  PROVE WaitTyped'
  BY <1>2, <1>t DEF Exit, WaitTyped, Created
<1>3. ASSUME NEW t \in Tasks, NEW blocking \in BOOLEAN, win32_spawn(t, blocking)  PROVE WaitTyped'
  <2>1. PICK i \in Processes \ Created, p \in FreePids :
          pidOf' = [pidOf EXCEPT ![i] = p] /\ got' = [got EXCEPT ![t] = [NoGot EXCEPT !.pid = p]]
    BY <1>3, Zenon DEF win32_spawn
  <2>2. UNCHANGED <<snap, objects, exited, reported>>
    BY <1>3 DEF win32_spawn
  <2>3. p \in Pids
    BY DEF FreePids
  <2>4. got' \in [Tasks -> Got]
    BY <1>t, <2>1, <2>3, GotTyped
  <2>5. Created \subseteq Created'
    BY <2>1, <2>3, NoneAssumption DEF Created, Inv, Typed
  <2> QED BY <1>t, <2>2, <2>4, <2>5 DEF WaitTyped
<1>4. ASSUME NEW t \in Tasks, NEW pid \in Pids, OpenProcess(t, pid)  PROVE WaitTyped'
  <2>1. /\ got' = [got EXCEPT ![t] = [NoGot EXCEPT !.pid = pid]]
        /\ UNCHANGED <<pidOf, snap, objects, exited, reported>>
    BY <1>4 DEF OpenProcess
  <2>2. got' \in [Tasks -> Got]
    BY <1>t, <2>1, GotTyped
  <2> QED BY <1>t, <2>1, <2>2 DEF WaitTyped, Created
<1>5. ASSUME NEW t \in Tasks, Step(t) \/ Wait(t)  PROVE WaitTyped'
  <2>1. UNCHANGED <<pidOf, exited>>
    BY <1>5 DEF Step, Wait, BlockingSpawnEnds, add_handle, SignalListChanged, StartWait, CopyList,
       WaitForMultipleObjects, ListChanged, ChildEnded, GetExitCodeProcess, RemoveEnded,
       ReturnFromWait, WaitForSingleObject, RemoveWaited
  <2>2. SUFFICES /\ snap' \in [Tasks -> Seq(Entry)] /\ objects' \in [Tasks -> Seq(Processes)]
                 /\ got' \in [Tasks -> Got] /\ reported' \in Seq(Got)
    BY <1>t, <2>1 DEF WaitTyped, Created
  <2>3. CASE \/ SignalListChanged(t) \/ StartWait(t) \/ RemoveEnded(t) \/ Wait(t)
             \/ WaitForSingleObject(t) \/ RemoveWaited(t)
    BY <1>t, <2>3 DEF SignalListChanged, StartWait, RemoveEnded, Wait, WaitForSingleObject,
       RemoveWaited
  <2>4. CASE BlockingSpawnEnds(t) \/ add_handle(t)
    BY <1>t, <2>4, GotTyped DEF BlockingSpawnEnds, add_handle
  <2>5. CASE CopyList(t)
    BY <1>t, <2>5 DEF CopyList
  <2>6. CASE WaitForMultipleObjects(t)
    <3> DEFINE o == [k \in DOMAIN snap[t] |-> handle[snap[t][k].h]]
    <3>1. ASSUME \A k \in DOMAIN snap[t] : handle[snap[t][k].h] \in Processes
          PROVE  o \in Seq(Processes)
      <4>1. snap[t] \in Seq(Entry)
        BY <1>t
      <4>2. DOMAIN snap[t] = 1 .. Len(snap[t]) /\ Len(snap[t]) \in Nat
        BY <4>1
      <4>3. o \in [1 .. Len(snap[t]) -> Processes]
        BY <3>1, <4>2
      <4> HIDE DEF o
      <4> QED BY <4>2, <4>3
    <3> HIDE DEF o
    <3>2. \/ objects' = objects /\ snap' = [snap EXCEPT ![t] = <<>>]
          \/ objects' = [objects EXCEPT ![t] = o] /\ snap' = snap /\ o \in Seq(Processes)
      BY <2>6, <3>1 DEF WaitForMultipleObjects, o
    <3>3. UNCHANGED <<got, reported>>
      BY <2>6 DEF WaitForMultipleObjects
    <3> QED BY <1>t, <1>e, <3>2, <3>3
  <2>7. CASE ListChanged(t)
    BY <1>t, <1>e, <2>7 DEF ListChanged
  <2>8. CASE ChildEnded(t)
    <3>1. PICK pos \in DOMAIN objects[t] :
            got' = [got EXCEPT ![t] = [h |-> snap[t][pos].h, pid |-> snap[t][pos].pid,
                                       obj |-> objects[t][pos], status |-> 0]]
      BY <2>8 DEF ChildEnded
    <3>2. pos \in DOMAIN snap[t]
      BY <2>8 DEF ChildEnded, RInv, Waits, WaitOf
    <3>3. snap[t] \in Seq(Entry) /\ objects[t] \in Seq(Processes)
      BY <1>t
    <3>4. snap[t][pos] \in Entry /\ objects[t][pos] \in Processes
      BY <3>2, <3>3
    <3>5. [h |-> snap[t][pos].h, pid |-> snap[t][pos].pid,
           obj |-> objects[t][pos], status |-> 0] \in Got
      BY <3>4, GotTyped, MaxSpawnAssumption DEF Got, Entry
    <3>6. got' \in [Tasks -> Got]
      BY <1>t, <3>1, <3>5
    <3>7. /\ snap' = [snap EXCEPT ![t] = <<>>] /\ objects' = [objects EXCEPT ![t] = <<>>]
          /\ reported' = reported
      BY <2>8 DEF ChildEnded
    <3> QED BY <1>t, <1>e, <3>6, <3>7
  <2>9. CASE GetExitCodeProcess(t)
    <3>1. PICK s : /\ got' = [got EXCEPT ![t].status = s]
                   /\ s = 0 \/ s \in exited
      BY <2>9 DEF GetExitCodeProcess
    <3>2. s \in 0 .. MaxSpawn
      BY <1>t, <3>1, GotTyped, MaxSpawnAssumption DEF Created
    <3>3. got' \in [Tasks -> Got]
      BY <1>t, <3>1, <3>2 DEF Got
    <3> QED BY <1>t, <2>9, <3>3 DEF GetExitCodeProcess
  <2>10. CASE ReturnFromWait(t)
    <3>1. got[t] \in Got
      BY <1>t
    <3> QED BY <1>t, <2>10, <3>1, GotTyped DEF ReturnFromWait
  <2> QED BY <1>5, <2>3, <2>4, <2>5, <2>6, <2>7, <2>8, <2>9, <2>10 DEF Step
<1> QED BY <1>1, <1>2, <1>3, <1>4, <1>5 DEF Next

LEMMA NextAccounts == Inv /\ RInv /\ [Next]_vars => Accounts'
<1> SUFFICES ASSUME Inv, RInv, [Next]_vars  PROVE Accounts'
  OBVIOUS
<1>1. CASE UNCHANGED vars \/ \E i \in Processes : Exit(i)
  <2>1. UNCHANGED <<list, handle, own, pc, got, reported>>
    BY <1>1 DEF vars, Exit
  <2> QED BY <2>1, ExitedGrows, AccountsKept DEF Claims
<1>2. ASSUME NEW t \in Tasks, NEW blocking \in BOOLEAN, win32_spawn(t, blocking)  PROVE Accounts'
  BY <1>2, SpawnAccounts
<1>3. ASSUME NEW t \in Tasks, NEW pid \in Pids, OpenProcess(t, pid)  PROVE Accounts'
  BY <1>3, OpenAccounts
<1>4. ASSUME NEW t \in Tasks, Step(t) \/ Wait(t)  PROVE Accounts'
  <2>1. CASE BlockingSpawnEnds(t) \/ WaitForSingleObject(t)
    BY <2>1, CloseOwnAccounts
  <2>2. CASE add_handle(t)
    BY <2>2, AddAccounts
  <2>3. CASE RemoveEnded(t)
    BY <2>3, RemoveEndedAccounts
  <2>4. CASE RemoveWaited(t)
    BY <2>4, RemoveWaitedAccounts
  <2>5. CASE ReturnFromWait(t)
    BY <2>5, ReturnAccounts
  <2>6. CASE SignalListChanged(t)
    <3>1. /\ UNCHANGED <<list, handle, own, got, reported>>
          /\ pc'[t] \in {"return", "idle"} /\ (pc'[t] = "return" => pc[t] = "signal")
          /\ \A u \in Tasks : u # t => pc'[u] = pc[u]
      BY <2>6 DEF SignalListChanged, Goto, Inv, Typed
    <3> QED BY <3>1, QuietAccounts DEF Claims
  <2>7. CASE StartWait(t) \/ CopyList(t) \/ WaitForMultipleObjects(t) \/ Wait(t)
    <3>1. /\ UNCHANGED <<list, handle, own, got, reported>>
          /\ pc'[t] \in {"idle", "start", "copy", "call", "blocked"}
          /\ \A u \in Tasks : u # t => pc'[u] = pc[u]
      BY <2>7 DEF StartWait, CopyList, WaitForMultipleObjects, Wait, Goto, Inv, Typed
    <3> QED BY <3>1, QuietAccounts
  <2>8. CASE ListChanged(t) \/ ChildEnded(t) \/ GetExitCodeProcess(t)
    <3>1. /\ UNCHANGED <<list, handle, own, reported>>
          /\ pc'[t] \in {"start", "exitcode", "remove"}
          /\ \A u \in Tasks : u # t => pc'[u] = pc[u] /\ got'[u] = got[u]
      BY <2>8 DEF ListChanged, ChildEnded, GetExitCodeProcess, Goto, Inv, Typed
    <3> QED BY <3>1, QuietAccounts
  <2> QED BY <1>4, <2>1, <2>2, <2>3, <2>4, <2>5, <2>6, <2>7, <2>8 DEF Step
<1> QED BY <1>1, <1>2, <1>3, <1>4 DEF Next

LEMMA NextWaits == Inv /\ ~ReuseHandles /\ RInv /\ [Next]_vars => Waits'
<1> SUFFICES ASSUME Inv, ~ReuseHandles, RInv, [Next]_vars, NEW u \in Tasks  PROVE WaitOf(u)'
  BY DEF Waits
<1>k. /\ HandlesKept /\ exited \subseteq exited' /\ WaitTyped /\ WaitOf(u)
  BY NextHandlesKept, ExitedGrows DEF RInv, Waits
<1>q. ASSUME pc'[u] \in {"idle", "child", "add", "start", "copy", "call", "pidwait", "pidremove",
                         "pidsignal"}
      PROVE  WaitOf(u)'
  BY <1>q DEF WaitOf, Claims
<1>o. ASSUME pc'[u] = pc[u], snap'[u] = snap[u], objects'[u] = objects[u], got'[u] = got[u]
      PROVE  WaitOf(u)'
  BY <1>k, <1>o, WaitKept
<1> USE DEF Goto
<1>1. CASE UNCHANGED vars \/ \E i \in Processes : Exit(i)
  BY <1>1, <1>o DEF vars, Exit
<1>2. ASSUME NEW t \in Tasks, t # u,
             \/ Step(t) \/ Wait(t) \/ \E blocking \in BOOLEAN : win32_spawn(t, blocking)
             \/ \E pid \in Pids : OpenProcess(t, pid)
      PROVE  WaitOf(u)'
  <2>1. pc'[u] = pc[u]
    BY <1>2 DEF Inv, Typed, Step, Wait, win32_spawn, OpenProcess, BlockingSpawnEnds, add_handle,
       SignalListChanged, StartWait, CopyList, WaitForMultipleObjects, ListChanged, ChildEnded,
       GetExitCodeProcess, RemoveEnded, win32_remove_handle, ReturnFromWait, WaitForSingleObject,
       RemoveWaited
  <2>2. snap'[u] = snap[u] /\ objects'[u] = objects[u]
    BY <1>2, <1>k DEF WaitTyped, Step, Wait, win32_spawn, OpenProcess, BlockingSpawnEnds,
       add_handle, SignalListChanged, StartWait, CopyList, WaitForMultipleObjects, ListChanged,
       ChildEnded, GetExitCodeProcess, RemoveEnded, ReturnFromWait, WaitForSingleObject,
       RemoveWaited
  <2>3. got'[u] = got[u]
    BY <1>2, <1>k DEF WaitTyped, Step, Wait, win32_spawn, OpenProcess, BlockingSpawnEnds,
       add_handle, SignalListChanged, StartWait, CopyList, WaitForMultipleObjects, ListChanged,
       ChildEnded, GetExitCodeProcess, RemoveEnded, ReturnFromWait, WaitForSingleObject,
       RemoveWaited
  <2> QED BY <1>o, <2>1, <2>2, <2>3
<1>3. ASSUME \/ Wait(u) \/ \E blocking \in BOOLEAN : win32_spawn(u, blocking)
             \/ \E pid \in Pids : OpenProcess(u, pid)
      PROVE  WaitOf(u)'
  BY <1>3, <1>q DEF Inv, Typed, Wait, win32_spawn, OpenProcess
<1>4. CASE Step(u)
  <2>1. CASE BlockingSpawnEnds(u) \/ add_handle(u) \/ StartWait(u) \/ CopyList(u)
             \/ ListChanged(u) \/ WaitForSingleObject(u)
    BY <2>1, <1>q DEF Inv, Typed, BlockingSpawnEnds, add_handle, StartWait, CopyList,
       ListChanged, WaitForSingleObject
  <2>2. CASE RemoveWaited(u)
    BY <2>2, <1>q DEF Inv, Typed, RemoveWaited, win32_remove_handle
  <2>3. CASE ReturnFromWait(u)
    BY <2>3, <1>q DEF Inv, Typed, ReturnFromWait
  <2>4. CASE RemoveEnded(u)
    BY <2>4, RemoveEndedAccounts
  <2>5. CASE SignalListChanged(u)
    BY <2>5, <1>k DEF Inv, Typed, SignalListChanged, WaitOf, Claims
  <2>6. CASE WaitForMultipleObjects(u)
    <3>1. CASE pc'[u] = "idle"
      BY <3>1, <1>q
    <3>2. CASE pc'[u] # "idle"
      <4>1. /\ pc'[u] = "blocked" /\ UNCHANGED <<snap, handle>>
            /\ objects'[u] = [k \in DOMAIN snap[u] |-> handle[snap[u][k].h]]
        BY <1>k, <2>6, <3>2 DEF Inv, Typed, WaitTyped, WaitForMultipleObjects
      <4> QED BY <4>1 DEF WaitOf, Claims, Named
    <3> QED BY <3>1, <3>2
  <2>7. CASE ChildEnded(u)
    <3>1. PICK pos \in DOMAIN objects[u] :
            /\ objects[u][pos] \in exited
            /\ got' = [got EXCEPT ![u] = [h |-> snap[u][pos].h, pid |-> snap[u][pos].pid,
                                          obj |-> objects[u][pos], status |-> 0]]
      BY <2>7 DEF ChildEnded
    <3>2. /\ pc[u] = "blocked" /\ pc'[u] = "exitcode" /\ UNCHANGED <<handle, exited>>
      BY <2>7 DEF ChildEnded, Inv, Typed
    <3>3. got'[u].h = snap[u][pos].h /\ got'[u].obj = objects[u][pos]
      BY <1>k, <3>1 DEF WaitTyped
    <3>4. pos \in DOMAIN snap[u] /\ Named(snap[u][pos].h, objects[u][pos])
      BY <1>k, <3>1, <3>2 DEF WaitOf
    <3>5. snap[u][pos].h \in Handles
      <4>1. snap[u] \in Seq(Entry)
        BY <1>k DEF WaitTyped
      <4>2. snap[u][pos] \in Entry
        BY <3>4, <4>1
      <4> QED BY <4>2 DEF Entry
    <3> QED BY <3>1, <3>2, <3>3, <3>4, <3>5 DEF WaitOf, Claims, Named
  <2>8. CASE GetExitCodeProcess(u)
    <3>1. /\ pc[u] = "exitcode" /\ pc'[u] = "remove" /\ UNCHANGED <<handle, exited>>
      BY <2>8 DEF GetExitCodeProcess, Inv, Typed
    <3>2. /\ got'[u].h = got[u].h /\ got'[u].obj = got[u].obj
          /\ handle[got[u].h] \in exited => got'[u].status = handle[got[u].h]
      BY <1>k, <2>8 DEF GetExitCodeProcess, WaitTyped, Got
    <3> QED BY <1>k, <3>1, <3>2 DEF WaitOf, Claims, Named
  <2> QED BY <1>4, <2>1, <2>2, <2>3, <2>4, <2>5, <2>6, <2>7, <2>8 DEF Step
<1> QED BY <1>1, <1>2, <1>3, <1>4 DEF Next

LEMMA InitRInv == Init => RInv
<1> SUFFICES ASSUME Init  PROVE RInv
  OBVIOUS
<1>1. <<>> \in Seq(Entry) /\ <<>> \in Seq(Processes) /\ <<>> \in Seq(Got)
  OBVIOUS
<1>2. WaitTyped
  BY <1>1, GotTyped DEF Init, WaitTyped, Created
<1>3. Waits
  BY DEF Init, Waits, WaitOf, Claims
<1>4. Accounts
  BY DEF Init, Accounts, ListedOnce, AddedOnce, ClaimedOnce, ReportsFinal, ReportedOnce, Claims
<1> QED BY <1>2, <1>3, <1>4 DEF RInv

(***************************************************************************)
(* If the system gives no number of a closed handle again, every child is  *)
(* reported by one wait at most and with its own exit code, whatever waits *)
(* on copies of the list and whatever __gnat_waitpid takes off it: the     *)
(* search of __gnat_win32_remove_handle decides who reports.  Without that *)
(* assumption it is false, as the run ProcessesDisagreements shows.        *)
(***************************************************************************)
THEOREM ReportedOnceHolds ==
  ASSUME ~ReuseHandles
  PROVE  Spec => []ReportedOnce
<1>1. Inv /\ RInv /\ [Next]_vars => RInv'
  BY NextWaitTyped, NextWaits, NextAccounts DEF RInv
<1>2. RInv => ReportedOnce
  BY DEF RInv, Accounts
<1> QED BY <1>1, <1>2, InitInv, InitRInv, NextInv, PTL DEF Spec
===============================================================================
