-------------------------- MODULE EntryQueue_proofs ---------------------------
(***************************************************************************)
(* Theorems about EntryQueue for any finite set of calls, any entries,     *)
(* priorities and accept lists, under either policy: the links of every    *)
(* queue are a ring in the order of the policy, the call served is the     *)
(* first, and no call is forgotten.                                        *)
(***************************************************************************)
EXTENDS EntryQueue, WellFoundedInduction, FiniteSetTheorems, TLAPS

-----------------------------------------------------------------------------
(* Orders.                                                                 *)

\* The relation order puts the elements of S in a line.
Strict(S, order) ==
  /\ \A x \in S : <<x, x>> \notin order
  /\ \A x, y \in S : x # y => <<x, y>> \in order \/ <<y, x>> \in order
  /\ \A x, y, z \in S : <<x, y>> \in order /\ <<y, z>> \in order => <<x, z>> \in order

\* A non-empty set of numbers has a least one.
LEMMA LeastNumber ==
  ASSUME NEW T \in SUBSET Nat, T # {}
  PROVE  \E n \in T : \A m \in T : n <= m
<1>1. PICK n \in T : \A m \in T : <<m, n>> \notin OpToRel(<, Nat)
  BY NatLessThanWellFounded, WFMin
<1>2. \A m \in T : ~(m < n)
  BY <1>1 DEF OpToRel
<1> QED BY <1>2

\* A non-empty finite set has an element before which there is no other.
LEMMA Foremost ==
  ASSUME NEW T, IsFiniteSet(T), T # {}, NEW order,
         \A x \in T : <<x, x>> \notin order,
         \A x, y, z \in T : <<x, y>> \in order /\ <<y, z>> \in order => <<x, z>> \in order
  PROVE  \E m \in T : \A d \in T : <<d, m>> \notin order
<1> DEFINE Below(m) == {d \in T : <<d, m>> \in order}
           size == [m \in T |-> Cardinality(Below(m))]
           Sizes == {size[m] : m \in T}
<1>1. \A m \in T : IsFiniteSet(Below(m)) /\ Cardinality(Below(m)) \in Nat
  BY FS_Subset, FS_CardinalityType
<1>2. PICK m \in T : \A d \in T : size[m] <= size[d]
  <2>1. \A m \in T : size[m] \in Nat
    BY <1>1
  <2> HIDE DEF size
  <2>2. Sizes \in SUBSET Nat /\ Sizes # {}
    BY <2>1
  <2>3. PICK n \in Sizes : \A k \in Sizes : n <= k
    BY <2>2, LeastNumber
  <2> QED BY <2>3
<1>3. ASSUME NEW d \in T, <<d, m>> \in order  PROVE FALSE
  <2>1. Below(d) \in SUBSET Below(m) /\ d \in Below(m) /\ d \notin Below(d)
    BY <1>3
  <2>2. Below(d) # Below(m)
    BY <2>1
  <2>3. Cardinality(Below(m)) <= Cardinality(Below(d))
    BY <1>2
  <2> HIDE DEF Below
  <2>4. Cardinality(Below(d)) <= Cardinality(Below(m)) /\ Cardinality(Below(d)) # Cardinality(Below(m))
    BY <1>1, <2>1, <2>2, FS_Subset
  <2> QED BY <1>1, <2>3, <2>4
<1> QED BY <1>3

-----------------------------------------------------------------------------
(* The lists.                                                              *)

QueueData ==
  [Next : [Calls -> Links], Prev : [Calls -> Links], Prio : [Calls -> Prios],
   Head : [Entries -> Links], Tail : [Entries -> Links]]

\* Enqueue's loop ends at the first call of a lower priority, or there is none.
LEMMA LoopEnds ==
  ASSUME NEW l \in QueueData, NEW e \in Entries, NEW cs \in SUBSET Calls, cs # {},
         NEW order, Strict(cs, order), Rings(l, e, cs, order), NEW p \in Nat
  PROVE  \/ /\ FirstLower(l, e, p) = null
            /\ \A c \in cs : p <= l.Prio[c]
         \/ /\ FirstLower(l, e, p) \in cs
            /\ p > l.Prio[FirstLower(l, e, p)]
            /\ \A c \in cs : <<c, FirstLower(l, e, p)>> \in order => p <= l.Prio[c]
<1> DEFINE Closed(V) ==
             /\ l.Head[e] \in V
             /\ \A c \in V :
                  p <= l.Prio[c] /\ l.Next[c] # l.Head[e] => l.Next[c] \in V
           lower == {c \in Reached(l, e, p) : p > l.Prio[c]}
           G == {c \in cs : \A d \in cs : <<d, c>> \in order => p <= l.Prio[d]}
<1>1. \A c \in Calls : l.Prio[c] \in Nat
  BY QueueAssumption DEF QueueData
<1>2. Reached(l, e, p) = {c \in Calls : \A V \in SUBSET Calls : Closed(V) => c \in V}
  BY Zenon DEF Reached
<1>3. FirstLower(l, e, p) = IF lower = {} THEN null ELSE CHOOSE c \in lower : TRUE
  BY Zenon DEF FirstLower
<1>4. Closed(G)
  <2>1. l.Head[e] \in G
    BY DEF Rings, Strict
  <2>2. ASSUME NEW c \in G, p <= l.Prio[c], l.Next[c] # l.Head[e]
        PROVE  l.Next[c] \in G
    <3>1. c \in cs \ {l.Tail[e]} /\ l.Next[c] \in cs
      BY <2>2 DEF Rings
    <3>2. \A d \in cs : <<d, l.Next[c]>> \in order => d = c \/ <<d, c>> \in order
      BY <3>1 DEF Rings, Strict
    <3> QED BY <2>2, <3>1, <3>2
  <2> QED BY <2>1, <2>2
<1> HIDE DEF Closed
<1>5. Reached(l, e, p) \subseteq G
  <2>1. G \in SUBSET Calls
    OBVIOUS
  <2> QED BY <1>2, <1>4, <2>1
<1>6. CASE lower # {}
  <2>1. FirstLower(l, e, p) \in lower
    BY <1>3, <1>6
  <2>2. FirstLower(l, e, p) \in G
    BY <2>1, <1>5
  <2> QED BY <2>1, <2>2
<1>7. CASE lower = {}
  <2>1. SUFFICES ASSUME NEW x \in cs, ~(p <= l.Prio[x])  PROVE FALSE
    BY <1>3, <1>7
  <2> DEFINE T == {c \in cs : ~(p <= l.Prio[c])}
  <2>2. PICK m \in T : \A d \in T : <<d, m>> \notin order
    <3>1. T \in SUBSET Calls /\ x \in T
      BY <2>1
    <3>2. IsFiniteSet(T)
      BY <3>1, QueueAssumption, FS_Subset
    <3>3. /\ \A y \in T : <<y, y>> \notin order
          /\ \A y, z, w \in T : <<y, z>> \in order /\ <<z, w>> \in order => <<y, w>> \in order
      BY DEF Strict
    <3> QED BY <3>1, <3>2, <3>3, Foremost
  <2>3. \A d \in cs : <<d, m>> \in order => p <= l.Prio[d]
    BY <2>2
  <2>4. ASSUME NEW V \in SUBSET Calls, Closed(V), m \notin V  PROVE FALSE
    <3> DEFINE W == {c \in cs : (c = m \/ <<c, m>> \in order) /\ c \notin V}
    <3>1. PICK w \in W : \A d \in W : <<d, w>> \notin order
      <4>1. W \in SUBSET Calls /\ m \in W
        BY <2>2, <2>4
      <4>2. IsFiniteSet(W)
        BY <4>1, QueueAssumption, FS_Subset
      <4>3. /\ \A y \in W : <<y, y>> \notin order
            /\ \A y, z, v \in W : <<y, z>> \in order /\ <<z, v>> \in order => <<y, v>> \in order
        BY DEF Strict
      <4>4. W # {}
        BY <4>1
      <4> HIDE DEF W
      <4> QED BY <4>2, <4>3, <4>4, Foremost
    <3> DEFINE u == l.Prev[w]
    <3>2. w \in cs /\ w # l.Head[e] /\ u \in cs /\ l.Next[u] = w
      BY <3>1, <2>4 DEF Closed, Rings
    <3>3. u # l.Tail[e] /\ <<u, w>> \in order
      BY <3>2 DEF Rings
    <3>4. <<u, m>> \in order
      BY <3>1, <3>2, <3>3, <2>2 DEF Strict
    <3>5. u \in V
      BY <3>1, <3>2, <3>3, <3>4
    <3>6. p <= l.Prio[u]
      BY <3>2, <3>4, <2>3
    <3>7. w \in V
      BY <2>4, <3>2, <3>5, <3>6 DEF Closed
    <3> QED BY <3>1, <3>7
  <2>5. m \in Reached(l, e, p)
    BY <1>2, <2>2, <2>4
  <2>6. m \in lower
    BY <2>2, <2>5, <1>1
  <2> QED BY <2>6, <1>7
<1> QED BY <1>6, <1>7

\* What keeps a ring: its links and ends, and the order of its calls.
LEMMA RingKept ==
  ASSUME NEW l, NEW l2, NEW e, NEW cs, NEW order, NEW order2,
         Rings(l, e, cs, order), l2.Head[e] = l.Head[e], l2.Tail[e] = l.Tail[e],
         \A c \in cs : l2.Next[c] = l.Next[c] /\ l2.Prev[c] = l.Prev[c],
         \A c, d \in cs : <<c, d>> \in order2 <=> <<c, d>> \in order
  PROVE  Rings(l2, e, cs, order2)
<1>1. CASE cs = {}
  BY <1>1 DEF Rings
<1>2. CASE cs # {}
  <2>1. l.Tail[e] \in cs /\ l.Head[e] \in cs
    BY <1>2 DEF Rings
  <2> QED BY <1>2, <2>1 DEF Rings
<1> QED BY <1>1, <1>2

\* Other queues than e and the calls that are not of cs are left alone.
Others(l, l2, e, cs) ==
  /\ l2.Prio = l.Prio
  /\ \A f \in Entries \ {e} : l2.Head[f] = l.Head[f] /\ l2.Tail[f] = l.Tail[f]
  /\ \A c \in Calls \ cs : l2.Next[c] = l.Next[c] /\ l2.Prev[c] = l.Prev[c]

\* A call that is put where the order wants it makes a larger ring.
LEMMA EnqueueRing ==
  ASSUME NEW l \in QueueData, NEW e \in Entries, NEW cs \in SUBSET Calls,
         NEW c \in Calls \ cs, NEW order, Strict(cs \cup {c}, order),
         Rings(l, e, cs, order), NEW temp, temp = Precedes(l, e, l.Prio[c]),
         \/ temp = null /\ \A d \in cs : <<d, c>> \in order
         \/ /\ temp \in cs /\ <<c, temp>> \in order
            /\ \A d \in cs : <<d, temp>> \in order => <<d, c>> \in order
  PROVE  /\ Enqueue(l, e, c) \in QueueData
         /\ Rings(Enqueue(l, e, c), e, cs \cup {c}, order)
         /\ Others(l, Enqueue(l, e, c), e, cs \cup {c})
<1> DEFINE prev == IF l.Head[e] = null THEN c
                   ELSE IF temp = null THEN l.Tail[e] ELSE l.Prev[temp]
           next == IF l.Head[e] = null THEN c
                   ELSE IF temp = null THEN l.Head[e] ELSE temp
           l2 == Enqueue(l, e, c)
<1>1. l2 = [l EXCEPT !.Next = [[@ EXCEPT ![c] = next] EXCEPT ![prev] = c],
                     !.Prev = [[@ EXCEPT ![c] = prev] EXCEPT ![next] = c],
                     !.Head[e] = IF temp = @ THEN c ELSE @,
                     !.Tail[e] = IF temp = null THEN c ELSE @]
  BY DEF Enqueue
<1>2. null \notin Calls
  BY QueueAssumption
<1>3. cs # {} => l.Head[e] \in cs /\ l.Tail[e] \in cs
  BY DEF Rings
<1>4. cs = {} => l.Head[e] = null /\ l.Tail[e] = null
  BY DEF Rings
<1>5. temp \in cs => cs # {} /\ temp \in Calls /\ temp # null /\ l.Prev[temp] \in cs
  BY <1>2 DEF Rings
<1>6. prev \in cs \cup {c} /\ next \in cs \cup {c}
  BY <1>2, <1>3, <1>4, <1>5
<1> HIDE DEF prev, next
<1>7. /\ l2.Next = [x \in Calls |-> IF x = prev THEN c ELSE IF x = c THEN next ELSE l.Next[x]]
      /\ l2.Prev = [x \in Calls |-> IF x = next THEN c ELSE IF x = c THEN prev ELSE l.Prev[x]]
      /\ l2.Prio = l.Prio
      /\ l2.Head = [l.Head EXCEPT ![e] = IF temp = @ THEN c ELSE @]
      /\ l2.Tail = [l.Tail EXCEPT ![e] = IF temp = null THEN c ELSE @]
      /\ l2 \in QueueData
  <2>1. /\ l2.Next = [[l.Next EXCEPT ![c] = next] EXCEPT ![prev] = c]
        /\ l2.Prev = [[l.Prev EXCEPT ![c] = prev] EXCEPT ![next] = c]
        /\ l2.Prio = l.Prio
        /\ l2.Head = [l.Head EXCEPT ![e] = IF temp = @ THEN c ELSE @]
        /\ l2.Tail = [l.Tail EXCEPT ![e] = IF temp = null THEN c ELSE @]
        /\ l2 = [Next |-> l2.Next, Prev |-> l2.Prev, Prio |-> l2.Prio, Head |-> l2.Head, Tail |-> l2.Tail]
    BY <1>1 DEF QueueData
  <2> HIDE DEF l2
  <2>2. l2.Next = [x \in Calls |-> IF x = prev THEN c ELSE IF x = c THEN next ELSE l.Next[x]]
    BY <2>1, <1>6 DEF QueueData
  <2>3. l2.Prev = [x \in Calls |-> IF x = next THEN c ELSE IF x = c THEN prev ELSE l.Prev[x]]
    BY <2>1, <1>6 DEF QueueData
  <2>4. l2.Next \in [Calls -> Links] /\ l2.Prev \in [Calls -> Links]
    BY <2>2, <2>3, <1>6 DEF QueueData, Links
  <2>5. l2.Head \in [Entries -> Links] /\ l2.Tail \in [Entries -> Links]
    BY <2>1 DEF QueueData, Links
  <2>6. l2 \in QueueData
    BY <2>1, <2>4, <2>5 DEF QueueData
  <2> QED BY <2>1, <2>2, <2>3, <2>6
<1>8. Others(l, l2, e, cs \cup {c})
  BY <1>6, <1>7 DEF Others, QueueData
<1> HIDE DEF l2
<1>9. CASE cs = {}
  <2>1. temp = null /\ prev = c /\ next = c
    BY <1>4, <1>5, <1>9 DEF prev, next
  <2> QED BY <2>1, <1>4, <1>7, <1>8, <1>9 DEF Rings, QueueData, Strict, l2
<1>10. CASE cs # {} /\ temp = null
  <2>1. prev = l.Tail[e] /\ next = l.Head[e]
    BY <1>2, <1>3, <1>10 DEF prev, next
  <2>2. l2.Head[e] = l.Head[e] /\ l2.Tail[e] = c
    BY <1>2, <1>3, <1>7, <1>10 DEF QueueData
  <2>3. Rings(l2, e, cs \cup {c}, order)
    <3>1. \A x \in cs \cup {c} :
            /\ l2.Next[x] = IF x = l.Tail[e] THEN c ELSE IF x = c THEN l.Head[e] ELSE l.Next[x]
            /\ l2.Prev[x] = IF x = l.Head[e] THEN c ELSE IF x = c THEN l.Tail[e] ELSE l.Prev[x]
      BY <2>1, <1>7
    <3>2. \A x \in cs : <<x, c>> \in order /\ <<c, x>> \notin order
      BY <1>2, <1>10 DEF Strict
    <3>3. \A x \in cs \cup {c} : /\ l2.Next[x] \in cs \cup {c} /\ l2.Prev[l2.Next[x]] = x
                                 /\ l2.Prev[x] \in cs \cup {c} /\ l2.Next[l2.Prev[x]] = x
      BY <3>1, <1>3, <1>10 DEF Rings
    <3>4. \A x \in (cs \cup {c}) \ {c} :
            /\ <<x, l2.Next[x]>> \in order
            /\ \A y \in cs \cup {c} : ~(<<x, y>> \in order /\ <<y, l2.Next[x]>> \in order)
      <4>1. CASE cs = {l.Tail[e]}
        BY <4>1, <3>1, <3>2 DEF Strict
      <4> QED BY <3>1, <3>2, <1>3, <1>10 DEF Rings, Strict
    <3>5. l2.Next[c] = l.Head[e] /\ \A x \in cs \ {l.Head[e]} : <<l.Head[e], x>> \in order
      BY <3>1, <1>3, <1>10 DEF Rings
    <3> QED BY <2>2, <3>2, <3>3, <3>4, <3>5, <1>3, <1>10 DEF Rings
  <2> QED BY <2>3, <1>7, <1>8 DEF l2
<1>11. CASE temp \in cs
  <2>1. prev = l.Prev[temp] /\ next = temp /\ prev \in cs /\ l.Next[prev] = temp
    BY <1>2, <1>3, <1>5, <1>11 DEF prev, next, Rings
  <2>2. l2.Tail[e] = l.Tail[e] /\ l2.Head[e] = IF temp = l.Head[e] THEN c ELSE l.Head[e]
    BY <1>2, <1>3, <1>5, <1>7, <1>11 DEF QueueData
  <2>3. Rings(l2, e, cs \cup {c}, order)
    <3>1. \A x \in cs \cup {c} :
            /\ l2.Next[x] = IF x = prev THEN c ELSE IF x = c THEN temp ELSE l.Next[x]
            /\ l2.Prev[x] = IF x = temp THEN c ELSE IF x = c THEN prev ELSE l.Prev[x]
      BY <2>1, <1>7
    <3>2. /\ <<c, temp>> \in order /\ <<temp, c>> \notin order
          /\ \A x \in cs : <<x, temp>> \in order => <<x, c>> \in order /\ <<c, x>> \notin order
          /\ \A x \in cs : x # temp /\ <<x, temp>> \notin order =>
                             /\ <<temp, x>> \in order
                             /\ <<c, x>> \in order /\ <<x, c>> \notin order
      <4>1. /\ <<c, temp>> \in order
            /\ \A x \in cs : <<x, temp>> \in order => <<x, c>> \in order
        BY <1>2, <1>11
      <4>2. \A x, y \in cs \cup {c} : ~(<<x, y>> \in order /\ <<y, x>> \in order)
        BY DEF Strict
      <4>3. \A x \in cs : x # temp /\ <<x, temp>> \notin order => <<temp, x>> \in order
        BY <1>11 DEF Strict
      <4>4. \A x \in cs : <<temp, x>> \in order => <<c, x>> \in order
        BY <4>1, <1>11 DEF Strict
      <4> QED BY <4>1, <4>2, <4>3, <4>4, <1>11
    <3>3. \A x \in cs \cup {c} : /\ l2.Next[x] \in cs \cup {c} /\ l2.Prev[l2.Next[x]] = x
                                 /\ l2.Prev[x] \in cs \cup {c} /\ l2.Next[l2.Prev[x]] = x
      BY <3>1, <2>1, <1>3, <1>11 DEF Rings
    <3>4. ASSUME temp # l.Head[e]
          PROVE  /\ prev # l.Tail[e] /\ <<prev, temp>> \in order
                 /\ \A y \in cs : ~(<<prev, y>> \in order /\ <<y, temp>> \in order)
      BY <3>4, <2>1, <1>3, <1>11 DEF Rings
    <3>5. ASSUME temp = l.Head[e]
          PROVE  prev = l.Tail[e] /\ \A x \in cs \ {temp} : <<temp, x>> \in order /\ <<x, temp>> \notin order
      BY <3>5, <2>1, <1>3, <1>5, <1>11 DEF Rings, Strict
    <3>6. /\ l2.Head[e] \in cs \cup {c}
          /\ \A x \in (cs \cup {c}) \ {l2.Head[e]} : <<l2.Head[e], x>> \in order
      <4>1. CASE temp = l.Head[e]
        BY <4>1, <3>2, <3>5, <2>2
      <4>2. CASE temp # l.Head[e]
        <5>1. \A x \in cs \ {l.Head[e]} : <<l.Head[e], x>> \in order
          BY <1>3, <1>11 DEF Rings
        <5> QED BY <4>2, <5>1, <3>2, <2>2, <1>3, <1>11
      <4> QED BY <4>1, <4>2
    <3>7. /\ l2.Tail[e] \in cs \cup {c}
          /\ \A x \in (cs \cup {c}) \ {l2.Tail[e]} : <<x, l2.Tail[e]>> \in order
      <4>1. \A x \in cs \ {l.Tail[e]} : <<x, l.Tail[e]>> \in order
        BY <1>3, <1>11 DEF Rings
      <4>2. <<l.Tail[e], temp>> \notin order
        <5>1. l.Tail[e] \in cs \cup {c} /\ temp \in cs \cup {c}
          BY <1>3, <1>11
        <5>2. <<l.Tail[e], l.Tail[e]>> \notin order
          BY <5>1 DEF Strict
        <5>3. <<l.Tail[e], temp>> \in order /\ <<temp, l.Tail[e]>> \in order
                => <<l.Tail[e], l.Tail[e]>> \in order
          BY <5>1 DEF Strict
        <5>4. temp # l.Tail[e] => <<temp, l.Tail[e]>> \in order
          BY <4>1, <1>11
        <5> QED BY <5>2, <5>3, <5>4
      <4> QED BY <4>1, <4>2, <3>2, <2>2, <1>3, <1>11
    <3>8. l2.Next[l2.Tail[e]] = l2.Head[e]
      BY <3>1, <3>4, <3>5, <2>1, <2>2, <1>3, <1>11 DEF Rings
    <3>9. ASSUME NEW x \in (cs \cup {c}) \ {l.Tail[e]}
          PROVE  /\ <<x, l2.Next[x]>> \in order
                 /\ \A y \in cs \cup {c} : ~(<<x, y>> \in order /\ <<y, l2.Next[x]>> \in order)
      <4>1. CASE x = c
        BY <4>1, <3>1, <3>2, <2>1, <1>11 DEF Strict
      <4>2. CASE x = prev
        BY <4>2, <3>1, <3>2, <3>4, <3>5, <2>1, <1>11 DEF Strict
      <4>3. CASE x # c /\ x # prev
        <5>1. x \in cs /\ l2.Next[x] = l.Next[x] /\ l.Next[x] \in cs /\ l.Next[x] # temp
          BY <4>3, <3>1, <2>1, <1>11 DEF Rings
        <5>2. <<x, l.Next[x]>> \in order /\ \A y \in cs : ~(<<x, y>> \in order /\ <<y, l.Next[x]>> \in order)
          BY <5>1 DEF Rings
        <5>3. ~(<<x, c>> \in order /\ <<c, l.Next[x]>> \in order)
          <6>1. <<l.Next[x], temp>> \in order => <<c, l.Next[x]>> \notin order
            BY <5>1, <3>2
          <6>2. <<x, c>> \in order => <<x, temp>> \in order
            BY <5>1, <3>2, <1>11 DEF Strict
          <6>3. <<l.Next[x], temp>> \in order \/ <<temp, l.Next[x]>> \in order
            BY <5>1, <3>2
          <6> QED BY <5>2, <6>1, <6>2, <6>3, <1>11
        <5> QED BY <5>1, <5>2, <5>3
      <4> QED BY <4>1, <4>2, <4>3
    <3> HIDE DEF prev, next
    <3> QED BY <2>2, <3>3, <3>6, <3>7, <3>8, <3>9, <1>11 DEF Rings
  <2> QED BY <2>3, <1>7, <1>8 DEF l2
<1> QED BY <1>9, <1>10, <1>11

\* A call taken out leaves the ring of the others.
LEMMA DequeueRing ==
  ASSUME NEW l \in QueueData, NEW e \in Entries, NEW cs \in SUBSET Calls,
         NEW c \in cs, NEW order, Strict(cs, order), Rings(l, e, cs, order)
  PROVE  /\ Dequeue(l, e, c) \in QueueData
         /\ Rings(Dequeue(l, e, c), e, cs \ {c}, order)
         /\ Others(l, Dequeue(l, e, c), e, cs)
         /\ Dequeue(l, e, c).Next[c] = null
<1> DEFINE last == l.Head[e] = l.Tail[e]
           l2 == Dequeue(l, e, c)
<1>1. l.Head[e] \in cs /\ l.Tail[e] \in cs /\ l.Next[c] \in cs /\ l.Prev[c] \in cs
  BY DEF Rings
<1>2. null \notin Calls
  BY QueueAssumption
<1>3. /\ l2.Next = [x \in Calls |-> IF x = c THEN null ELSE IF x = l.Prev[c] THEN l.Next[c] ELSE l.Next[x]]
      /\ l2.Prev = [x \in Calls |-> IF x = c THEN null ELSE IF x = l.Next[c] THEN l.Prev[c] ELSE l.Prev[x]]
      /\ l2.Prio = l.Prio
      /\ l2.Head = [l.Head EXCEPT ![e] = IF @ # c THEN @ ELSE IF last THEN null ELSE l.Next[c]]
      /\ l2.Tail = [l.Tail EXCEPT ![e] = IF @ # c THEN @ ELSE IF last THEN null ELSE l.Prev[c]]
      /\ l2 \in QueueData
  BY <1>1, <1>2 DEF Dequeue, QueueData, Links
<1> HIDE DEF l2
<1>4. Others(l, l2, e, cs) /\ l2.Next[c] = null
  BY <1>1, <1>3 DEF Others, QueueData
<1>5. CASE last
  <2>1. \A x \in cs : x = l.Head[e]
    BY <1>1, <1>5 DEF Rings, Strict
  <2>2. Rings(l2, e, cs \ {c}, order)
    <3>1. cs \ {c} = {} /\ l.Head[e] = c /\ l.Tail[e] = c
      BY <2>1, <1>1, <1>5
    <3>2. l2.Head[e] = null /\ l2.Tail[e] = null
      BY <3>1, <1>3, <1>5 DEF QueueData
    <3> QED BY <3>1, <3>2 DEF Rings
  <2> QED BY <2>2, <1>3, <1>4 DEF l2
<1>6. CASE ~last
  <2>1. l2.Head[e] = IF l.Head[e] # c THEN l.Head[e] ELSE l.Next[c]
    BY <1>3, <1>6 DEF QueueData
  <2>2. l2.Tail[e] = IF l.Tail[e] # c THEN l.Tail[e] ELSE l.Prev[c]
    BY <1>3, <1>6 DEF QueueData
  <2>3. Rings(l2, e, cs \ {c}, order)
    <3> DEFINE u == l.Prev[c]
               v == l.Next[c]
    <3>1. /\ u \in cs \ {c} /\ v \in cs \ {c} /\ l.Next[u] = c /\ l.Prev[v] = c
      BY <1>1, <1>6 DEF Rings, Strict
    <3>2. \A x \in cs \ {c} :
            /\ l2.Next[x] = IF x = u THEN v ELSE l.Next[x]
            /\ l2.Prev[x] = IF x = v THEN u ELSE l.Prev[x]
      BY <1>3
    <3>3. \A x \in cs \ {c} : /\ l2.Next[x] \in cs \ {c} /\ l2.Prev[l2.Next[x]] = x
                              /\ l2.Prev[x] \in cs \ {c} /\ l2.Next[l2.Prev[x]] = x
      BY <3>1, <3>2 DEF Rings
    <3>4. c = l.Head[e] => u = l.Tail[e]
      BY <3>1 DEF Rings
    <3>5. c = l.Tail[e] => v = l.Head[e]
      BY <3>1 DEF Rings
    <3>6. u # l.Tail[e] => /\ <<u, c>> \in order
                           /\ \A y \in cs : ~(<<u, y>> \in order /\ <<y, c>> \in order)
      BY <3>1 DEF Rings
    <3>7. c # l.Tail[e] => /\ <<c, v>> \in order
                           /\ \A y \in cs : ~(<<c, y>> \in order /\ <<y, v>> \in order)
      BY <3>1 DEF Rings
    <3>8. u = l.Tail[e] => c = l.Head[e]
      BY <3>1 DEF Rings
    <3> HIDE DEF u, v
    <3>9. /\ l2.Head[e] \in cs \ {c}
          /\ \A x \in (cs \ {c}) \ {l2.Head[e]} : <<l2.Head[e], x>> \in order
      <4>1. CASE l.Head[e] # c
        BY <4>1, <2>1, <1>1 DEF Rings
      <4>2. CASE l.Head[e] = c
        <5>1. c # l.Tail[e] /\ l2.Head[e] = v
          BY <4>2, <2>1, <1>6 DEF v
        <5>2. ASSUME NEW x \in cs, x # c, x # v  PROVE <<v, x>> \in order
          BY <5>1, <5>2, <4>2, <3>1, <3>7 DEF Rings, Strict
        <5> QED BY <5>1, <5>2, <3>1
      <4> QED BY <4>1, <4>2
    <3>10. /\ l2.Tail[e] \in cs \ {c}
           /\ \A x \in (cs \ {c}) \ {l2.Tail[e]} : <<x, l2.Tail[e]>> \in order
      <4>1. CASE l.Tail[e] # c
        BY <4>1, <2>2, <1>1 DEF Rings
      <4>2. CASE l.Tail[e] = c
        <5>1. c # l.Head[e] /\ l2.Tail[e] = u /\ u # l.Tail[e]
          BY <4>2, <2>2, <1>6, <3>1 DEF u
        <5>2. ASSUME NEW x \in cs, x # c, x # u  PROVE <<x, u>> \in order
          BY <5>1, <5>2, <4>2, <3>1, <3>6 DEF Rings, Strict
        <5> QED BY <5>1, <5>2, <3>1
      <4> QED BY <4>1, <4>2
    <3>11. l2.Next[l2.Tail[e]] = l2.Head[e]
      <4>1. CASE l.Tail[e] = c
        BY <4>1, <2>1, <2>2, <3>1, <3>2, <3>5, <1>6 DEF u, v
      <4>2. CASE l.Tail[e] # c /\ l.Head[e] = c
        BY <4>2, <2>1, <2>2, <3>1, <3>2, <3>4, <1>1 DEF u, v
      <4>3. CASE l.Tail[e] # c /\ l.Head[e] # c
        BY <4>3, <2>1, <2>2, <3>1, <3>2, <3>8, <1>1 DEF Rings
      <4> QED BY <4>1, <4>2, <4>3
    <3>12. ASSUME NEW x \in (cs \ {c}) \ {l2.Tail[e]}
           PROVE  /\ <<x, l2.Next[x]>> \in order
                  /\ \A y \in cs \ {c} : ~(<<x, y>> \in order /\ <<y, l2.Next[x]>> \in order)
      <4>1. x # l.Tail[e]
        BY <2>2, <1>1
      <4>2. CASE x = u
        <5>1. c # l.Tail[e] /\ l2.Next[x] = v
          BY <4>1, <4>2, <2>2, <3>1, <3>2 DEF u
        <5> QED BY <5>1, <4>1, <4>2, <3>1, <3>6, <3>7 DEF Strict
      <4>3. CASE x # u
        BY <4>1, <4>3, <3>2 DEF Rings
      <4> QED BY <4>2, <4>3
    <3>13. cs \ {c} # {}
      BY <3>1
    <3> QED BY <3>3, <3>9, <3>10, <3>11, <3>12, <3>13 DEF Rings
  <2> QED BY <2>3, <1>3, <1>4 DEF l2
<1> QED BY <1>5, <1>6

-----------------------------------------------------------------------------
(* The policy.                                                             *)

\* What ahead says is an order of arrivals.
Arrivals(line) ==
  /\ DOMAIN line \subseteq Calls
  /\ line \in [DOMAIN line -> SUBSET DOMAIN line]
  /\ \A c, d \in DOMAIN line :
       /\ c \notin line[c]
       /\ c # d => c \in line[d] \/ d \in line[c]
       /\ c \in line[d] => line[c] \subseteq line[d]

\* PolicyOrder for any priorities and arrivals.
OrderBy(prio, line) ==
  {p \in (DOMAIN line) \X (DOMAIN line) :
     IF Priority_Queuing /\ prio[p[1]] # prio[p[2]]
       THEN prio[p[1]] > prio[p[2]]
       ELSE p[1] \in line[p[2]]}

LEMMA OrderByPair ==
  ASSUME NEW prio, NEW line, NEW c \in DOMAIN line, NEW d \in DOMAIN line
  PROVE  <<c, d>> \in OrderBy(prio, line) <=>
           IF Priority_Queuing /\ prio[c] # prio[d] THEN prio[c] > prio[d] ELSE c \in line[d]
  BY DEF OrderBy

LEMMA PolicyIsStrict ==
  ASSUME NEW prio \in [Calls -> Prios], NEW line, Arrivals(line)
  PROVE  Strict(DOMAIN line, OrderBy(prio, line))
<1> DEFINE R == OrderBy(prio, line)
<1>1. \A c \in DOMAIN line : prio[c] \in Nat
  BY QueueAssumption DEF Arrivals
<1>2. \A c, d \in DOMAIN line :
        <<c, d>> \in R <=>
          IF Priority_Queuing /\ prio[c] # prio[d] THEN prio[c] > prio[d] ELSE c \in line[d]
  BY OrderByPair
<1>3. \A c, d, f \in DOMAIN line : c \in line[d] /\ d \in line[f] => c \in line[f]
  BY DEF Arrivals
<1> HIDE DEF R
<1>4. \A c \in DOMAIN line : <<c, c>> \notin R
  BY <1>2 DEF Arrivals
<1>5. \A c, d \in DOMAIN line : c # d => <<c, d>> \in R \/ <<d, c>> \in R
  <2> SUFFICES ASSUME NEW c \in DOMAIN line, NEW d \in DOMAIN line, c # d
               PROVE  <<c, d>> \in R \/ <<d, c>> \in R
    OBVIOUS
  <2>1. c \in line[d] \/ d \in line[c]
    BY DEF Arrivals
  <2>2. prio[c] # prio[d] => prio[c] > prio[d] \/ prio[d] > prio[c]
    BY <1>1
  <2> QED BY <1>2, <2>1, <2>2
<1>6. \A c, d, f \in DOMAIN line : <<c, d>> \in R /\ <<d, f>> \in R => <<c, f>> \in R
  <2> SUFFICES ASSUME NEW c \in DOMAIN line, NEW d \in DOMAIN line, NEW f \in DOMAIN line,
                      <<c, d>> \in R, <<d, f>> \in R
               PROVE  <<c, f>> \in R
    OBVIOUS
  <2>1. CASE Priority_Queuing
    <3>1. IF prio[c] # prio[d] THEN prio[c] > prio[d] ELSE c \in line[d]
      BY <1>2, <2>1
    <3>2. IF prio[d] # prio[f] THEN prio[d] > prio[f] ELSE d \in line[f]
      BY <1>2, <2>1
    <3>3. IF prio[c] # prio[f] THEN prio[c] > prio[f] ELSE c \in line[f]
      BY <1>1, <1>3, <3>1, <3>2
    <3> QED BY <1>2, <2>1, <3>3
  <2>2. CASE ~Priority_Queuing
    BY <1>2, <1>3, <2>2
  <2> QED BY <2>1, <2>2
<1> QED BY <1>4, <1>5, <1>6 DEF R, Strict

LEMMA LastArrives ==
  ASSUME Arrivals(ahead), NEW c \in Calls
  PROVE  /\ Arrivals(Last(c)) /\ DOMAIN Last(c) = DOMAIN ahead \cup {c}
         /\ \A d \in DOMAIN ahead \ {c} : d \in Last(c)[c] /\ c \notin Last(c)[d]
         /\ \A d, f \in DOMAIN ahead \ {c} : f \in Last(c)[d] <=> f \in ahead[d]
<1>1. DOMAIN Last(c) = DOMAIN ahead \cup {c}
  BY DEF Last
<1>2. Last(c)[c] = DOMAIN ahead \ {c}
  BY DEF Last
<1>3. \A d \in DOMAIN ahead \ {c} : Last(c)[d] = ahead[d] \ {c}
  BY DEF Last
<1>4. Last(c) \in [DOMAIN Last(c) -> SUBSET DOMAIN Last(c)]
  BY <1>1, <1>2, <1>3 DEF Last, Arrivals
<1> QED BY <1>1, <1>2, <1>3, <1>4 DEF Arrivals

LEMMA OthersStay ==
  ASSUME Arrivals(ahead), NEW c \in DOMAIN ahead
  PROVE  /\ Arrivals(Without(c)) /\ DOMAIN Without(c) = DOMAIN ahead \ {c}
         /\ \A d, f \in DOMAIN ahead \ {c} : f \in Without(c)[d] <=> f \in ahead[d]
<1>1. DOMAIN Without(c) = DOMAIN ahead \ {c}
  BY DEF Without
<1>2. \A d \in DOMAIN ahead \ {c} : Without(c)[d] = ahead[d] \ {c}
  BY DEF Without
<1>3. Without(c) \in [DOMAIN Without(c) -> SUBSET DOMAIN Without(c)]
  BY <1>1, <1>2 DEF Without, Arrivals
<1> QED BY <1>1, <1>2, <1>3 DEF Arrivals

-----------------------------------------------------------------------------
(***************************************************************************)
(* The inductive invariant. ListedInOrder is inductive with the order of   *)
(* arrivals and, for the end of Broadcast_Program_Error, that the queues   *)
(* it has passed are empty.                                                *)
(***************************************************************************)
EmptiedInTurn ==
  emptying # {} => \A e \in Entries \ emptying : q.Head[e] = null

IInv == TypeOK /\ Arrivals(ahead) /\ ListedInOrder /\ EmptiedInTurn

\* l lists the calls cs, each at its entry, in the order, and no others.
Lists(l, entry, cs, order) ==
  /\ l \in QueueData
  /\ \A c \in Calls : l.Next[c] # null <=> c \in cs
  /\ \A e \in Entries : Rings(l, e, {c \in cs : entry[c] = e}, order)

LEMMA QueuesList ==
  IInv <=> /\ TypeOK /\ Arrivals(ahead) /\ EmptiedInTurn
           /\ Lists(q, E, DOMAIN ahead, OrderBy(q.Prio, ahead))
<1>1. PolicyOrder = OrderBy(q.Prio, ahead)
  BY DEF PolicyOrder, OrderBy
<1>2. TypeOK => q \in QueueData
  BY DEF TypeOK, QueueData
<1> QED BY <1>1, <1>2, Zenon DEF IInv, ListedInOrder, Lists, Waiting, Onqueue

\* A call taken out leaves the others listed.
LEMMA TakenOut ==
  ASSUME NEW l, NEW entry \in [Calls -> Entries], NEW cs \in SUBSET Calls,
         NEW order, Strict(cs, order), Lists(l, entry, cs, order), NEW c \in cs
  PROVE  /\ Lists(Dequeue(l, entry[c], c), entry, cs \ {c}, order)
         /\ Dequeue(l, entry[c], c).Prio = l.Prio
         /\ \A f \in Entries \ {entry[c]} : Dequeue(l, entry[c], c).Head[f] = l.Head[f]
<1> DEFINE e == entry[c]
           ds == {d \in cs : entry[d] = e}
           l2 == Dequeue(l, entry[c], c)
<1>1. e \in Entries /\ c \in ds /\ ds \in SUBSET Calls /\ Rings(l, e, ds, order) /\ l \in QueueData
  BY DEF Lists
<1>2. Strict(ds, order)
  BY DEF Strict
<1> HIDE DEF ds
<1>3. /\ l2 \in QueueData /\ Rings(l2, e, ds \ {c}, order) /\ Others(l, l2, e, ds)
      /\ l2.Next[c] = null
  BY <1>1, <1>2, DequeueRing
<1> HIDE DEF l2
<1>4. ASSUME NEW f \in Entries
      PROVE  Rings(l2, f, {d \in cs \ {c} : entry[d] = f}, order)
  <2>1. CASE f = e
    <3>1. {d \in cs \ {c} : entry[d] = f} = ds \ {c}
      BY <2>1 DEF ds
    <3> QED BY <1>3, <2>1, <3>1
  <2>2. CASE f # e
    <3> DEFINE fs == {d \in cs : entry[d] = f}
    <3>1. {d \in cs \ {c} : entry[d] = f} = fs
      BY <2>2
    <3>2. Rings(l, f, fs, order)
      BY DEF Lists
    <3>3. \A d \in fs : l2.Next[d] = l.Next[d] /\ l2.Prev[d] = l.Prev[d]
      BY <1>3, <2>2 DEF Others, ds
    <3>4. l2.Head[f] = l.Head[f] /\ l2.Tail[f] = l.Tail[f]
      BY <1>3, <2>2 DEF Others
    <3> HIDE DEF fs
    <3>5. Rings(l2, f, fs, order)
      BY <3>2, <3>3, <3>4, RingKept
    <3> QED BY <3>1, <3>5
  <2> QED BY <2>1, <2>2
<1>5. ASSUME NEW d \in Calls  PROVE l2.Next[d] # null <=> d \in cs \ {c}
  <2>1. CASE d = c
    BY <1>3, <2>1
  <2>2. CASE d \in ds \ {c}
    <3>1. l2.Next[d] \in ds
      BY <1>3, <2>2 DEF Rings
    <3> QED BY <3>1, <2>2, <1>1, QueueAssumption DEF ds
  <2>3. CASE d \notin ds
    BY <2>3, <1>1, <1>3 DEF Others, Lists
  <2> QED BY <2>1, <2>2, <2>3
<1> QED BY <1>3, <1>4, <1>5 DEF Lists, Others, l2

\* Where Enqueue puts a call is where the policy wants the last to arrive.
LEMMA PutLast ==
  ASSUME NEW l, NEW entry \in [Calls -> Entries], NEW c \in Calls, NEW p \in Prios,
         Arrivals(ahead), NEW cs, cs = DOMAIN ahead \ {c},
         Lists(l, entry, cs, OrderBy(l.Prio, ahead)),
         NEW l2, l2 = Enqueue([l EXCEPT !.Prio[c] = p], entry[c], c)
  PROVE  Lists(l2, entry, DOMAIN Last(c), OrderBy(l2.Prio, Last(c)))
<1> DEFINE e == entry[c]
           l1 == [l EXCEPT !.Prio[c] = p]
           ds == {d \in cs : entry[d] = e}
           order == OrderBy(l1.Prio, Last(c))
<1>1. /\ l \in QueueData /\ l1 \in QueueData /\ e \in Entries /\ ds \in SUBSET Calls /\ c \in Calls \ ds
      /\ cs \in SUBSET Calls
  BY DEF Lists, QueueData, Arrivals
<1>2. /\ l1.Next = l.Next /\ l1.Prev = l.Prev /\ l1.Head = l.Head /\ l1.Tail = l.Tail
      /\ l1.Prio[c] = p /\ \A d \in cs : l1.Prio[d] = l.Prio[d]
      /\ l1.Prio \in [Calls -> Prios]
  BY <1>1 DEF QueueData
<1> HIDE DEF l1
<1>3. /\ Arrivals(Last(c)) /\ DOMAIN Last(c) = cs \cup {c}
      /\ \A d \in cs : d \in Last(c)[c] /\ c \notin Last(c)[d]
      /\ \A d, f \in cs : f \in Last(c)[d] <=> f \in ahead[d]
  BY LastArrives
<1>4. Strict(cs \cup {c}, order)
  BY <1>2, <1>3, PolicyIsStrict
<1>5. \A d, f \in cs : <<d, f>> \in order <=> <<d, f>> \in OrderBy(l.Prio, ahead)
  <2> SUFFICES ASSUME NEW d \in cs, NEW f \in cs
               PROVE  <<d, f>> \in order <=> <<d, f>> \in OrderBy(l.Prio, ahead)
    OBVIOUS
  <2>1. <<d, f>> \in order <=>
          IF Priority_Queuing /\ l1.Prio[d] # l1.Prio[f] THEN l1.Prio[d] > l1.Prio[f] ELSE d \in Last(c)[f]
    BY <1>3, OrderByPair
  <2>2. <<d, f>> \in OrderBy(l.Prio, ahead) <=>
          IF Priority_Queuing /\ l.Prio[d] # l.Prio[f] THEN l.Prio[d] > l.Prio[f] ELSE d \in ahead[f]
    BY OrderByPair
  <2> QED BY <1>2, <1>3, <2>1, <2>2
<1>6. \A d \in cs : /\ <<d, c>> \in order <=> ~(Priority_Queuing /\ p > l1.Prio[d])
                    /\ <<c, d>> \in order <=> (Priority_Queuing /\ p > l1.Prio[d])
  <2> SUFFICES ASSUME NEW d \in cs
               PROVE  /\ <<d, c>> \in order <=> ~(Priority_Queuing /\ p > l1.Prio[d])
                      /\ <<c, d>> \in order <=> (Priority_Queuing /\ p > l1.Prio[d])
    OBVIOUS
  <2>1. <<d, c>> \in order <=>
          IF Priority_Queuing /\ l1.Prio[d] # p THEN l1.Prio[d] > p ELSE d \in Last(c)[c]
    <3>1. c \in DOMAIN Last(c) /\ d \in DOMAIN Last(c)
      BY <1>3
    <3>2. <<d, c>> \in order <=>
            IF Priority_Queuing /\ l1.Prio[d] # l1.Prio[c] THEN l1.Prio[d] > l1.Prio[c] ELSE d \in Last(c)[c]
      BY <3>1, OrderByPair
    <3> QED BY <1>2, <3>2
  <2>2. <<c, d>> \in order <=>
          IF Priority_Queuing /\ p # l1.Prio[d] THEN p > l1.Prio[d] ELSE c \in Last(c)[d]
    <3>1. c \in DOMAIN Last(c) /\ d \in DOMAIN Last(c)
      BY <1>3
    <3>2. <<c, d>> \in order <=>
            IF Priority_Queuing /\ l1.Prio[c] # l1.Prio[d] THEN l1.Prio[c] > l1.Prio[d] ELSE c \in Last(c)[d]
      BY <3>1, OrderByPair
    <3> QED BY <1>2, <3>2
  <2>3. l1.Prio[d] \in Nat /\ p \in Nat
    BY <1>1, <1>2, QueueAssumption
  <2>4. d \in Last(c)[c] /\ c \notin Last(c)[d]
    BY <1>3
  <2>5. CASE Priority_Queuing
    BY <2>1, <2>2, <2>3, <2>4, <2>5
  <2>6. CASE ~Priority_Queuing
    BY <2>1, <2>2, <2>4, <2>6
  <2> QED BY <2>5, <2>6
<1>7. \A f \in Entries : Rings(l1, f, {d \in cs : entry[d] = f}, order)
  <2> SUFFICES ASSUME NEW f \in Entries  PROVE Rings(l1, f, {d \in cs : entry[d] = f}, order)
    OBVIOUS
  <2> DEFINE fs == {d \in cs : entry[d] = f}
  <2>1. Rings(l, f, fs, OrderBy(l.Prio, ahead))
    BY DEF Lists
  <2>2. \A d, g \in fs : <<d, g>> \in order <=> <<d, g>> \in OrderBy(l.Prio, ahead)
    BY <1>5, Zenon
  <2> HIDE DEF fs, order
  <2>3. Rings(l1, f, fs, order)
    BY <1>2, <2>1, <2>2, RingKept
  <2> QED BY <2>3 DEF fs
<1> HIDE DEF order
<1>8. Rings(l1, e, ds, order) /\ Strict(ds, order) /\ Strict(ds \cup {c}, order)
  BY <1>1, <1>4, <1>7 DEF Strict
<1> DEFINE temp == Precedes(l1, e, l1.Prio[c])
<1>9. \/ temp = null /\ \A d \in ds : <<d, c>> \in order
      \/ /\ temp \in ds /\ <<c, temp>> \in order
         /\ \A d \in ds : <<d, temp>> \in order => <<d, c>> \in order
  <2>1. temp = IF Priority_Queuing /\ l1.Head[e] # null THEN FirstLower(l1, e, p) ELSE null
    BY <1>2 DEF Precedes
  <2> HIDE DEF temp
  <2>2. CASE ~Priority_Queuing
    BY <2>1, <2>2, <1>6
  <2>3. CASE ds = {}
    <3>1. l1.Head[e] = null
      BY <1>8, <2>3 DEF Rings
    <3> QED BY <2>1, <2>3, <3>1
  <2>4. CASE Priority_Queuing /\ ds # {}
    <3>1. l1.Head[e] # null
      BY <1>1, <1>8, <2>4, QueueAssumption DEF Rings
    <3>2. p \in Nat /\ \A d \in ds : l1.Prio[d] \in Nat
      BY <1>1, <1>2, QueueAssumption
    <3>3. \/ temp = null /\ \A d \in ds : p <= l1.Prio[d]
          \/ /\ temp \in ds /\ p > l1.Prio[temp]
             /\ \A d \in ds : <<d, temp>> \in order => p <= l1.Prio[d]
      BY <1>1, <1>8, <2>1, <2>4, <3>1, <3>2, LoopEnds
    <3>4. ds \subseteq cs
      OBVIOUS
    <3> HIDE DEF ds
    <3>5. \A d \in ds : p <= l1.Prio[d] => <<d, c>> \in order
      <4> SUFFICES ASSUME NEW d \in ds, p <= l1.Prio[d]  PROVE <<d, c>> \in order
        OBVIOUS
      <4>1. p \in Nat /\ l1.Prio[d] \in Nat /\ d \in cs
        BY <3>2, <3>4
      <4>2. ~(p > l1.Prio[d])
        BY <4>1, SMT
      <4> QED BY <1>6, <4>1, <4>2, Zenon
    <3>6. \A d \in ds : p > l1.Prio[d] => <<c, d>> \in order
      BY <1>6, <2>4, <3>4
    <3> QED BY <3>3, <3>5, <3>6
  <2> QED BY <2>2, <2>3, <2>4
<1> HIDE DEF ds
<1>10. /\ l2 \in QueueData /\ Rings(l2, e, ds \cup {c}, order) /\ Others(l1, l2, e, ds \cup {c})
  <2>1. l2 = Enqueue(l1, e, c)
    BY DEF l1
  <2> HIDE DEF temp
  <2>2. temp = Precedes(l1, e, l1.Prio[c])
    BY DEF temp
  <2>3. Strict(ds \cup {c}, order) /\ Rings(l1, e, ds, order)
    BY <1>8
  <2> HIDE DEF e
  <2>4. PICK t : t = temp
    OBVIOUS
  <2>5. \/ t = null /\ \A d \in ds : <<d, c>> \in order
        \/ /\ t \in ds /\ <<c, t>> \in order
           /\ \A d \in ds : <<d, t>> \in order => <<d, c>> \in order
    BY <1>9, <2>4
  <2>6. t = Precedes(l1, e, l1.Prio[c])
    BY <2>2, <2>4
  <2>7. l1 \in QueueData /\ e \in Entries /\ ds \in SUBSET Calls /\ c \in Calls \ ds
    BY <1>1
  <2>8. /\ Enqueue(l1, e, c) \in QueueData
        /\ Rings(Enqueue(l1, e, c), e, ds \cup {c}, order)
        /\ Others(l1, Enqueue(l1, e, c), e, ds \cup {c})
    BY <2>3, <2>5, <2>6, <2>7, EnqueueRing
  <2> QED BY <2>1, <2>8
<1>11. ASSUME NEW f \in Entries
       PROVE  Rings(l2, f, {d \in DOMAIN Last(c) : entry[d] = f}, order)
  <2>1. CASE f = e
    <3>1. {d \in DOMAIN Last(c) : entry[d] = f} = ds \cup {c}
      BY <1>3, <2>1 DEF ds
    <3> QED BY <1>10, <2>1, <3>1
  <2>2. CASE f # e
    <3> DEFINE fs == {d \in cs : entry[d] = f}
    <3>1. {d \in DOMAIN Last(c) : entry[d] = f} = fs
      BY <1>3, <2>2
    <3>2. Rings(l1, f, fs, order)
      BY <1>7
    <3>3. \A d \in fs : l2.Next[d] = l1.Next[d] /\ l2.Prev[d] = l1.Prev[d]
      BY <1>1, <1>10, <2>2 DEF Others, ds
    <3>4. l2.Head[f] = l1.Head[f] /\ l2.Tail[f] = l1.Tail[f]
      BY <1>10, <2>2 DEF Others
    <3> HIDE DEF fs
    <3>5. Rings(l2, f, fs, order)
      BY <3>2, <3>3, <3>4, RingKept
    <3> QED BY <3>1, <3>5
  <2> QED BY <2>1, <2>2
<1>12. ASSUME NEW d \in Calls  PROVE l2.Next[d] # null <=> d \in DOMAIN Last(c)
  <2>1. CASE d \in ds \cup {c}
    <3>1. l2.Next[d] \in ds \cup {c}
      BY <1>10, <2>1 DEF Rings
    <3> QED BY <3>1, <2>1, <1>1, <1>3, QueueAssumption DEF ds
  <2>2. CASE d \notin ds \cup {c}
    BY <2>2, <1>1, <1>2, <1>3, <1>10 DEF Others, Lists
  <2> QED BY <2>1, <2>2
<1>13. order = OrderBy(l2.Prio, Last(c))
  BY <1>10 DEF order, Others
<1> QED BY <1>10, <1>11, <1>12, <1>13 DEF Lists
\* After a step: the parts of the invariant.
LEMMA Restored ==
  ASSUME IInv, UNCHANGED fixed, E' \in [Calls -> Entries], told' \subseteq Calls,
         Call' \in Links, emptying' \subseteq Entries, Arrivals(ahead'), EmptiedInTurn',
         Lists(q', E', DOMAIN ahead', OrderBy(q'.Prio, ahead'))
  PROVE  IInv'
<1>1. PolicyOrder' = OrderBy(q'.Prio, ahead')
  BY DEF PolicyOrder, OrderBy, fixed
<1>2. TypeOK'
  BY DEF IInv, TypeOK, fixed, Lists, QueueData, Arrivals
<1>3. ListedInOrder'
  BY <1>1, Zenon DEF ListedInOrder, Lists, Waiting, Onqueue
<1> QED BY <1>2, <1>3 DEF IInv

\* A waiting call that leaves its queue leaves the others as they were.
LEMMA Left ==
  ASSUME IInv, NEW c \in DOMAIN ahead, NEW l, l = Dequeue(q, E[c], c)
  PROVE  /\ Lists(l, E, DOMAIN Without(c), OrderBy(l.Prio, Without(c)))
         /\ Arrivals(Without(c)) /\ DOMAIN Without(c) = DOMAIN ahead \ {c}
         /\ \A f \in Entries \ {E[c]} : l.Head[f] = q.Head[f]
<1> DEFINE order == OrderBy(q.Prio, ahead)
           order2 == OrderBy(l.Prio, Without(c))
           cs == DOMAIN ahead \ {c}
<1>1. /\ TypeOK /\ Arrivals(ahead) /\ Lists(q, E, DOMAIN ahead, order)
  BY QueuesList
<1>2. q.Prio \in [Calls -> Prios] /\ E \in [Calls -> Entries] /\ DOMAIN ahead \in SUBSET Calls
  BY <1>1 DEF TypeOK
<1>3. Strict(DOMAIN ahead, order)
  BY <1>1, <1>2, PolicyIsStrict
<1> HIDE DEF order
<1>4. /\ Lists(l, E, cs, order) /\ l.Prio = q.Prio
      /\ \A f \in Entries \ {E[c]} : l.Head[f] = q.Head[f]
  BY <1>1, <1>2, <1>3, TakenOut
<1>5. /\ Arrivals(Without(c)) /\ DOMAIN Without(c) = cs
      /\ \A d, f \in cs : f \in Without(c)[d] <=> f \in ahead[d]
  BY <1>1, OthersStay
<1>6. \A d, f \in cs : <<d, f>> \in order2 <=> <<d, f>> \in order
  <2> SUFFICES ASSUME NEW d \in cs, NEW f \in cs
               PROVE  <<d, f>> \in order2 <=> <<d, f>> \in order
    OBVIOUS
  <2>1. <<d, f>> \in order2 <=>
          IF Priority_Queuing /\ l.Prio[d] # l.Prio[f] THEN l.Prio[d] > l.Prio[f] ELSE d \in Without(c)[f]
    BY <1>5, OrderByPair
  <2>2. <<d, f>> \in order <=>
          IF Priority_Queuing /\ q.Prio[d] # q.Prio[f] THEN q.Prio[d] > q.Prio[f] ELSE d \in ahead[f]
    BY OrderByPair DEF order
  <2> QED BY <1>4, <1>5, <2>1, <2>2
<1>7. ASSUME NEW f \in Entries  PROVE Rings(l, f, {d \in cs : E[d] = f}, order2)
  <2> DEFINE fs == {d \in cs : E[d] = f}
  <2>1. Rings(l, f, fs, order)
    BY <1>4 DEF Lists
  <2>2. \A d, g \in fs : <<d, g>> \in order2 <=> <<d, g>> \in order
    BY <1>6
  <2> HIDE DEF fs, order2
  <2>3. Rings(l, f, fs, order2)
    BY <2>1, <2>2, RingKept
  <2> QED BY <2>3 DEF fs
<1> QED BY <1>4, <1>5, <1>7 DEF Lists

\* The head of a queue is a call that waits for its entry.
LEMMA HeadWaits ==
  ASSUME IInv, NEW e \in Entries
  PROVE  /\ q.Head[e] = null <=> \A c \in DOMAIN ahead : E[c] # e
         /\ q.Head[e] # null =>
              /\ q.Head[e] \in DOMAIN ahead /\ E[q.Head[e]] = e
              /\ \A c \in DOMAIN ahead \ {q.Head[e]} :
                   E[c] = e => <<q.Head[e], c>> \in PolicyOrder
              /\ Dequeue_Head(q, e) = Dequeue(q, E[q.Head[e]], q.Head[e])
<1> DEFINE h == q.Head[e]
<1>1. Rings(q, e, Waiting(e), PolicyOrder) /\ null \notin Waiting(e)
  BY QueueAssumption DEF IInv, ListedInOrder, TypeOK, Waiting
<1>2. h = null <=> Waiting(e) = {}
  BY <1>1 DEF Rings
<1>3. h # null => h \in Waiting(e) /\ \A c \in Waiting(e) \ {h} : <<h, c>> \in PolicyOrder
  BY <1>1, <1>2 DEF Rings
<1>4. \A c : c \in Waiting(e) <=> c \in DOMAIN ahead /\ E[c] = e
  BY DEF Waiting
<1>5. h # null => Dequeue_Head(q, e) = Dequeue(q, e, h)
  BY Zenon DEF Dequeue_Head
<1> QED BY <1>2, <1>3, <1>4, <1>5

-----------------------------------------------------------------------------
(* The steps.                                                              *)

LEMMA InitIInv == Init => IInv
<1> SUFFICES ASSUME Init  PROVE IInv
  OBVIOUS
<1>1. DOMAIN ahead = {} /\ ahead \in [DOMAIN ahead -> SUBSET DOMAIN ahead]
  BY DEF Init
<1>2. /\ (CHOOSE p \in Prios : TRUE) \in Prios
      /\ (CHOOSE e \in Entries : TRUE) \in Entries
  BY QueueAssumption
<1>3. TypeOK
  <2>1. q \in [Next : [Calls -> Links], Prev : [Calls -> Links],
               Prio : [Calls -> Prios],
               Head : [Entries -> Links], Tail : [Entries -> Links]]
    BY <1>2 DEF Init, Links
  <2>2. E \in [Calls -> Entries]
    BY <1>2 DEF Init
  <2> QED BY <1>1, <2>1, <2>2 DEF Init, TypeOK, Links
<1>4. Arrivals(ahead)
  BY <1>1 DEF Arrivals
<1>5. ListedInOrder
  <2>1. \A c \in Calls : ~Onqueue(c)
    BY DEF Init, Onqueue
  <2>2. \A e \in Entries : Waiting(e) = {} /\ q.Head[e] = null /\ q.Tail[e] = null
    BY <1>1 DEF Init, Waiting
  <2> QED BY <1>1, <2>1, <2>2 DEF ListedInOrder, Rings
<1> QED BY <1>3, <1>4, <1>5 DEF Init, IInv, EmptiedInTurn

LEMMA EnqueueStep ==
  ASSUME IInv, NEW c \in Calls, NEW e \in Entries, NEW p \in Prios, Enqueue_Call(c, e, p)
  PROVE  IInv'
<1>1. TypeOK /\ Arrivals(ahead) /\ Lists(q, E, DOMAIN ahead, OrderBy(q.Prio, ahead))
  BY QueuesList
<1>2. c \notin DOMAIN ahead
  BY DEF Enqueue_Call, IInv, ListedInOrder
<1>3. DOMAIN ahead = DOMAIN ahead \ {c}
  BY <1>2
<1>4. E' \in [Calls -> Entries] /\ E'[c] = e /\ \A d \in DOMAIN ahead : E'[d] = E[d]
  BY <1>1, <1>2 DEF Enqueue_Call, TypeOK
<1>5. Lists(q, E', DOMAIN ahead, OrderBy(q.Prio, ahead))
  <2>1. \A f \in Entries : {d \in DOMAIN ahead : E'[d] = f} = {d \in DOMAIN ahead : E[d] = f}
    BY <1>4
  <2> QED BY <1>1, <2>1 DEF Lists
<1>6. q' = Enqueue([q EXCEPT !.Prio[c] = p], E'[c], c)
  BY <1>4 DEF Enqueue_Call
<1>7. Lists(q', E', DOMAIN Last(c), OrderBy(q'.Prio, Last(c)))
  BY <1>1, <1>3, <1>4, <1>5, <1>6, PutLast
<1>8. Arrivals(Last(c))
  BY <1>1, LastArrives
<1>9. /\ UNCHANGED fixed /\ told' \subseteq Calls /\ Call' \in Links /\ ahead' = Last(c)
      /\ emptying' \subseteq Entries /\ EmptiedInTurn'
  BY <1>1 DEF Enqueue_Call, TypeOK, Links, EmptiedInTurn
<1> QED BY <1>4, <1>7, <1>8, <1>9, Restored

LEMMA DequeueStep ==
  ASSUME IInv, NEW c \in Calls, Dequeue_Call(c)
  PROVE  IInv'
<1>1. c \in DOMAIN ahead
  BY DEF Dequeue_Call, IInv, ListedInOrder
<1>2. Lists(q', E, DOMAIN Without(c), OrderBy(q'.Prio, Without(c))) /\ Arrivals(Without(c))
  BY <1>1, Left DEF Dequeue_Call
<1>3. /\ UNCHANGED fixed /\ told' \subseteq Calls /\ Call' \in Links /\ ahead' = Without(c)
      /\ emptying' \subseteq Entries /\ EmptiedInTurn' /\ E' = E /\ E \in [Calls -> Entries]
  BY DEF Dequeue_Call, IInv, TypeOK, Links, EmptiedInTurn
<1> QED BY <1>2, <1>3, Restored

LEMMA RequeueStep ==
  ASSUME IInv, NEW c \in Calls, NEW p \in Prios, Requeue_Call_With_New_Prio(c, p)
  PROVE  IInv'
<1> DEFINE out == Dequeue(q, E[c], c)
           cs == DOMAIN ahead \ {c}
<1>1. TypeOK /\ Arrivals(ahead) /\ Lists(q, E, DOMAIN ahead, OrderBy(q.Prio, ahead))
  BY QueuesList
<1>2. c \in DOMAIN ahead /\ E \in [Calls -> Entries] /\ DOMAIN ahead \in SUBSET Calls
  BY <1>1 DEF Requeue_Call_With_New_Prio, IInv, ListedInOrder, TypeOK
<1>3. Strict(DOMAIN ahead, OrderBy(q.Prio, ahead))
  BY <1>1, PolicyIsStrict DEF TypeOK
<1>4. Lists(out, E, cs, OrderBy(q.Prio, ahead)) /\ out.Prio = q.Prio
  BY <1>1, <1>2, <1>3, TakenOut
<1>5. q' = Enqueue([out EXCEPT !.Prio[c] = p], E[c], c)
  BY DEF Requeue_Call_With_New_Prio
<1> HIDE DEF out
<1>6. Lists(out, E, cs, OrderBy(out.Prio, ahead))
  BY <1>4
<1>7. Lists(q', E, DOMAIN Last(c), OrderBy(q'.Prio, Last(c)))
  BY <1>1, <1>2, <1>5, <1>6, PutLast
<1>8. Arrivals(Last(c))
  BY <1>1, LastArrives
<1>9. /\ UNCHANGED fixed /\ told' \subseteq Calls /\ Call' \in Links /\ ahead' = Last(c)
      /\ emptying' \subseteq Entries /\ EmptiedInTurn' /\ E' = E
  BY <1>1 DEF Requeue_Call_With_New_Prio, TypeOK, Links, EmptiedInTurn
<1> QED BY <1>2, <1>7, <1>8, <1>9, Restored

LEMMA BroadcastStep ==
  ASSUME IInv, NEW pending \in Links, Broadcast_Program_Error(pending)
  PROVE  IInv'
<1>1. Lists(q, E, DOMAIN ahead, OrderBy(q.Prio, ahead)) /\ TypeOK /\ Arrivals(ahead)
  BY QueuesList
<1>2. /\ UNCHANGED fixed /\ told' \subseteq Calls /\ Call' \in Links /\ emptying' = Entries
      /\ E \in [Calls -> Entries] /\ q' = q /\ E' = E /\ ahead' = ahead
  BY <1>1 DEF Broadcast_Program_Error, TypeOK, Links
<1>3. EmptiedInTurn'
  BY <1>2 DEF EmptiedInTurn
<1> QED BY <1>1, <1>2, <1>3, Restored

LEMMA SendStep ==
  ASSUME IInv, NEW e \in Entries, Send_To_Head(e)
  PROVE  IInv'
<1> DEFINE c == q.Head[e]
<1>1. c \in DOMAIN ahead /\ E[c] = e /\ q' = Dequeue(q, E[c], c)
  BY HeadWaits DEF Send_To_Head
<1>2. ahead' = Without(c)
  BY DEF Send_To_Head
<1> HIDE DEF c
<1>3. /\ Lists(q', E, DOMAIN Without(c), OrderBy(q'.Prio, Without(c))) /\ Arrivals(Without(c))
      /\ \A f \in Entries \ {e} : q'.Head[f] = q.Head[f]
  BY <1>1, Left
<1>4. /\ UNCHANGED fixed /\ told' \subseteq Calls /\ Call' \in Links
      /\ emptying' \subseteq Entries /\ E' = E /\ E \in [Calls -> Entries]
  BY <1>1 DEF Send_To_Head, IInv, TypeOK, c
<1>5. EmptiedInTurn'
  BY <1>3 DEF Send_To_Head, IInv, EmptiedInTurn
<1> QED BY <1>2, <1>3, <1>4, <1>5, Restored

LEMMA NextQueueStep ==
  ASSUME IInv, NEW e \in Entries, Next_Queue(e)
  PROVE  IInv'
<1>1. Lists(q, E, DOMAIN ahead, OrderBy(q.Prio, ahead)) /\ TypeOK /\ Arrivals(ahead)
  BY QueuesList
<1>2. /\ UNCHANGED fixed /\ told' \subseteq Calls /\ Call' \in Links /\ emptying' \subseteq Entries
      /\ E \in [Calls -> Entries] /\ q' = q /\ E' = E /\ ahead' = ahead
  BY <1>1 DEF Next_Queue, TypeOK
<1>3. EmptiedInTurn'
  BY DEF Next_Queue, IInv, EmptiedInTurn
<1> QED BY <1>1, <1>2, <1>3, Restored
\* The entry chosen has the call that comes before those of every entry asked.
LEMMA ChosenIsFirst ==
  ASSUME IInv, NEW order, DOMAIN order \subseteq Nat \ {0},
         \A i \in DOMAIN order : order[i] \in Entries
  PROVE  IF \E i \in DOMAIN order : q.Head[order[i]] # null
           THEN /\ Chosen(order) \in DOMAIN order /\ Chosen(order) # 0
                /\ q.Head[order[Chosen(order)]] # null
                /\ Priority_Queuing =>
                     \A i \in DOMAIN order :
                       q.Head[order[i]] # null =>
                         q.Prio[q.Head[order[i]]] <= q.Prio[q.Head[order[Chosen(order)]]]
           ELSE Chosen(order) = 0
<1> DEFINE head(i) == q.Head[order[i]]
           waiting == {i \in DOMAIN order : q.Head[order[i]] # null}
           best == {i \in waiting :
                      Priority_Queuing =>
                        \A j \in waiting : q.Prio[q.Head[order[j]]] <= q.Prio[q.Head[order[i]]]}
<1>1. Chosen(order) = IF best = {} THEN 0 ELSE CHOOSE i \in best : \A j \in best : i <= j
  BY Zenon DEF Chosen
<1>2. CASE waiting = {}
  BY <1>1, <1>2
<1>3. CASE waiting # {}
  <2>1. best # {}
    <3>1. CASE ~Priority_Queuing
      BY <3>1, <1>3
    <3>2. CASE Priority_Queuing
      <4> DEFINE T == {head(i) : i \in waiting}
                 R == {pair \in T \X T : q.Prio[pair[1]] > q.Prio[pair[2]]}
      <4>1. \A i \in waiting : head(i) \in Calls
        BY HeadWaits DEF IInv, TypeOK
      <4>2. T \in SUBSET Calls /\ T # {}
        BY <4>1, <1>3
      <4>3. IsFiniteSet(T)
        BY <4>2, QueueAssumption, FS_Subset
      <4>4. \A c \in Calls : q.Prio[c] \in Nat
        BY QueueAssumption DEF IInv, TypeOK
      <4> HIDE DEF T
      <4>5. \A c, d \in T : <<c, d>> \in R <=> q.Prio[c] > q.Prio[d]
        OBVIOUS
      <4>6. /\ \A c \in T : <<c, c>> \notin R
            /\ \A c, d, f \in T : <<c, d>> \in R /\ <<d, f>> \in R => <<c, f>> \in R
        BY <4>2, <4>4, <4>5
      <4> HIDE DEF R
      <4>7. PICK m \in T : \A d \in T : <<d, m>> \notin R
        BY <4>2, <4>3, <4>6, Foremost
      <4>8. \A d \in T : q.Prio[d] <= q.Prio[m]
        <5> SUFFICES ASSUME NEW d \in T  PROVE q.Prio[d] <= q.Prio[m]
          OBVIOUS
        <5>1. q.Prio[d] \in Nat /\ q.Prio[m] \in Nat
          BY <4>2, <4>4
        <5>2. ~(q.Prio[d] > q.Prio[m])
          BY <4>5, <4>7, Zenon
        <5> QED BY <5>1, <5>2
      <4>9. PICK i \in waiting : m = head(i)
        BY <4>7 DEF T
      <4>10. \A j \in waiting : q.Prio[head(j)] <= q.Prio[head(i)]
        BY <4>8, <4>9 DEF T
      <4> QED BY <4>10
    <3> QED BY <3>1, <3>2
  <2>2. best \in SUBSET Nat
    OBVIOUS
  <2> HIDE DEF best
  <2>3. \E i \in best : \A j \in best : i <= j
    BY <2>1, <2>2, LeastNumber
  <2>4. Chosen(order) \in best
    BY <1>1, <2>1, <2>3
  <2> QED BY <2>4 DEF best
<1> QED BY <1>2, <1>3

\* What Serve does.
LEMMA Served ==
  ASSUME IInv, NEW order, DOMAIN order \subseteq Nat \ {0},
         \A i \in DOMAIN order : order[i] \in Entries, Serve(order)
  PROVE  LET cs == {c \in DOMAIN ahead : \E i \in DOMAIN order : E[c] = order[i]}
         IN IF cs = {}
              THEN Call' = null /\ q' = q /\ ahead' = ahead
              ELSE /\ Call' \in cs
                   /\ q' = Dequeue(q, E[Call'], Call') /\ ahead' = Without(Call')
                   /\ \A c \in cs \ {Call'} : E[c] = E[Call'] => <<Call', c>> \in PolicyOrder
                   /\ Priority_Queuing => \A c \in cs : q.Prio[c] <= q.Prio[Call']
<1> DEFINE cs == {c \in DOMAIN ahead : \E i \in DOMAIN order : E[c] = order[i]}
           n == Chosen(order)
<1>1. /\ Call' = IF n = 0 THEN null ELSE q.Head[order[n]]
      /\ q' = IF n = 0 THEN q ELSE Dequeue_Head(q, order[n])
      /\ ahead' = IF n = 0 THEN ahead ELSE Without(Call')
  BY Zenon DEF Serve
<1>2. cs # {} <=> \E i \in DOMAIN order : q.Head[order[i]] # null
  <2>1. ASSUME NEW c \in cs  PROVE \E i \in DOMAIN order : q.Head[order[i]] # null
    BY HeadWaits
  <2>2. ASSUME NEW i \in DOMAIN order, q.Head[order[i]] # null  PROVE cs # {}
    BY <2>2, HeadWaits
  <2> QED BY <2>1, <2>2
<1> HIDE DEF n
<1>3. CASE cs = {}
  <2>1. n = 0
    BY <1>2, <1>3, ChosenIsFirst DEF n
  <2> QED BY <1>1, <1>3, <2>1
<1>4. CASE cs # {}
  <2>1. /\ n \in DOMAIN order /\ n # 0 /\ q.Head[order[n]] # null
        /\ Priority_Queuing =>
             \A i \in DOMAIN order :
               q.Head[order[i]] # null => q.Prio[q.Head[order[i]]] <= q.Prio[q.Head[order[n]]]
    BY <1>2, <1>4, ChosenIsFirst DEF n
  <2>2. /\ Call' = q.Head[order[n]] /\ q' = Dequeue_Head(q, order[n]) /\ ahead' = Without(Call')
    BY <1>1, <2>1
  <2>3. /\ Call' \in DOMAIN ahead /\ E[Call'] = order[n]
        /\ \A c \in DOMAIN ahead \ {Call'} : E[c] = order[n] => <<Call', c>> \in PolicyOrder
        /\ q' = Dequeue(q, E[Call'], Call')
    BY <2>1, <2>2, HeadWaits
  <2>4. ASSUME Priority_Queuing, NEW c \in cs  PROVE q.Prio[c] <= q.Prio[Call']
    <3>1. PICK i \in DOMAIN order : E[c] = order[i]
      OBVIOUS
    <3> DEFINE h == q.Head[order[i]]
    <3>2. /\ h \in DOMAIN ahead /\ (c # h => <<h, c>> \in PolicyOrder) /\ h # null
      BY <3>1, HeadWaits
    <3>3. q.Prio[h] <= q.Prio[Call']
      BY <2>1, <2>2, <2>4, <3>2
    <3> HIDE DEF h
    <3>4. q.Prio[h] \in Nat /\ q.Prio[c] \in Nat /\ q.Prio[Call'] \in Nat
      BY <2>3, <3>2, QueueAssumption DEF IInv, TypeOK
    <3>5. c # h => q.Prio[h] = q.Prio[c] \/ q.Prio[h] > q.Prio[c]
      BY <2>4, <3>2 DEF PolicyOrder
    <3> QED BY <3>3, <3>4, <3>5
  <2> QED BY <1>4, <2>1, <2>2, <2>3, <2>4
<1> QED BY <1>3, <1>4

LEMMA ServeStep ==
  ASSUME IInv, emptying = {}, NEW order, DOMAIN order \subseteq Nat \ {0},
         \A i \in DOMAIN order : order[i] \in Entries, Serve(order)
  PROVE  IInv' /\ \A c \in DOMAIN ahead : c = Call' \/ c \in DOMAIN ahead'
<1> DEFINE cs == {c \in DOMAIN ahead : \E i \in DOMAIN order : E[c] = order[i]}
<1>1. /\ UNCHANGED fixed /\ told' \subseteq Calls /\ emptying' \subseteq Entries
      /\ EmptiedInTurn' /\ E' = E /\ E \in [Calls -> Entries] /\ DOMAIN ahead \subseteq Calls
  BY DEF Serve, IInv, TypeOK, EmptiedInTurn
<1>2. CASE cs = {}
  <2>1. Call' = null /\ q' = q /\ ahead' = ahead
    BY <1>2, Served
  <2>2. Lists(q, E, DOMAIN ahead, OrderBy(q.Prio, ahead)) /\ Arrivals(ahead)
    BY QueuesList
  <2>3. Call' \in Links
    BY <2>1 DEF Links
  <2>4. Lists(q', E', DOMAIN ahead', OrderBy(q'.Prio, ahead')) /\ Arrivals(ahead')
    BY <1>1, <2>1, <2>2
  <2> QED BY <1>1, <2>1, <2>3, <2>4, Restored
<1>3. CASE cs # {}
  <2>1. Call' \in DOMAIN ahead /\ q' = Dequeue(q, E[Call'], Call') /\ ahead' = Without(Call')
    BY <1>3, Served
  <2>2. PICK c : c = Call'
    OBVIOUS
  <2>3. /\ Lists(q', E, DOMAIN Without(c), OrderBy(q'.Prio, Without(c))) /\ Arrivals(Without(c))
        /\ DOMAIN Without(c) = DOMAIN ahead \ {c}
    BY <2>1, <2>2, Left
  <2>4. ahead' = Without(c) /\ Call' \in Links
    BY <1>1, <2>1, <2>2 DEF Links
  <2>5. Lists(q', E', DOMAIN ahead', OrderBy(q'.Prio, ahead')) /\ Arrivals(ahead')
    BY <1>1, <2>3, <2>4
  <2> QED BY <1>1, <2>2, <2>3, <2>4, <2>5, Restored
<1> QED BY <1>2, <1>3
\* What a server task or a protected object asks Serve for.
LEMMA Asked ==
  ASSUME TypeOK
  PROVE  /\ \A open \in SUBSET Entries, raising \in SUBSET Entries :
              Select_Protected_Entry_Call(open, raising) =>
                emptying = {} /\ (Broadcast_Program_Error(null) \/ Serve([e \in open |-> e]))
         /\ \A open \in SUBSET Entries :
              Select_Protected_Entry_Call(open, {}) => Serve([e \in open |-> e])
         /\ \A accept \in Accepts :
              /\ Select_Task_Entry_Call(accept) => emptying = {} /\ Serve(accept)
              /\ DOMAIN accept \subseteq Nat \ {0}
              /\ \A i \in DOMAIN accept : accept[i] \in Entries
         /\ \A open \in SUBSET Entries :
              LET order == [e \in open |-> e]
              IN /\ DOMAIN order = open /\ open \subseteq Nat \ {0}
                 /\ \A e \in DOMAIN order : order[e] = e /\ order[e] \in Entries
<1>1. \A open \in SUBSET Entries, raising \in SUBSET Entries :
        Select_Protected_Entry_Call(open, raising) =>
          emptying = {} /\ (Broadcast_Program_Error(null) \/ Serve([e \in open |-> e]))
  BY Zenon DEF Select_Protected_Entry_Call
<1>2. \A open \in SUBSET Entries :
        Select_Protected_Entry_Call(open, {}) => Serve([e \in open |-> e])
  <2> SUFFICES ASSUME NEW open \in SUBSET Entries, Select_Protected_Entry_Call(open, {})
               PROVE  Serve([e \in open |-> e])
    OBVIOUS
  <2>1. Evaluated(open) \cap {} = {}
    OBVIOUS
  <2> QED BY <2>1, Zenon DEF Select_Protected_Entry_Call
<1>3. ASSUME NEW accept \in Accepts
      PROVE  /\ Select_Task_Entry_Call(accept) => emptying = {} /\ Serve(accept)
             /\ DOMAIN accept \subseteq Nat \ {0}
             /\ \A i \in DOMAIN accept : accept[i] \in Entries
  <2>1. accept \in Seq(Entries)
    BY QueueAssumption
  <2>2. DOMAIN accept = 1 .. Len(accept) /\ Len(accept) \in Nat
    BY <2>1
  <2>3. \A i \in DOMAIN accept : accept[i] \in Entries
    BY <2>1, <2>2
  <2>4. DOMAIN accept \subseteq Nat \ {0}
    BY <2>2
  <2>5. Select_Task_Entry_Call(accept) => emptying = {} /\ Serve(accept)
    BY Zenon DEF Select_Task_Entry_Call
  <2> QED BY <2>3, <2>4, <2>5
<1>4. Entries \subseteq Nat \ {0}
  BY QueueAssumption
<1> QED BY <1>1, <1>2, <1>3, <1>4

\* Every step keeps the invariant, and who leaves a queue is selected, told, or
\* has given up.
LEMMA StepIInv ==
  ASSUME IInv, Step
  PROVE  /\ IInv'
         /\ \A c \in DOMAIN ahead :
              c \in DOMAIN ahead' \/ c = Call' \/ c \in told' \/ Dequeue_Call(c)
<1> DEFINE Kept == \A c \in DOMAIN ahead :
                     c \in DOMAIN ahead' \/ c = Call' \/ c \in told' \/ Dequeue_Call(c)
<1>t. TypeOK
  BY DEF IInv
<1>1. ASSUME NEW c \in Calls, NEW e \in Entries, NEW p \in Prios, Enqueue_Call(c, e, p)
      PROVE  IInv' /\ Kept
  <2>1. DOMAIN ahead' = DOMAIN ahead \cup {c}
    BY <1>1 DEF Enqueue_Call, Last
  <2> QED BY <1>1, <2>1, EnqueueStep
<1>2. ASSUME NEW c \in Calls, Dequeue_Call(c)  PROVE IInv' /\ Kept
  <2>1. DOMAIN ahead' = DOMAIN ahead \ {c}
    BY <1>2 DEF Dequeue_Call, Without
  <2> QED BY <1>2, <2>1, DequeueStep
<1>3. ASSUME NEW c \in Calls, NEW p \in Prios, Requeue_Call_With_New_Prio(c, p)
      PROVE  IInv' /\ Kept
  <2>1. DOMAIN ahead' = DOMAIN ahead \cup {c}
    BY <1>3 DEF Requeue_Call_With_New_Prio, Last
  <2> QED BY <1>3, <2>1, RequeueStep
<1>4. ASSUME NEW pending \in Links, Broadcast_Program_Error(pending)  PROVE IInv' /\ Kept
  <2>1. ahead' = ahead
    BY <1>4 DEF Broadcast_Program_Error
  <2> QED BY <1>4, <2>1, BroadcastStep
<1>5. ASSUME NEW e \in Entries, Send_To_Head(e)  PROVE IInv' /\ Kept
  <2>1. DOMAIN ahead' = DOMAIN ahead \ {q.Head[e]} /\ q.Head[e] \in told'
    BY <1>5 DEF Send_To_Head, Without
  <2> QED BY <1>5, <2>1, SendStep
<1>6. ASSUME NEW e \in Entries, Next_Queue(e)  PROVE IInv' /\ Kept
  <2>1. ahead' = ahead
    BY <1>6 DEF Next_Queue
  <2> QED BY <1>6, <2>1, NextQueueStep
<1>7. ASSUME NEW open \in SUBSET Entries, NEW raising \in SUBSET (Entries \ open),
             Select_Protected_Entry_Call(open, raising)
      PROVE  IInv' /\ Kept
  <2> DEFINE order == [e \in open |-> e]
  <2>1. /\ emptying = {} /\ (Broadcast_Program_Error(null) \/ Serve(order))
        /\ DOMAIN order \subseteq Nat \ {0} /\ \A i \in DOMAIN order : order[i] \in Entries
    BY <1>7, <1>t, Asked
  <2>2. null \in Links
    BY DEF Links
  <2> HIDE DEF order
  <2>3. Serve(order) => IInv' /\ Kept
    BY <2>1, ServeStep
  <2> QED BY <2>1, <2>2, <2>3, <1>4
<1>8. ASSUME NEW accept \in Accepts, Select_Task_Entry_Call(accept)  PROVE IInv' /\ Kept
  BY <1>8, <1>t, Asked, ServeStep
<1> QED BY <1>1, <1>2, <1>3, <1>4, <1>5, <1>6, <1>7, <1>8 DEF Step, Links

LEMMA Unchanged ==
  ASSUME IInv, UNCHANGED vars
  PROVE  IInv'
<1>1. Lists(q, E, DOMAIN ahead, OrderBy(q.Prio, ahead)) /\ TypeOK /\ Arrivals(ahead)
  BY QueuesList
<1>2. /\ UNCHANGED fixed /\ told' \subseteq Calls /\ Call' \in Links /\ emptying' \subseteq Entries
      /\ E \in [Calls -> Entries] /\ q' = q /\ E' = E /\ ahead' = ahead /\ emptying' = emptying
  BY <1>1 DEF vars, fixed, TypeOK
<1>3. EmptiedInTurn'
  BY <1>2 DEF IInv, EmptiedInTurn
<1> QED BY <1>1, <1>2, <1>3, Restored

LEMMA Invariance == Spec => []IInv
<1>1. IInv /\ [Step]_vars => IInv'
  BY StepIInv, Unchanged
<1> QED BY InitIInv, <1>1, PTL DEF Spec

-----------------------------------------------------------------------------
(* The theorems.                                                           *)

\* The links, ends and history of the queues have their types.
THEOREM TypeCorrect == Spec => []TypeOK
<1>1. IInv => TypeOK
  BY DEF IInv
<1> QED BY Invariance, <1>1, PTL

\* For any number of calls, entries and priorities, under FIFO_Queuing and
\* Priority_Queuing: each queue is a ring, closed in both directions, of the
\* calls that wait for its entry, in the order of the policy, and only calls on
\* a list have links.
THEOREM QueuesInOrder == Spec => []ListedInOrder
<1>1. IInv => ListedInOrder
  BY DEF IInv
<1> QED BY Invariance, <1>1, PTL

\* Select_Protected_Entry_Call and Select_Task_Entry_Call serve a call when one
\* waits on an open entry, and it is one that no other has to be served before.
THEOREM ServesInOrder == Spec => ServesTheFirst
<1> DEFINE cs(open) == {c \in DOMAIN ahead : E[c] \in open}
           Selects(open) == \/ Select_Protected_Entry_Call(open, {})
                            \/ \E accept \in Accepts :
                                 /\ {accept[i] : i \in DOMAIN accept} = open
                                 /\ Select_Task_Entry_Call(accept)
           Right(open) ==
             /\ Call' \in cs(open)
             /\ \A c \in cs(open) \ {Call'} : E[c] = E[Call'] => <<Call', c>> \in PolicyOrder
             /\ Priority_Queuing => \A c \in cs(open) : q.Prio[c] <= q.Prio[Call']
           A == \A open \in SUBSET Entries : Selects(open) /\ cs(open) # {} => Right(open)
<1>1. IInv => A
  <2> SUFFICES ASSUME IInv, NEW open \in SUBSET Entries, Selects(open), cs(open) # {}
               PROVE  Right(open)
    BY Zenon
  <2>t. TypeOK
    BY DEF IInv
  <2>1. PICK order : /\ DOMAIN order \subseteq Nat \ {0} /\ Serve(order)
                     /\ \A i \in DOMAIN order : order[i] \in Entries
                     /\ open = {order[i] : i \in DOMAIN order}
    <3>1. CASE Select_Protected_Entry_Call(open, {})
      <4> DEFINE order == [e \in open |-> e]
      <4>1. DOMAIN order = open /\ \A e \in open : order[e] = e
        OBVIOUS
      <4>2. Serve(order)
        BY <3>1, <2>t, Asked
      <4> HIDE DEF order
      <4>3. open = {order[i] : i \in DOMAIN order}
        BY <4>1
      <4>4. DOMAIN order \subseteq Nat \ {0} /\ \A i \in DOMAIN order : order[i] \in Entries
        BY <4>1, QueueAssumption
      <4> QED BY <4>2, <4>3, <4>4
    <3>2. CASE \E accept \in Accepts :
                 /\ {accept[i] : i \in DOMAIN accept} = open
                 /\ Select_Task_Entry_Call(accept)
      <4>1. PICK accept \in Accepts : /\ {accept[i] : i \in DOMAIN accept} = open
                                      /\ Select_Task_Entry_Call(accept)
        BY <3>2
      <4>2. /\ Serve(accept) /\ DOMAIN accept \subseteq Nat \ {0}
            /\ \A i \in DOMAIN accept : accept[i] \in Entries
        BY <2>t, <4>1, Asked
      <4> QED BY <4>1, <4>2
    <3> QED BY <3>1, <3>2
  <2> DEFINE of == {c \in DOMAIN ahead : \E i \in DOMAIN order : E[c] = order[i]}
  <2>2. of = cs(open)
    BY <2>1
  <2>3. of # {} =>
          /\ Call' \in of
          /\ \A c \in of \ {Call'} : E[c] = E[Call'] => <<Call', c>> \in PolicyOrder
          /\ Priority_Queuing => \A c \in of : q.Prio[c] <= q.Prio[Call']
    BY <2>1, Served
  <2> QED BY <2>2, <2>3
<1>2. ServesTheFirst <=> [][A]_vars
  BY DEF ServesTheFirst
<1> HIDE DEF A
<1> QED BY Invariance, <1>1, <1>2, PTL

\* A call that leaves a queue is selected for service, given up by its caller
\* or told of Program_Error, and after Broadcast_Program_Error nobody waits.
THEOREM NobodyForgotten == Spec => NoneForgotten
<1> DEFINE A == /\ \A c \in DOMAIN ahead :
                     \/ Onqueue(c)'
                     \/ c = Call'
                     \/ c \in told'
                     \/ Dequeue_Call(c)
                /\ emptying # {} /\ emptying' = {} => \A c \in Calls : ~Onqueue(c)'
<1>1. IInv /\ IInv' /\ [Step]_vars => [A]_vars
  <2> SUFFICES ASSUME IInv, IInv', Step  PROVE A
    OBVIOUS
  <2>1. \A c \in Calls : Onqueue(c)' <=> c \in DOMAIN ahead'
    BY DEF IInv, ListedInOrder
  <2>2. ASSUME NEW c \in DOMAIN ahead
        PROVE  Onqueue(c)' \/ c = Call' \/ c \in told' \/ Dequeue_Call(c)
    <3>1. c \in Calls
      BY DEF IInv, TypeOK
    <3> QED BY <2>1, <3>1, StepIInv
  <2>3. ASSUME emptying # {}, emptying' = {}  PROVE \A c \in Calls : ~Onqueue(c)'
    <3>1. PICK e \in Entries : Next_Queue(e)
      BY <2>3 DEF Step, Enqueue_Call, Dequeue_Call, Requeue_Call_With_New_Prio,
         Broadcast_Program_Error, Send_To_Head, Select_Protected_Entry_Call,
         Select_Task_Entry_Call
    <3>2. q' = q /\ ahead' = ahead /\ q.Head[e] = null /\ emptying = {e}
      BY <2>3, <3>1 DEF Next_Queue
    <3>3. \A f \in Entries : q.Head[f] = null
      BY <3>2 DEF IInv, EmptiedInTurn
    <3>4. \A c \in DOMAIN ahead : E[c] \in Entries
      BY DEF IInv, TypeOK
    <3>5. DOMAIN ahead = {}
      BY <3>3, <3>4, HeadWaits
    <3> QED BY <2>1, <3>2, <3>5
  <2> QED BY <2>2, <2>3
<1>2. NoneForgotten <=> [][A]_vars
  BY DEF NoneForgotten
<1> HIDE DEF A
<1> QED BY Invariance, <1>1, <1>2, PTL DEF Spec
=============================================================================
