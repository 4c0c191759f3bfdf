--------------------- MODULE ExceptionPropagation_proofs ----------------------
(***************************************************************************)
(* Theorems about ExceptionPropagation for any program, tables, exception  *)
(* objects and depth of the stack.                                         *)
(***************************************************************************)
EXTENDS ExceptionPropagation, WellFoundedInduction, FiniteSetTheorems, TLAPS

Frame == [fn : Funs, at : Int, pad : Int, rec : Nat, rax : Occurrences \cup {0}, rdx : Int]
Target == Int \X Int \X Int
Exc == [class : {"none", "GNAT", "C++", "other"}, id : Int, private : Target]
Codes == {"none", "THROW", "UNWIND", "FORCED"} \cup {o.arg : o \in UNION {Ops[f] : f \in Funs}}
Dispatch == [code : Codes, exc : Occurrences \cup {0}, pos : Int, target : Int,
             info : Target, fault : BOOLEAN]
Walking == mode \in {"dispatch", "unwind"}

Typed ==
  /\ image \in Images
  /\ mode \in {"program", "dispatch", "unwind", "exited", "terminated", "continued", "aborted"}
  /\ stack \in Seq(Frame) /\ stack # <<>>
  /\ excs \in [Occurrences -> Exc]
  /\ d \in Dispatch
  /\ mode = "program" => d = Idle
  /\ Walking => d.pos \in 0 .. Len(stack)
  /\ origin \in [Occurrences -> Seq(Frame)]

-----------------------------------------------------------------------------
(***************************************************************************)
(* The invariant. What it says of handlers needs FaultAssumption, the rest *)
(* does not. e is an object and o the stack that raised it.                *)
(***************************************************************************)
IsPad(f, p) == p # 0 /\ \E r \in Regions[f] : r.pad = p

\* Record k of the landing pad at p handles e in the frame.
Takes(e, frame, p, k) ==
  /\ p \in PadsOf(frame) /\ k \in DOMAIN Chain[frame.fn][p] /\ Chain[frame.fn][p][k] > 0
  /\ Matches(TypeTable[frame.fn][Chain[frame.fn][p][k]], e)

NoHandler(e, frame) == \A p, k : ~Takes(e, frame, p, k)

\* The first record of the landing pad at p that handles e has the filter r.
First(e, frame, p, r) ==
  \E k : /\ Takes(e, frame, p, k) /\ Chain[frame.fn][p][k] = r
         /\ \A l \in 1 .. k - 1 : ~Takes(e, frame, p, l)

\* No frame above i has a handler.
NoneAbove(e, o, i) == FaultAssumption => \A j \in DOMAIN o : j > i => NoHandler(e, o[j])

\* What landing with filter r at pad p of a frame says of the frame.
Lands(e, frame, p, r) ==
  /\ IsPad(frame.fn, p) /\ r \in Nat
  /\ FaultAssumption => /\ p \in PadsOf(frame)
                        /\ r = 0 => NoHandler(e, frame)
                        /\ r # 0 => First(e, frame, p, r)

Chosen(e, o, i, p, r) == i \in DOMAIN o /\ Lands(e, o[i], p, r) /\ NoneAbove(e, o, i)

\* Where phase 1 found a handler, or that it found none.
Aim(e, o, info) ==
  \/ info[1] = 0 /\ NoneAbove(e, o, 0)
  \/ info[1] > 0 /\ info[3] # 0 /\ Chosen(e, o, info[1], info[2], info[3])

\* Under frame i stack s is as o was.
Below(o, s, i) ==
  /\ i \in DOMAIN o /\ s[i].fn = o[i].fn
  /\ \A j \in 1 .. i - 1 : s[j] = o[j]

\* The records up to rec are cleanups, or rec is the handler's.
Progress(frame) ==
  LET chain == Chain[frame.fn][frame.pad]
  IN  /\ frame.rec \in 0 .. Len(chain)
      /\ frame.rec # 0 => chain[frame.rec] \in {0, frame.rdx}
      /\ frame.rdx # 0 => \A k \in 1 .. frame.rec : chain[k] = frame.rdx => k = frame.rec

\* A frame s[i] that has landed with e.
Landed(e, o, s, i) ==
  /\ Below(o, s, i) /\ Chosen(e, o, i, s[i].pad, s[i].rdx)
  /\ Aim(e, o, e.private) /\ e.private[1] <= i
  /\ Progress(s[i])

FrameInv(i) ==
  stack[i].rax # 0 /\ stack[i].rax # d.exc
    => Landed(excs[stack[i].rax], origin[stack[i].rax], stack, i)

\* An object is in use while a frame or the dispatch has it, and one has it only.
Held(x) == x \in Occurrences /\ excs[x].class # "none"

Owned ==
  /\ \A i \in DOMAIN stack : stack[i].rax # 0 => Held(stack[i].rax)
  /\ \A i \in DOMAIN stack : stack[i].pad # 0 => stack[i].rax # 0
  /\ \A i, j \in DOMAIN stack : i < j /\ stack[i].rax # 0 => stack[i].rax # stack[j].rax
  /\ Walking /\ d.exc # 0 =>
       Held(d.exc) /\ \A i \in 1 .. Len(stack) - 1 : stack[i].rax # d.exc

\* A frame that has called from a landing pad has done so in one of its records.
Suspended == \A i \in 1 .. Len(stack) - 1 : stack[i].pad # 0 => stack[i].rec # 0

OutOfRegions(frame) == \A r \in Regions[frame.fn] : frame.at \notin r.first .. r.last

FaultSafe(frame) ==
  \A r \in Regions[frame.fn] : frame.at \in r.first .. r.last <=> frame.at - 1 \in r.first .. r.last

\* The search for a handler of e, raised by o.
Search(e, o) ==
  /\ stack = o
  /\ \/ d.code = "FORCED" /\ e.private[1] = 0 /\ NoneAbove(e, o, 0)
     \/ d.code = "THROW" /\ NoneAbove(e, o, d.pos)

\* The unwinding to the frame where e goes.
Unwinding(e, o) ==
  /\ d.code = "THROW" /\ Aim(e, o, e.private)
  /\ d.info = e.private /\ d.target = d.info[1] /\ d.target <= d.pos
  /\ Top = o[Len(stack)] \/ OutOfRegions(Top)

\* The colliding exception and the unwinding to where it was aimed.
Colliding(e, o) ==
  /\ d.code = "UNWIND" /\ current = d.exc
  /\ Aim(e, o, e.private) /\ e.private[1] <= d.info[1] /\ d.info[1] \in 1 .. d.pos
  /\ Chosen(e, o, d.info[1], d.info[2], d.info[3])
  /\ mode = "unwind" => d.target = d.info[1]

Flight(e, o) ==
  /\ Below(o, stack, Len(stack))
  /\ \/ mode = "dispatch" /\ Search(e, o)
     \/ mode = "unwind" /\ Unwinding(e, o)
     \/ Colliding(e, o)

\* A fault that is no exception yet.
Untranslated ==
  /\ mode = "dispatch" /\ ~GCC(d.code) /\ d.fault /\ Free # {}
  /\ \/ map_SEH(d.code) = 0
     \/ \A j \in DOMAIN stack : j > d.pos => stack[j].fn \notin DOMAIN image

DispatchInv ==
  Walking =>
    /\ IF d.exc # 0 THEN Flight(excs[d.exc], origin[d.exc]) ELSE Untranslated
    /\ d.fault /\ FaultAssumption => FaultSafe(Top)

\* The thread has left its first frame, with no handler under way.
Exited == \A i \in DOMAIN stack : stack[i].pad # 0 => ~InUse(stack[i].rax)

\* The pad of a frame on the way finds the object that phase 2 wrote for it.
CleanupPads ==
  \A i \in DOMAIN stack : AtPad(i) /\ stack[i].rdx = 0 => current = stack[i].rax

IInv ==
  /\ Typed
  /\ mode = "exited" => Exited
  /\ mode # "exited" => Owned /\ \A i \in DOMAIN stack : FrameInv(i)
  /\ Suspended /\ DispatchInv /\ CleanupPads

-----------------------------------------------------------------------------
(***************************************************************************)
(* The personality routine.                                                *)
(***************************************************************************)
LEMMA LeastOf ==
  ASSUME NEW S, S \subseteq Nat, S # {}
  PROVE  \E k \in S : \A j \in S : k <= j
<1>1. PICK k \in S : \A j \in S : ~(<<j, k>> \in OpToRel(<, Nat))
  BY NatLessThanWellFounded, WFMin
<1>2. \A j \in S : ~(j < k)
  BY <1>1 DEF OpToRel
<1> QED BY <1>2

\* The choices a handler names are those the personality routine stops at.
LEMMA Handled ==
  ASSUME NEW choice, NEW e
  PROVE  /\ is_handled_by(choice, e) \in {"handler", "unhandler", "nothing"}
         /\ is_handled_by(choice, e) # "nothing" <=> Matches(choice, e)
BY DEF is_handled_by, Matches, ALL_OTHERS, OTHERS, UNHANDLED_OTHERS, FOREIGN

\* The region of an address is the call site found for it.
LEMMA SiteFound ==
  ASSUME NEW tables \in Images, NEW f \in Funs, f \in DOMAIN tables, NEW ip \in Int
  PROVE  LET site == get_call_site_action_for(ip, tables[f].sites)
         IN  \/ \E r \in Regions[f] : ip \in r.first .. r.last /\ Encodes(site, f, r)
             \/ site = NoSite /\ \A r \in Regions[f] : ip \notin r.first .. r.last
<1> DEFINE sites == tables[f].sites
           left == {i \in DOMAIN sites : ip < sites[i].end}
           i == CHOOSE k \in left : \A j \in left : k <= j
<1>1. /\ DOMAIN sites = 1 .. Len(sites)
      /\ \A k, j \in DOMAIN sites : k < j => sites[k].end <= sites[j].start
      /\ \A k \in DOMAIN sites : \E r \in Regions[f] : Encodes(sites[k], f, r)
      /\ \A r \in Regions[f] : \E k \in DOMAIN sites : Encodes(sites[k], f, r)
  BY LayoutAssumption
<1>2. \A r \in Regions[f] : r.first \in Int /\ r.last \in Int
  BY RegionsAssumption
<1>3. \A k \in DOMAIN sites : sites[k].start \in Int /\ sites[k].end \in Int
  BY <1>1, <1>2 DEF Encodes
<1>4. get_call_site_action_for(ip, sites) = IF left = {} \/ ip < sites[i].start THEN NoSite ELSE sites[i]
  BY DEF get_call_site_action_for
<1>5. CASE left = {}
  <2>1. ASSUME NEW r \in Regions[f], ip \in r.first .. r.last  PROVE FALSE
    <3>1. PICK k \in DOMAIN sites : Encodes(sites[k], f, r)
      BY <1>1
    <3>2. k \in left
      BY <3>1, <2>1, <1>2 DEF Encodes
    <3> QED BY <3>2, <1>5
  <2> QED BY <1>4, <1>5, <2>1
<1>6. CASE left # {}
  <2>1. i \in left /\ \A j \in left : i <= j
    <3>1. left \subseteq Nat
      BY <1>1
    <3>2. \E k \in left : \A j \in left : k <= j
      BY <3>1, <1>6, LeastOf
    <3> QED BY <3>2
  <2> HIDE DEF i
  <2>2. ASSUME NEW r \in Regions[f], ip \in r.first .. r.last  PROVE Encodes(sites[i], f, r) /\ ip >= sites[i].start
    <3>1. PICK k \in DOMAIN sites : Encodes(sites[k], f, r)
      BY <1>1
    <3>2. k \in left /\ ip >= sites[k].start
      BY <3>1, <2>2, <1>2 DEF Encodes
    <3>3. i \in DOMAIN sites /\ ip < sites[i].end /\ i <= k
      BY <3>2, <2>1
    <3>4. i < k => sites[i].end <= sites[k].start
      BY <3>3, <1>1
    <3>5. ~(i < k)
      BY <3>2, <3>3, <3>4, <1>3
    <3>6. i \in Int /\ k \in Int
      BY <3>3, <1>1
    <3>7. i = k
      BY <3>3, <3>5, <3>6
    <3> QED BY <3>1, <3>2, <3>7
  <2>3. PICK r \in Regions[f] : Encodes(sites[i], f, r)
    BY <2>1, <1>1
  <2>4. CASE ip < sites[i].start
    BY <1>4, <2>4, <2>2, <2>1, <1>3
  <2>5. CASE ~(ip < sites[i].start)
    <3>1. ip \in r.first .. r.last
      BY <2>5, <2>3, <2>1, <1>2, <1>3 DEF Encodes
    <3>2. get_call_site_action_for(ip, sites) = sites[i]
      BY <1>4, <1>6, <2>5
    <3> QED BY <2>3, <3>1, <3>2
  <2> QED BY <2>4, <2>5
<1> QED BY <1>5, <1>6

\* An address has one landing pad.
LEMMA OnePad ==
  ASSUME NEW tables \in Images, NEW f \in Funs, f \in DOMAIN tables, NEW ip \in Int,
         NEW r \in Regions[f], NEW s \in Regions[f],
         ip \in r.first .. r.last, ip \in s.first .. s.last
  PROVE  r.pad = s.pad
<1> DEFINE sites == tables[f].sites
<1>1. /\ DOMAIN sites = 1 .. Len(sites)
      /\ \A k, j \in DOMAIN sites : k < j => sites[k].end <= sites[j].start
      /\ \A q \in Regions[f] : \E k \in DOMAIN sites : Encodes(sites[k], f, q)
  BY LayoutAssumption
<1>2. r.first \in Int /\ r.last \in Int /\ s.first \in Int /\ s.last \in Int
  BY RegionsAssumption
<1>3. PICK k \in DOMAIN sites : Encodes(sites[k], f, r)
  BY <1>1
<1>4. PICK j \in DOMAIN sites : Encodes(sites[j], f, s)
  BY <1>1
<1>5. j = k
  <2>1. ~(j < k)
    <3> SUFFICES ASSUME j < k  PROVE FALSE
      OBVIOUS
    <3>1. sites[j].end <= sites[k].start
      BY <1>1
    <3> QED BY <3>1, <1>2, <1>3, <1>4 DEF Encodes
  <2>2. ~(k < j)
    <3> SUFFICES ASSUME k < j  PROVE FALSE
      OBVIOUS
    <3>1. sites[k].end <= sites[j].start
      BY <1>1
    <3> QED BY <3>1, <1>2, <1>3, <1>4 DEF Encodes
  <2>3. j \in Int /\ k \in Int
    BY <1>1
  <2> QED BY <2>1, <2>2, <2>3
<1> QED BY <1>3, <1>4, <1>5 DEF Encodes

\* A cleanup record of the landing pad at p.
Cleans(frame, p, k) ==
  p \in PadsOf(frame) /\ k \in DOMAIN Chain[frame.fn][p] /\ Chain[frame.fn][p][k] = 0

\* What the personality routine is to find in a frame.
Finds(a, e, frame, force) ==
  /\ a.kind \in {"nothing", "cleanup", "handler", "unhandler"}
  /\ a.landing_pad \in Int /\ a.ttype_filter \in Nat
  /\ a.kind = "nothing" =>
       /\ ~force => NoHandler(e, frame)
       /\ \A p, k : ~Cleans(frame, p, k)
  /\ a.kind = "cleanup" =>
       /\ a.landing_pad \in PadsOf(frame) /\ a.ttype_filter = 0
       /\ ~force => NoHandler(e, frame)
  /\ a.kind \in {"handler", "unhandler"} =>
       /\ ~force /\ a.landing_pad \in PadsOf(frame) /\ a.ttype_filter > 0
       /\ First(e, frame, a.landing_pad, a.ttype_filter)

\* The chain of a landing pad, and the filters the tables give for it.
Reads(filters, chain, choices, e, force) ==
  /\ force => Handling(filters, choices, e, force) = {}
  /\ ~force => Handling(filters, choices, e, force) =
                 {k \in DOMAIN chain : chain[k] > 0 /\ Matches(choices[chain[k]], e)}
  /\ CleanupIn(filters) <=> \E k \in DOMAIN chain : chain[k] = 0
  /\ \A k \in Handling(filters, choices, e, force) : k \in Nat /\ filters[k] = chain[k]

LEMMA ChainOf ==
  ASSUME NEW f \in Funs, NEW r \in Regions[f], r.pad # 0, NEW site, Encodes(site, f, r),
         NEW e, NEW force \in BOOLEAN
  PROVE  /\ Chain[f][r.pad] \in Seq(Nat) /\ Len(Chain[f][r.pad]) > 0
         /\ Reads(site.filters, Chain[f][r.pad], TypeTable[f], e, force)
<1> DEFINE chain == Chain[f][r.pad]
<1>1. chain \in Seq(Nat) /\ Len(chain) > 0
  BY RegionsAssumption
<1>2. CASE site.filters = chain
  <2>1. chain # <<>>
    BY <1>1
  <2> QED BY <1>1, <1>2, <2>1, Handled DEF Handling, CleanupIn, Reads
<1>3. CASE site.filters = <<>> /\ chain = <<0>>
  BY <1>1, <1>3 DEF Handling, CleanupIn, Reads
<1> QED BY <1>2, <1>3 DEF Encodes

LEMMA Personality ==
  ASSUME NEW tables \in Images, NEW frame \in Frame, frame.fn \in DOMAIN tables, NEW ip \in Int,
         \A r \in Regions[frame.fn] : ip \in r.first .. r.last <=> frame.at \in r.first .. r.last,
         NEW e, NEW force \in BOOLEAN
  PROVE  Finds(get_action_description_for(ip, e, force, tables[frame.fn]), e, frame, force)
<1> DEFINE f == frame.fn
           site == get_call_site_action_for(ip, tables[f].sites)
           a == ActionAt(site, TypeTable[f], e, force)
<1>1. f \in Funs
  BY DEF Frame
<1>2. get_action_description_for(ip, e, force, tables[f]) = a
  BY <1>1, LayoutAssumption DEF get_action_description_for
<1> SUFFICES Finds(a, e, frame, force)
  BY <1>2
<1>3. ASSUME a = Nothing, PadsOf(frame) = {}
      PROVE  Finds(a, e, frame, force)
  BY <1>3 DEF Finds, Nothing, NoHandler, Takes, Cleans
<1> HIDE DEF site, a
<1>4. CASE site = NoSite /\ \A r \in Regions[f] : ip \notin r.first .. r.last
  <2>1. a = Nothing
    BY <1>4 DEF a, ActionAt, NoSite
  <2>2. PadsOf(frame) = {}
    BY <1>4 DEF PadsOf
  <2> QED BY <1>3, <2>1, <2>2
<1>5. ASSUME NEW r \in Regions[f], ip \in r.first .. r.last, Encodes(site, f, r)
      PROVE  Finds(a, e, frame, force)
  <2>1. PadsOf(frame) = {r.pad} \ {0}
    <3>1. \A s \in Regions[f] : ip \in s.first .. s.last => s.pad = r.pad
      BY <1>1, <1>5, OnePad
    <3> QED BY <3>1, <1>5 DEF PadsOf
  <2>2. CASE r.pad = 0
    BY <1>3, <1>5, <2>1, <2>2 DEF a, ActionAt, Encodes
  <2>3. CASE r.pad # 0
    <3> DEFINE chain == Chain[f][r.pad]
               found == Handling(site.filters, TypeTable[f], e, force)
               i == CHOOSE k \in found : \A j \in found : k <= j
    <3>0. chain \in Seq(Nat) /\ Len(chain) > 0 /\ Reads(site.filters, chain, TypeTable[f], e, force)
      BY <1>1, <1>5, <2>3, ChainOf
    <3>1. /\ force => found = {}
          /\ ~force => found = {k \in DOMAIN chain : chain[k] > 0 /\ Matches(TypeTable[f][chain[k]], e)}
          /\ CleanupIn(site.filters) <=> \E k \in DOMAIN chain : chain[k] = 0
          /\ \A k \in found : k \in Nat /\ site.filters[k] = chain[k]
      BY <3>0 DEF Reads
    <3> HIDE DEF found
    <3>2. site.landing_pad = r.pad /\ r.pad \in Int
      BY <1>1, <1>5, RegionsAssumption DEF Encodes
    <3>3. \A p, k : Takes(e, frame, p, k) <=>
            p = r.pad /\ k \in DOMAIN chain /\ chain[k] > 0 /\ Matches(TypeTable[f][chain[k]], e)
      BY <2>1, <2>3 DEF Takes
    <3>4. \A p, k : Cleans(frame, p, k) <=> p = r.pad /\ k \in DOMAIN chain /\ chain[k] = 0
      BY <2>1, <2>3 DEF Cleans
    <3>5. r.pad \in PadsOf(frame)
      BY <2>1, <2>3
    <3>6. CASE found = {}
      <4>1. a = [kind |-> IF CleanupIn(site.filters) THEN "cleanup" ELSE "nothing",
                 landing_pad |-> r.pad, ttype_filter |-> 0]
        BY <2>3, <3>2, <3>6 DEF a, found, ActionAt
      <4>2. ~force => NoHandler(e, frame)
        BY <3>1, <3>3, <3>6 DEF NoHandler
      <4> QED BY <3>1, <3>2, <3>4, <3>5, <4>1, <4>2 DEF Finds
    <3>7. CASE found # {}
      <4>1. i \in found /\ \A j \in found : i <= j
        <5>1. found \subseteq Nat
          BY <3>1
        <5>2. \E k \in found : \A j \in found : k <= j
          BY <5>1, <3>7, LeastOf
        <5> QED BY <5>2
      <4>2. a = [kind |-> is_handled_by(TypeTable[f][site.filters[i]], e),
                 landing_pad |-> r.pad, ttype_filter |-> site.filters[i]]
        BY <2>3, <3>2, <3>7 DEF a, found, ActionAt
      <4> HIDE DEF i
      <4>3. /\ ~force /\ i \in DOMAIN chain /\ chain[i] > 0 /\ Matches(TypeTable[f][chain[i]], e)
            /\ site.filters[i] = chain[i] /\ chain[i] \in Nat
        BY <3>0, <3>1, <4>1
      <4>4. a.kind \in {"handler", "unhandler"}
        BY <4>2, <4>3, Handled
      <4>5. \A l \in 1 .. i - 1 : ~Takes(e, frame, r.pad, l)
        <5>1. \A l : Takes(e, frame, r.pad, l) => l \in found
          BY <3>1, <3>3, <4>3
        <5>2. i \in Nat
          BY <3>1, <4>1
        <5> QED BY <4>1, <5>1, <5>2
      <4>6. Takes(e, frame, r.pad, i)
        BY <3>3, <4>3
      <4>7. a.landing_pad = r.pad /\ a.ttype_filter = chain[i]
        BY <4>2, <4>3
      <4>8. First(e, frame, r.pad, chain[i])
        BY <4>5, <4>6 DEF First
      <4> QED BY <3>2, <3>5, <4>3, <4>4, <4>7, <4>8 DEF Finds
    <3> QED BY <3>6, <3>7
  <2> QED BY <2>2, <2>3
<1>6. \/ \E r \in Regions[f] : ip \in r.first .. r.last /\ Encodes(site, f, r)
      \/ site = NoSite /\ \A r \in Regions[f] : ip \notin r.first .. r.last
  BY <1>1, SiteFound DEF site
<1> QED BY <1>4, <1>5, <1>6

-----------------------------------------------------------------------------
(***************************************************************************)
(* The steps the actions are built from.                                   *)
(***************************************************************************)
LEMMA Constants ==
  /\ 0 \notin Occurrences
  /\ <<0, 0, 0>> \in Target /\ NoExc \in Exc /\ Idle \in Dispatch
  /\ Idle.exc = 0
<1>1. 0 \notin Occurrences
  BY OccurrencesAssumption
<1>2. <<0, 0, 0>> \in Target
  BY DEF Target
<1>3. NoExc \in Exc
  BY <1>2 DEF NoExc, Exc
<1>4. Idle \in Dispatch /\ Idle.exc = 0
  BY <1>2 DEF Idle, Dispatch, Codes
<1> QED BY <1>1, <1>2, <1>3, <1>4

LEMMA TopFrame ==
  ASSUME Typed
  PROVE  /\ Len(stack) \in Nat \ {0} /\ DOMAIN stack = 1 .. Len(stack) /\ Top \in Frame
         /\ \A i \in DOMAIN stack : stack[i] \in Frame
BY DEF Typed, Top

\* The instruction the top frame is at.
LEMMA AtLemma ==
  ASSUME Typed, NEW a \in Int
  PROVE  /\ At(a) \in Seq(Frame) /\ Len(At(a)) = Len(stack) /\ DOMAIN At(a) = 1 .. Len(stack)
         /\ \A i \in 1 .. Len(stack) : i # Len(stack) => At(a)[i] = stack[i]
         /\ At(a)[Len(stack)] = [Top EXCEPT !.at = a]
         /\ At(a)[Len(stack)].fn = Top.fn /\ At(a)[Len(stack)].at = a
         /\ At(a)[Len(stack)].pad = Top.pad /\ At(a)[Len(stack)].rec = Top.rec
         /\ At(a)[Len(stack)].rax = Top.rax /\ At(a)[Len(stack)].rdx = Top.rdx
<1>1. /\ Len(stack) \in Nat \ {0} /\ DOMAIN stack = 1 .. Len(stack) /\ Top \in Frame
      /\ stack \in Seq(Frame)
  BY TopFrame DEF Typed
<1>2. [Top EXCEPT !.at = a] \in Frame
  BY <1>1 DEF Frame
<1>3. At(a) = [stack EXCEPT ![Len(stack)] = [Top EXCEPT !.at = a]]
  BY DEF At, Top
<1> DEFINE g == [Top EXCEPT !.at = a]
<1>4. /\ g.fn = Top.fn /\ g.at = a /\ g.pad = Top.pad /\ g.rec = Top.rec
      /\ g.rax = Top.rax /\ g.rdx = Top.rdx
  BY <1>1 DEF Frame
<1> HIDE DEF g
<1>5. /\ At(a) \in Seq(Frame) /\ Len(At(a)) = Len(stack) /\ DOMAIN At(a) = 1 .. Len(stack)
      /\ \A i \in 1 .. Len(stack) : i # Len(stack) => At(a)[i] = stack[i]
      /\ At(a)[Len(stack)] = g
  BY <1>1, <1>2, <1>3 DEF g
<1> QED BY <1>4, <1>5 DEF g

\* A frame that the step does not touch.
LEMMA Kept ==
  ASSUME NEW i, FrameInv(i),
         stack'[i].fn = stack[i].fn, stack'[i].pad = stack[i].pad, stack'[i].rec = stack[i].rec,
         stack'[i].rax = stack[i].rax, stack'[i].rdx = stack[i].rdx,
         \A j \in 1 .. i - 1 : stack'[j] = stack[j],
         stack[i].rax \notin {0, d'.exc} =>
           /\ stack[i].rax # d.exc
           /\ excs'[stack[i].rax] = excs[stack[i].rax] /\ origin'[stack[i].rax] = origin[stack[i].rax]
  PROVE  FrameInv(i)'
<1> SUFFICES ASSUME stack[i].rax \notin {0, d'.exc}
             PROVE  Landed(excs[stack[i].rax], origin[stack[i].rax], stack', i)
  BY DEF FrameInv
<1>1. Landed(excs[stack[i].rax], origin[stack[i].rax], stack, i)
  BY DEF FrameInv
<1> QED BY <1>1 DEF Landed, Below, Progress

\* An exception object that only the cache of phase 1 tells from another.
LEMMA SameObject ==
  ASSUME NEW e, NEW g, e.class = g.class, e.id = g.id
  PROVE  /\ \A frame : NoHandler(e, frame) <=> NoHandler(g, frame)
         /\ \A o, i : NoneAbove(e, o, i) <=> NoneAbove(g, o, i)
         /\ \A frame, p, r : Lands(e, frame, p, r) <=> Lands(g, frame, p, r)
         /\ \A frame, p, k : Takes(e, frame, p, k) <=> Takes(g, frame, p, k)
<1>1. \A frame, p, k : Takes(e, frame, p, k) <=> Takes(g, frame, p, k)
  BY DEF Takes, Matches
<1>2. \A frame : NoHandler(e, frame) <=> NoHandler(g, frame)
  BY <1>1 DEF NoHandler
<1>3. \A frame, p, r : First(e, frame, p, r) <=> First(g, frame, p, r)
  BY <1>1 DEF First
<1>4. \A o, i : NoneAbove(e, o, i) <=> NoneAbove(g, o, i)
  BY <1>2 DEF NoneAbove
<1>5. \A frame, p, r : Lands(e, frame, p, r) <=> Lands(g, frame, p, r)
  BY <1>2, <1>3 DEF Lands
<1> QED BY <1>1, <1>2, <1>4, <1>5

-----------------------------------------------------------------------------
(***************************************************************************)
(* The program.                                                            *)
(***************************************************************************)
LEMMA ReachableOp ==
  ASSUME Typed, NEW op, NEW o \in Reachable(op)
  PROVE  /\ o \in Ops[Top.fn] /\ Top.fn \in Funs /\ o.op = op /\ o.at \in Int
         /\ Top.pad # 0 => Top.rec # 0
<1>1. Top.fn \in Funs
  BY TopFrame DEF Frame
<1> QED BY <1>1, ProgramAssumption DEF Reachable

LEMMA CallInv == IInv /\ Call => IInv'
<1> SUFFICES ASSUME IInv, Call  PROVE IInv'
  OBVIOUS
<1>0. Typed /\ mode = "program" /\ mode' = "program" /\ d = Idle /\ d' = Idle
  BY DEF IInv, Typed, Call
<1>1. PICK o \in Reachable("call") : stack' = Append(At(o.at), NewFrame(o.arg))
  BY DEF Call
<1>2. o.at \in Int /\ o.arg \in Funs /\ (Top.pad # 0 => Top.rec # 0)
  BY <1>0, <1>1, ReachableOp, ProgramAssumption
<1>3. NewFrame(o.arg) \in Frame
  BY <1>2, ProgramAssumption DEF NewFrame, Frame
<1>4. /\ At(o.at) \in Seq(Frame) /\ Len(At(o.at)) = Len(stack) /\ Len(stack) \in Nat \ {0}
      /\ DOMAIN stack = 1 .. Len(stack)
  BY <1>0, <1>2, AtLemma, TopFrame
<1>5. /\ stack' \in Seq(Frame) /\ Len(stack') = Len(stack) + 1 /\ DOMAIN stack' = 1 .. Len(stack) + 1
      /\ \A i \in 1 .. Len(stack) : stack'[i] = At(o.at)[i]
      /\ stack'[Len(stack) + 1] = NewFrame(o.arg)
  BY <1>1, <1>3, <1>4
<1>6. \A i \in 1 .. Len(stack) :
        /\ stack'[i].fn = stack[i].fn /\ stack'[i].pad = stack[i].pad /\ stack'[i].rec = stack[i].rec
        /\ stack'[i].rax = stack[i].rax /\ stack'[i].rdx = stack[i].rdx
        /\ i # Len(stack) => stack'[i] = stack[i]
  <2>1. \A i \in 1 .. Len(stack) : i # Len(stack) => At(o.at)[i] = stack[i]
    BY <1>0, <1>2, AtLemma
  <2>2. /\ At(o.at)[Len(stack)].fn = Top.fn /\ At(o.at)[Len(stack)].pad = Top.pad
        /\ At(o.at)[Len(stack)].rec = Top.rec /\ At(o.at)[Len(stack)].rax = Top.rax
        /\ At(o.at)[Len(stack)].rdx = Top.rdx
    BY <1>0, <1>2, AtLemma
  <2> QED BY <1>4, <1>5, <2>1, <2>2 DEF Top
<1>7. NewFrame(o.arg).pad = 0 /\ NewFrame(o.arg).rax = 0
  BY DEF NewFrame
<1>8. image' = image /\ excs' = excs /\ origin' = origin /\ current' = current
  BY DEF Call
<1>9. Typed'
  BY <1>0, <1>5, <1>8 DEF IInv, Typed, Walking
<1>10. Owned'
  BY <1>0, <1>4, <1>5, <1>6, <1>7, <1>8 DEF IInv, Owned, Held, Walking
<1>11. ASSUME NEW i \in DOMAIN stack'  PROVE FrameInv(i)'
  <2>1. CASE i \in 1 .. Len(stack)
    <3>1. FrameInv(i)
      BY <1>0, <1>4, <2>1 DEF IInv
    <3>2. \A j \in 1 .. i - 1 : stack'[j] = stack[j]
      BY <1>4, <1>6, <2>1
    <3> QED BY <3>1, <3>2, <1>0, <1>6, <1>8, <2>1, Kept
  <2>2. CASE i = Len(stack) + 1
    BY <2>2, <1>5, <1>7 DEF FrameInv
  <2> QED BY <2>1, <2>2, <1>4, <1>5
<1>12. Suspended'
  BY <1>2, <1>4, <1>5, <1>6 DEF IInv, Suspended, Top
<1>13. DispatchInv' /\ CleanupPads'
  BY <1>0, <1>4, <1>5, <1>7 DEF DispatchInv, Walking, CleanupPads, AtPad
<1> QED BY <1>0, <1>9, <1>10, <1>11, <1>12, <1>13 DEF IInv

\* The top frame is left, its object may be freed.
LEMMA LeaveInv ==
  ASSUME IInv, mode = "program", Leave,
         UNCHANGED <<image, current, d, origin>>, excs' \in [Occurrences -> Exc],
         \A x \in Occurrences : x # Top.rax => excs'[x] = excs[x],
         Top.pad # 0 => excs'[Top.rax] = NoExc,
         Top.pad = 0 => excs' = excs
  PROVE  IInv'
<1>0. Typed /\ d = Idle /\ d.exc = 0
  BY Constants DEF IInv, Typed
<1>1. /\ Len(stack) \in Nat \ {0} /\ DOMAIN stack = 1 .. Len(stack) /\ stack \in Seq(Frame)
  BY <1>0, TopFrame DEF Typed
<1>2. CASE Len(stack) = 1 /\ mode' = "exited" /\ stack' = stack
  <2>1. Typed'
    BY <1>0, <1>2 DEF Typed, Walking
  <2>2. Exited'
    BY <1>1, <1>2 DEF Exited, InUse, Top
  <2>3. Suspended' /\ DispatchInv' /\ CleanupPads'
    BY <1>2 DEF IInv, Suspended, DispatchInv, Walking, CleanupPads, AtPad
  <2> QED BY <1>2, <2>1, <2>2, <2>3 DEF IInv
<1>3. CASE Len(stack) > 1 /\ mode' = mode /\ stack' = SubSeq(stack, 1, Len(stack) - 1)
  <2>1. /\ stack' \in Seq(Frame) /\ Len(stack') = Len(stack) - 1
        /\ DOMAIN stack' = 1 .. Len(stack) - 1 /\ Len(stack) - 1 \in Nat \ {0}
        /\ \A i \in 1 .. Len(stack) - 1 : stack'[i] = stack[i]
    BY <1>1, <1>3
  <2>2. Typed'
    BY <1>0, <1>3, <2>1 DEF Typed, Walking
  <2>3. \A i \in 1 .. Len(stack) - 1 : stack[i].rax # 0 =>
          stack[i].rax \in Occurrences /\ excs'[stack[i].rax] = excs[stack[i].rax]
    BY <1>1 DEF IInv, Owned, Held, Top
  <2>4. Owned'
    BY <1>0, <1>1, <1>3, <2>1, <2>3 DEF IInv, Owned, Held, Walking
  <2>5. ASSUME NEW i \in DOMAIN stack'  PROVE FrameInv(i)'
    <3>1. FrameInv(i)
      BY <1>1, <2>1 DEF IInv
    <3>2. stack'[i] = stack[i] /\ \A j \in 1 .. i - 1 : stack'[j] = stack[j]
      BY <1>1, <2>1
    <3> QED BY <3>1, <3>2, <2>1, <2>3, <1>0, Kept
  <2>6. Suspended'
    BY <1>1, <2>1 DEF IInv, Suspended
  <2>7. DispatchInv'
    BY <1>3 DEF DispatchInv, Walking
  <2>8. CleanupPads'
    BY <1>1, <2>1 DEF IInv, Suspended, CleanupPads, AtPad
  <2> QED BY <1>3, <2>2, <2>4, <2>5, <2>6, <2>7, <2>8 DEF IInv
<1> QED BY <1>1, <1>2, <1>3 DEF Leave

LEMMA ReturnInv == IInv /\ Return => IInv'
<1> SUFFICES ASSUME IInv, Return  PROVE IInv'
  OBVIOUS
<1>1. Typed
  BY DEF IInv
<1> QED BY <1>1, LeaveInv DEF Return, Typed

LEMMA FinishHandlerInv == IInv /\ FinishHandler => IInv'
<1> SUFFICES ASSUME IInv, FinishHandler  PROVE IInv'
  OBVIOUS
<1>1. Typed /\ mode = "program"
  BY DEF IInv, FinishHandler
<1>2. Top.rax \in Occurrences /\ Top.pad # 0
  <2>1. Len(stack) \in DOMAIN stack
    BY <1>1, TopFrame
  <2> QED BY <1>1, <2>1 DEF IInv, Owned, Held, Top, FinishHandler, InHandler
<1>3. excs' = [excs EXCEPT ![Top.rax] = NoExc] /\ excs \in [Occurrences -> Exc]
  BY <1>1 DEF FinishHandler, Typed
<1>4. /\ excs' \in [Occurrences -> Exc] /\ excs'[Top.rax] = NoExc
      /\ \A x \in Occurrences : x # Top.rax => excs'[x] = excs[x]
  BY <1>2, <1>3, Constants
<1> QED BY <1>1, <1>2, <1>4, LeaveInv DEF FinishHandler

\* The thread comes to an end.
LEMMA EndInv ==
  ASSUME IInv, mode \in {"program", "dispatch", "unwind"},
         mode' \in {"terminated", "continued", "aborted"}, UNCHANGED <<image, stack, excs, d, origin>>
  PROVE  IInv'
<1>1. Typed /\ mode # "exited"
  BY DEF IInv
<1>2. Typed' /\ Owned' /\ Suspended' /\ DispatchInv' /\ CleanupPads'
  BY <1>1 DEF IInv, Typed, Walking, Owned, Held, Suspended, DispatchInv, CleanupPads, AtPad
<1>3. \A i \in DOMAIN stack' : FrameInv(i)'
  BY <1>1 DEF IInv, FrameInv
<1> QED BY <1>2, <1>3 DEF IInv

\* The next record of a landing pad.
LEMMA NextRecordLemma ==
  ASSUME NEW frame \in Frame, NextRecords(frame) # {}
  PROVE  /\ NextRecord(frame) \in NextRecords(frame) /\ NextRecord(frame) \in Nat
         /\ \A j \in NextRecords(frame) : NextRecord(frame) <= j
<1>1. NextRecords(frame) \subseteq Nat
  BY DEF NextRecords, Frame
<1>2. \E k \in NextRecords(frame) : \A j \in NextRecords(frame) : k <= j
  BY <1>1, LeastOf
<1> QED BY <1>1, <1>2 DEF NextRecord

LEMMA EnterRecordInv == IInv /\ EnterRecord => IInv'
<1> SUFFICES ASSUME IInv, EnterRecord  PROVE IInv'
  OBVIOUS
<1> DEFINE r == NextRecord(Top)
           n == Len(stack)
<1>0. Typed /\ mode = "program" /\ mode' = "program" /\ d = Idle /\ d' = Idle /\ d.exc = 0
  BY Constants DEF IInv, Typed, EnterRecord
<1>1. /\ n \in Nat \ {0} /\ DOMAIN stack = 1 .. n /\ stack \in Seq(Frame) /\ Top \in Frame
      /\ Top = stack[n]
  BY <1>0, TopFrame DEF Typed, Top
<1>2. r \in NextRecords(Top) /\ r \in Nat /\ \A j \in NextRecords(Top) : r <= j
  BY <1>1, NextRecordLemma DEF EnterRecord
<1>3. stack' = [stack EXCEPT ![n] = [Top EXCEPT !.rec = r]]
  BY DEF EnterRecord, Top
<1> HIDE DEF r
<1>4. [Top EXCEPT !.rec = r] \in Frame
  BY <1>1, <1>2 DEF Frame
<1>5. /\ stack' \in Seq(Frame) /\ Len(stack') = n /\ DOMAIN stack' = 1 .. n
      /\ \A i \in 1 .. n : i # n => stack'[i] = stack[i]
      /\ stack'[n] = [Top EXCEPT !.rec = r]
  BY <1>1, <1>3, <1>4
<1>6. /\ stack'[n].fn = Top.fn /\ stack'[n].pad = Top.pad /\ stack'[n].rec = r
      /\ stack'[n].rax = Top.rax /\ stack'[n].rdx = Top.rdx
  BY <1>1, <1>5 DEF Frame
<1>7. excs' = excs /\ origin' = origin /\ image' = image
  BY DEF EnterRecord
<1>8. Typed'
  BY <1>0, <1>1, <1>5, <1>7 DEF Typed, Walking
<1>9. Owned'
  <2>1. \A i \in 1 .. n : stack'[i].rax = stack[i].rax /\ stack'[i].pad = stack[i].pad
    BY <1>1, <1>5, <1>6
  <2> QED BY <2>1, <1>0, <1>1, <1>5, <1>7 DEF IInv, Owned, Held, Walking
<1>10. ASSUME NEW i \in DOMAIN stack'  PROVE FrameInv(i)'
  <2>1. FrameInv(i)
    BY <1>0, <1>1, <1>5, <1>10 DEF IInv
  <2>2. \A j \in 1 .. i - 1 : stack'[j] = stack[j]
    BY <1>1, <1>5, <1>10
  <2>3. CASE i # n
    <3>1. stack'[i] = stack[i]
      BY <1>5, <2>3
    <3> QED BY <3>1, <2>1, <2>2, <1>0, <1>7, Kept
  <2>4. CASE i = n
    <3> DEFINE e == excs[Top.rax]
               o == origin[Top.rax]
               chain == Chain[Top.fn][Top.pad]
    <3> SUFFICES ASSUME Top.rax # 0  PROVE Landed(e, o, stack', n)
      BY <1>6, <1>7, <2>4 DEF FrameInv
    <3>1. Landed(e, o, stack, n)
      BY <1>0, <1>1, <2>1, <2>4 DEF FrameInv
    <3>2. Below(o, stack', n)
      BY <3>1, <2>2, <2>4, <1>1, <1>6 DEF Landed, Below
    <3>3. r \in Top.rec + 1 .. Len(chain) /\ chain[r] \in {0, Top.rdx}
      BY <1>2 DEF NextRecords
    <3>4. Top.rec \in 0 .. Len(chain) /\ Top.rec \in Nat
      BY <3>1, <1>1 DEF Landed, Progress, Frame
    <3>5. ASSUME Top.rdx # 0, NEW k \in 1 .. r, chain[k] = Top.rdx  PROVE k = r
      <4>1. CASE k <= Top.rec
        <5>1. k = Top.rec
          <6>1. \A l \in 1 .. Top.rec : chain[l] = Top.rdx => l = Top.rec
            BY <1>1, <3>1, <3>5 DEF Landed, Progress
          <6>2. k \in 1 .. Top.rec
            BY <1>2, <3>4, <4>1
          <6> QED BY <3>5, <6>1, <6>2
        <5>2. InHandler(Top)
          BY <5>1, <1>2, <3>5 DEF InHandler, EnterRecord
        <5> QED BY <5>2 DEF EnterRecord
      <4>2. CASE k > Top.rec
        <5>1. k \in NextRecords(Top)
          BY <1>2, <3>3, <3>4, <3>5, <4>2 DEF NextRecords
        <5> QED BY <5>1, <1>2, <3>5
      <4> QED BY <1>2, <3>4, <4>1, <4>2
    <3>6. Progress(stack'[n])
      BY <1>6, <3>3, <3>4, <3>5 DEF Progress
    <3> QED BY <3>1, <3>2, <3>6, <1>1, <1>6 DEF Landed
  <2> QED BY <2>3, <2>4
<1>11. Suspended'
  BY <1>1, <1>5 DEF IInv, Suspended
<1>12. r # 0
  BY <1>1, <1>2 DEF NextRecords, Frame
<1>13. DispatchInv' /\ CleanupPads'
  BY <1>0, <1>5, <1>6, <1>12 DEF DispatchInv, Walking, CleanupPads, AtPad
<1> QED BY <1>0, <1>8, <1>9, <1>10, <1>11, <1>13 DEF IInv

\* The program stops at an instruction and the system takes over.
LEMMA StartInv ==
  ASSUME IInv, mode = "program", NEW a \in Int, stack' = At(a), mode' \in {"dispatch", "unwind"},
         d' \in Dispatch, d'.pos = Len(stack), image' = image,
         excs' \in [Occurrences -> Exc], origin' \in [Occurrences -> Seq(Frame)],
         \A x \in Occurrences : x # d'.exc => excs'[x] = excs[x] /\ origin'[x] = origin[x],
         d'.exc # 0 => /\ excs'[d'.exc].class # "none"
                       /\ \A i \in 1 .. Len(stack) - 1 : stack[i].rax # d'.exc,
         DispatchInv'
  PROVE  IInv'
<1> DEFINE n == Len(stack)
<1>0. Typed /\ d = Idle /\ d.exc = 0
  BY Constants DEF IInv, Typed
<1>1. n \in Nat \ {0} /\ DOMAIN stack = 1 .. n /\ stack \in Seq(Frame) /\ Top = stack[n]
  BY <1>0, TopFrame DEF Typed, Top
<1>2. /\ stack' \in Seq(Frame) /\ Len(stack') = n /\ DOMAIN stack' = 1 .. n
      /\ \A i \in 1 .. n : i # n => stack'[i] = stack[i]
  <2>1. /\ At(a) \in Seq(Frame) /\ Len(At(a)) = n /\ DOMAIN At(a) = 1 .. n
        /\ \A i \in 1 .. n : i # n => At(a)[i] = stack[i]
    BY <1>0, <1>1, AtLemma
  <2> QED BY <2>1
<1>3. \A i \in 1 .. n :
        /\ stack'[i].fn = stack[i].fn /\ stack'[i].pad = stack[i].pad /\ stack'[i].rec = stack[i].rec
        /\ stack'[i].rax = stack[i].rax /\ stack'[i].rdx = stack[i].rdx
  <2>1. /\ At(a)[n].fn = Top.fn /\ At(a)[n].pad = Top.pad /\ At(a)[n].rec = Top.rec
        /\ At(a)[n].rax = Top.rax /\ At(a)[n].rdx = Top.rdx
    BY <1>0, AtLemma
  <2> QED BY <1>1, <1>2, <2>1
<1>4. Typed'
  <2>1. stack' # <<>>
    BY <1>1, <1>2
  <2>2. image' \in Images
    BY <1>0 DEF Typed
  <2>3. d'.pos = Len(stack') /\ Len(stack') \in Nat
    BY <1>1, <1>2
  <2>4. d'.pos \in 0 .. Len(stack')
    BY <2>3
  <2> QED BY <1>2, <2>1, <2>2, <2>4 DEF Typed, Walking
<1>5. Owned'
  <2>1. ASSUME NEW i \in 1 .. n, stack[i].rax # 0
        PROVE  stack[i].rax \in Occurrences /\ excs'[stack[i].rax].class # "none"
    <3>1. stack[i].rax \in Occurrences /\ excs[stack[i].rax].class # "none"
      BY <1>0, <1>1, <2>1 DEF IInv, Owned, Held
    <3> QED BY <3>1, <2>1
  <2>2. /\ \A i \in 1 .. n : stack[i].pad # 0 => stack[i].rax # 0
        /\ \A i, j \in 1 .. n : i < j /\ stack[i].rax # 0 => stack[i].rax # stack[j].rax
    BY <1>1 DEF IInv, Owned
  <2>3. d'.exc # 0 => d'.exc \in Occurrences
    BY DEF Dispatch
  <2>4. \A i \in 1 .. Len(stack) - 1 : i \in 1 .. n
    BY <1>1
  <2>5. DOMAIN stack' = 1 .. n /\ Len(stack') = n
    BY <1>2
  <2> HIDE DEF n
  <2>6. \A i \in DOMAIN stack' : stack'[i].rax # 0 => Held(stack[i].rax)'
    BY <1>3, <2>1, <2>5 DEF Held
  <2>7. \A i \in DOMAIN stack' : stack'[i].pad # 0 => stack'[i].rax # 0
    BY <1>3, <2>2, <2>5
  <2>8. \A i, j \in DOMAIN stack' : i < j /\ stack'[i].rax # 0 => stack'[i].rax # stack'[j].rax
    BY <1>3, <2>2, <2>5
  <2>9. d'.exc # 0 => Held(d.exc)' /\ \A i \in 1 .. Len(stack') - 1 : stack'[i].rax # d'.exc
    BY <1>3, <2>3, <2>4, <2>5 DEF Held, n
  <2> QED BY <2>6, <2>7, <2>8, <2>9 DEF Owned
<1>6. ASSUME NEW i \in DOMAIN stack'  PROVE FrameInv(i)'
  <2>1. FrameInv(i)
    BY <1>1, <1>2 DEF IInv
  <2>2. \A j \in 1 .. i - 1 : stack'[j] = stack[j]
    <3>1. n \in Nat /\ i \in 1 .. n
      BY <1>1, <1>2, <1>6
    <3> HIDE DEF n
    <3>2. \A j \in 1 .. i - 1 : j \in 1 .. n /\ j # n
      BY <3>1
    <3> QED BY <3>2, <1>2
  <2>3. stack[i].rax \notin {0, d'.exc} =>
          stack[i].rax \in Occurrences /\ stack[i].rax # d.exc
    BY <1>0, <1>1, <1>2 DEF IInv, Owned, Held
  <2> QED BY <1>2, <1>3, <2>1, <2>2, <2>3, Kept
<1>7. Suspended'
  <2>1. \A i \in 1 .. n - 1 : i \in 1 .. n
    BY <1>1
  <2>2. \A i \in 1 .. n - 1 : stack[i].pad # 0 => stack[i].rec # 0
    BY DEF IInv, Suspended
  <2> QED BY <1>2, <1>3, <2>1, <2>2 DEF Suspended
<1>8. CleanupPads'
  BY DEF CleanupPads, AtPad
<1> QED BY <1>4, <1>5, <1>6, <1>7, <1>8 DEF IInv

LEMMA RaiseObjectInv ==
  ASSUME IInv, mode = "program", NEW x \in Occurrences, NEW class \in {"GNAT", "C++", "other"},
         NEW id \in Int, NEW at \in Int, \A i \in 1 .. Len(stack) - 1 : stack[i].rax # x,
         Unwind_RaiseException(x, class, id, at)
  PROVE  IInv'
<1> DEFINE e == [class |-> class, id |-> id, private |-> <<0, 0, 0>>]
<1>0. Typed
  BY DEF IInv
<1>1. /\ stack' = At(at) /\ mode' = "dispatch" /\ image' = image
      /\ d' = [Idle EXCEPT !.code = "THROW", !.exc = x, !.pos = Len(stack), !.fault = FALSE]
      /\ excs' = [excs EXCEPT ![x] = e] /\ origin' = [origin EXCEPT ![x] = stack']
  BY DEF Unwind_RaiseException, RaiseException
<1>2. /\ Len(stack) \in Nat \ {0} /\ stack' \in Seq(Frame) /\ Len(stack') = Len(stack)
      /\ DOMAIN stack' = 1 .. Len(stack)
  BY <1>0, <1>1, TopFrame, AtLemma
<1>3. /\ d' \in Dispatch /\ d'.code = "THROW" /\ d'.exc = x /\ d'.pos = Len(stack) /\ ~d'.fault
  <2>1. d' = [code |-> "THROW", exc |-> x, pos |-> Len(stack), target |-> 0,
              info |-> <<0, 0, 0>>, fault |-> FALSE]
    BY <1>1 DEF Idle
  <2> QED BY <1>2, <2>1, Constants DEF Dispatch, Codes
<1>4. e \in Exc /\ e.class # "none"
  BY Constants DEF Exc
<1> HIDE DEF e
<1>5. /\ excs' \in [Occurrences -> Exc] /\ excs'[x] = e
      /\ origin' \in [Occurrences -> Seq(Frame)] /\ origin'[x] = stack'
      /\ \A y \in Occurrences : y # x => excs'[y] = excs[y] /\ origin'[y] = origin[y]
  BY <1>0, <1>1, <1>2, <1>4 DEF Typed
<1>6. x # 0
  BY Constants
<1>7. DispatchInv'
  <2>1. Below(stack', stack', Len(stack'))
    BY <1>2 DEF Below
  <2>2. NoneAbove(e, stack', Len(stack))
    BY <1>2 DEF NoneAbove
  <2>3. Flight(excs[d.exc], origin[d.exc])'
    BY <1>1, <1>3, <1>5, <2>1, <2>2 DEF Flight, Search
  <2> QED BY <1>3, <1>6, <2>3 DEF DispatchInv
<1>8. excs'[d'.exc].class # "none"
  BY <1>3, <1>4, <1>5
<1> QED BY <1>1, <1>3, <1>5, <1>7, <1>8, StartInv

LEMMA RaiseInv == IInv /\ Raise => IInv'
<1> SUFFICES ASSUME IInv, Raise  PROVE IInv'
  OBVIOUS
<1> DEFINE x == CHOOSE x \in Free : TRUE
<1>0. Typed /\ mode = "program"
  BY DEF IInv, Raise
<1>1. PICK o \in Reachable("raise") : Unwind_RaiseException(x, o.arg[1], o.arg[2], o.at)
  BY DEF Raise
<1>2. o.at \in Int /\ o.arg[1] \in {"GNAT", "C++", "other"} /\ o.arg[2] \in Int
  BY <1>0, ReachableOp, ProgramAssumption
<1>3. x \in Occurrences /\ excs[x] = NoExc
  BY DEF Raise, Free
<1> HIDE DEF x
<1>4. \A i \in DOMAIN stack : stack[i].rax # x
  BY <1>0, <1>3, Constants DEF IInv, Owned, Held, NoExc
<1>5. \A i \in 1 .. Len(stack) - 1 : stack[i].rax # x
  BY <1>0, <1>4, TopFrame
<1> QED BY <1>0, <1>1, <1>2, <1>3, <1>5, RaiseObjectInv

LEMMA ReraiseInv == IInv /\ Reraise => IInv'
<1> SUFFICES ASSUME IInv, Reraise  PROVE IInv'
  OBVIOUS
<1>0. Typed /\ mode = "program" /\ Top.rax # 0 /\ excs[Top.rax].class = "GNAT"
  BY DEF IInv, Reraise
<1>1. PICK o \in Reachable("reraise") :
        Unwind_RaiseException(Top.rax, excs[Top.rax].class, excs[Top.rax].id, o.at)
  BY DEF Reraise
<1>2. o.at \in Int
  BY <1>0, ReachableOp
<1>3. Len(stack) \in Nat \ {0} /\ DOMAIN stack = 1 .. Len(stack)
  BY <1>0, TopFrame
<1>4. Top.rax \in Occurrences /\ \A i \in 1 .. Len(stack) - 1 : stack[i].rax # Top.rax
  BY <1>0, <1>3 DEF IInv, Owned, Held, Top
<1>5. excs[Top.rax].id \in Int
  BY <1>0, <1>4 DEF Typed, Exc
<1> QED BY <1>0, <1>1, <1>2, <1>4, <1>5, RaiseObjectInv

LEMMA FaultInv == IInv /\ Fault => IInv'
<1> SUFFICES ASSUME IInv, Fault  PROVE IInv'
  OBVIOUS
<1>0. Typed /\ mode = "program" /\ mode' = "dispatch"
  BY DEF IInv, Fault
<1>1. PICK o \in Reachable("fault") : stack' = At(o.at) /\ RaiseException(o.arg, 0, TRUE)
  BY DEF Fault
<1>2. o.at \in Int /\ o \in Ops[Top.fn] /\ Top.fn \in Funs /\ o.op = "fault"
  BY <1>0, ReachableOp
<1>3. o.arg \in Codes /\ ~GCC(o.arg)
  BY <1>2, ProgramAssumption DEF Codes, GCC
<1>4. /\ Len(stack) \in Nat \ {0} /\ Len(stack') = Len(stack) /\ DOMAIN stack' = 1 .. Len(stack)
      /\ stack'[Len(stack)].fn = Top.fn /\ stack'[Len(stack)].at = o.at
  BY <1>0, <1>1, <1>2, TopFrame, AtLemma
<1>5. /\ d' \in Dispatch /\ d'.code = o.arg /\ d'.exc = 0 /\ d'.pos = Len(stack) /\ d'.fault
  <2>1. d' = [code |-> o.arg, exc |-> 0, pos |-> Len(stack), target |-> 0,
              info |-> <<0, 0, 0>>, fault |-> TRUE]
    BY <1>1 DEF RaiseException, Idle
  <2> QED BY <1>3, <1>4, <2>1, Constants DEF Dispatch
<1>6. image' = image /\ excs' = excs /\ origin' = origin /\ Free # {}
  BY DEF Fault
<1>7. DispatchInv'
  <2>1. Free' # {}
    BY <1>6 DEF Free
  <2>2. FaultAssumption => FaultSafe(Top')
    BY <1>2, <1>4 DEF FaultAssumption, FaultSafe, Top
  <2> QED BY <1>0, <1>3, <1>4, <1>5, <2>1, <2>2 DEF DispatchInv, Untranslated, Walking
<1> QED BY <1>0, <1>1, <1>2, <1>5, <1>6, <1>7, StartInv DEF Typed

\* The next instruction is the last of the landing pad, outside all regions.
LEMMA ResumeInv == IInv /\ Unwind_Resume => IInv'
<1> SUFFICES ASSUME IInv, Unwind_Resume  PROVE IInv'
  OBVIOUS
<1> DEFINE n == Len(stack)
           x == Top.rax
           a == Top.pad + Len(Chain[Top.fn][Top.pad]) + 1
           private == excs[x].private
<1>0. Typed /\ mode = "program" /\ mode' = "unwind" /\ Top.pad # 0 /\ d.exc = 0
  BY Constants DEF IInv, Typed, Unwind_Resume
<1>1. n \in Nat \ {0} /\ DOMAIN stack = 1 .. n /\ Top = stack[n] /\ Top \in Frame
  BY <1>0, TopFrame DEF Top
<1>2. x \in Occurrences /\ Held(x) /\ x # 0 /\ \A i \in 1 .. n - 1 : stack[i].rax # x
  BY <1>0, <1>1 DEF IInv, Owned, Held
<1>3. Landed(excs[x], origin[x], stack, n)
  BY <1>0, <1>1, <1>2 DEF IInv, FrameInv
<1>4. PICK r \in Regions[Top.fn] : r.pad = Top.pad
  <2>1. IsPad(Top.fn, Top.pad)
    BY <1>1, <1>3 DEF Landed, Below, Chosen, Lands
  <2> QED BY <2>1 DEF IsPad
<1>5. a \in Int /\ \A s \in Regions[Top.fn] : a \notin s.first .. s.last
  <2>1. Top.fn \in Funs /\ Top.pad \in Int
    BY <1>1 DEF Frame
  <2>2. Len(Chain[Top.fn][Top.pad]) \in Nat
    BY <1>0, <1>4, <2>1, RegionsAssumption
  <2>3. \A s \in Regions[Top.fn] : r.pad + Len(Chain[Top.fn][r.pad]) + 1 \notin s.first .. s.last
    BY <1>0, <1>4, <2>1, RegionsAssumption
  <2> QED BY <1>4, <2>1, <2>2, <2>3
<1>6. stack' = At(a) /\ d' = [Idle EXCEPT !.code = "THROW", !.exc = x, !.pos = n,
                                          !.target = private[1], !.info = private]
  BY DEF Unwind_Resume
<1> HIDE DEF a
<1>7. private \in Target
  BY <1>0, <1>2 DEF Typed, Exc
<1>8. /\ d' \in Dispatch /\ d'.code = "THROW" /\ d'.exc = x /\ d'.pos = n /\ ~d'.fault
      /\ d'.info = private /\ d'.target = private[1]
  <2>1. d' = [code |-> "THROW", exc |-> x, pos |-> n, target |-> private[1],
              info |-> private, fault |-> FALSE]
    BY <1>6 DEF Idle
  <2>2. private[1] \in Int
    BY <1>7 DEF Target
  <2> HIDE DEF private
  <2> QED BY <1>1, <1>2, <1>7, <2>1, <2>2 DEF Dispatch, Codes
<1>9. image' = image /\ excs' = excs /\ origin' = origin
  BY DEF Unwind_Resume
<1>10. /\ Len(stack') = n /\ stack'[n].fn = Top.fn /\ stack'[n].at = a
       /\ \A i \in 1 .. n - 1 : stack'[i] = stack[i]
  <2>1. /\ Len(At(a)) = n /\ At(a)[n].fn = Top.fn /\ At(a)[n].at = a
        /\ \A i \in 1 .. n : i # n => At(a)[i] = stack[i]
    BY <1>0, <1>5, AtLemma
  <2>2. n \in Nat
    BY <1>1
  <2> HIDE DEF n
  <2>3. \A i \in 1 .. n - 1 : i \in 1 .. n /\ i # n
    BY <2>2
  <2> QED BY <1>6, <2>1, <2>3
<1>11. DispatchInv'
  <2>1. Below(origin[x], stack', n)
    BY <1>1, <1>3, <1>10 DEF Landed, Below
  <2>2. OutOfRegions(Top')
    BY <1>5, <1>10 DEF OutOfRegions, Top
  <2>3. Aim(excs[x], origin[x], private) /\ private[1] <= n
    BY <1>3 DEF Landed
  <2>4. Flight(excs[d.exc], origin[d.exc])'
    BY <1>0, <1>8, <1>9, <1>10, <2>1, <2>2, <2>3 DEF Flight, Unwinding
  <2> QED BY <1>2, <1>8, <2>4 DEF DispatchInv
<1>12. excs'[d'.exc].class # "none"
  BY <1>2, <1>8, <1>9 DEF Held
<1> QED BY <1>0, <1>2, <1>5, <1>6, <1>8, <1>9, <1>11, <1>12, StartInv DEF Typed

-----------------------------------------------------------------------------
(***************************************************************************)
(* The visit of a frame.                                                   *)
(***************************************************************************)
\* The system goes on.
LEMMA VisitInv ==
  ASSUME IInv, Walking, mode' \in {"dispatch", "unwind"}, UNCHANGED <<image, stack>>,
         d' \in Dispatch, d'.pos \in 0 .. Len(stack), d.exc \in {0, d'.exc},
         excs' \in [Occurrences -> Exc], origin' \in [Occurrences -> Seq(Frame)],
         \A x \in Occurrences : x # d'.exc => excs'[x] = excs[x] /\ origin'[x] = origin[x],
         d'.exc # 0 => /\ excs'[d'.exc].class # "none"
                       /\ \A i \in 1 .. Len(stack) - 1 : stack[i].rax # d'.exc,
         DispatchInv'
  PROVE  IInv'
<1> DEFINE n == Len(stack)
<1>0. Typed /\ mode # "exited"
  BY DEF IInv, Walking
<1>1. DOMAIN stack = 1 .. n
  BY <1>0, TopFrame
<1>2. Typed'
  BY <1>0 DEF Typed, Walking
<1>3. ASSUME NEW i \in DOMAIN stack, stack[i].rax # 0
      PROVE  stack[i].rax \in Occurrences /\ excs'[stack[i].rax].class # "none"
  <2>1. stack[i].rax \in Occurrences /\ excs[stack[i].rax].class # "none"
    BY <1>0, <1>3 DEF IInv, Owned, Held
  <2> QED BY <2>1, <1>3
<1>4. Owned'
  <2>1. /\ \A i \in DOMAIN stack : stack[i].pad # 0 => stack[i].rax # 0
        /\ \A i, j \in DOMAIN stack : i < j /\ stack[i].rax # 0 => stack[i].rax # stack[j].rax
    BY <1>0 DEF IInv, Owned
  <2>2. d'.exc # 0 => d'.exc \in Occurrences
    BY DEF Dispatch
  <2> QED BY <1>3, <2>1, <2>2 DEF Owned, Held
<1>5. ASSUME NEW i \in DOMAIN stack'  PROVE FrameInv(i)'
  <2>1. FrameInv(i)
    BY <1>0, <1>5 DEF IInv
  <2>2. stack[i].rax \notin {0, d'.exc} => stack[i].rax \in Occurrences /\ stack[i].rax # d.exc
    BY <1>3, <1>5
  <2> QED BY <2>1, <2>2, Kept
<1>6. Suspended' /\ CleanupPads'
  BY DEF IInv, Suspended, CleanupPads, AtPad
<1> QED BY <1>2, <1>4, <1>5, <1>6 DEF IInv

\* The object that is dispatched.
LEMMA InFlight ==
  ASSUME IInv, Walking
  PROVE  /\ Typed /\ DOMAIN stack = 1 .. Len(stack) /\ Len(stack) \in Nat \ {0}
         /\ d.exc # 0 => /\ d.exc \in Occurrences /\ excs[d.exc].class # "none"
                         /\ \A i \in 1 .. Len(stack) - 1 : stack[i].rax # d.exc
                         /\ Flight(excs[d.exc], origin[d.exc])
                         /\ excs[d.exc] \in Exc /\ origin[d.exc] \in Seq(Frame)
         /\ d.exc = 0 => Untranslated
         /\ GCC(d.code) <=> d.exc # 0
<1>1. Typed /\ mode # "exited"
  BY DEF IInv, Walking
<1>2. DOMAIN stack = 1 .. Len(stack) /\ Len(stack) \in Nat \ {0}
  BY <1>1, TopFrame
<1>3. d.exc # 0 => /\ d.exc \in Occurrences /\ excs[d.exc].class # "none"
                   /\ \A i \in 1 .. Len(stack) - 1 : stack[i].rax # d.exc
  BY <1>1 DEF IInv, Owned, Held
<1>4. /\ d.exc # 0 => Flight(excs[d.exc], origin[d.exc])
      /\ d.exc = 0 => Untranslated
  BY DEF IInv, DispatchInv
<1>5. d.exc # 0 => GCC(d.code)
  BY <1>4 DEF Flight, Search, Unwinding, Colliding, GCC
<1>6. d.exc = 0 => ~GCC(d.code)
  BY <1>4 DEF Untranslated
<1> QED BY <1>1, <1>2, <1>3, <1>4, <1>5, <1>6 DEF Typed

\* The frames are those that raised the object but for what the top one did.
LEMMA SameFn ==
  ASSUME IInv, Walking, NEW o, Below(o, stack, Len(stack)), NEW j \in 1 .. Len(stack)
  PROVE  /\ stack[j].fn = o[j].fn /\ stack[j] \in Frame
         /\ j # Len(stack) => stack[j] = o[j]
<1>1. DOMAIN stack = 1 .. Len(stack) /\ Len(stack) \in Nat \ {0} /\ stack[j] \in Frame
  BY InFlight, TopFrame
<1>2. CASE j = Len(stack)
  BY <1>1, <1>2 DEF Below
<1>3. CASE j # Len(stack)
  <2> DEFINE n == Len(stack)
  <2>1. n \in Nat /\ j \in 1 .. n /\ j # n
    BY <1>1, <1>3
  <2> HIDE DEF n
  <2>2. j \in 1 .. n - 1
    BY <2>1
  <2>3. stack[j] = o[j]
    BY <2>2 DEF Below, n
  <2> QED BY <1>1, <1>3, <2>3
<1> QED BY <1>1, <1>2, <1>3

\* A function without tables has neither landing pads nor handlers.
LEMMA NoTables ==
  ASSUME Typed, NEW frame, frame.fn \in Funs, frame.fn \notin DOMAIN image
  PROVE  /\ \A p : ~IsPad(frame.fn, p)
         /\ \A e : NoHandler(e, frame)
<1>1. Regions[frame.fn] = {}
  BY LayoutAssumption DEF Typed
<1> QED BY <1>1 DEF IsPad, NoHandler, Takes, PadsOf

LEMMA ContinueInv ==
  ASSUME IInv, Walking, d.pos > 0, ContinueSearch,
         UNCHANGED <<image, mode, stack, excs, current, origin>>,
         d.exc = 0 => map_SEH(d.code) = 0 \/ Visited.fn \notin DOMAIN image,
         mode = "dispatch" /\ d.code = "THROW" /\ d.exc # 0 /\ FaultAssumption
           => NoHandler(excs[d.exc], Visited),
         mode = "unwind" => d.target # d.pos,
         d.code = "UNWIND" => d.info[1] # d.pos
  PROVE  IInv'
<1> DEFINE x == d.exc
           e == excs[x]
           o == origin[x]
<1>0. Typed /\ DOMAIN stack = 1 .. Len(stack) /\ Len(stack) \in Nat \ {0} /\ d.pos \in 1 .. Len(stack)
  BY InFlight DEF Typed
<1>1. /\ d' \in Dispatch /\ d'.pos = d.pos - 1 /\ d'.pos \in 0 .. Len(stack) /\ d'.exc = x
      /\ d'.code = d.code /\ d'.info = d.info /\ d'.target = d.target /\ d'.fault = d.fault
  <2>1. d \in Dispatch /\ d.pos \in Int
    BY <1>0 DEF Typed
  <2>2. d.pos - 1 \in 0 .. Len(stack)
    BY <1>0
  <2>3. d' = [d EXCEPT !.pos = d.pos - 1]
    BY DEF ContinueSearch
  <2> QED BY <2>1, <2>2, <2>3 DEF Dispatch
<1>2. ASSUME x # 0  PROVE Flight(excs[d.exc], origin[d.exc])'
  <2>1. Flight(e, o) /\ Below(o, stack, Len(stack))
    BY <1>2, InFlight DEF Flight
  <2>2. /\ d.target \in Int /\ d.info[1] \in Int
    BY <1>0 DEF Typed, Dispatch, Target
  <2>3. CASE mode = "dispatch" /\ Search(e, o)
    <3>1. CASE d.code = "FORCED"
      BY <1>1, <2>1, <2>3, <3>1 DEF Flight, Search
    <3>2. CASE d.code = "THROW"
      <4>1. NoneAbove(e, o, d.pos - 1)
        <5> SUFFICES ASSUME FaultAssumption, NEW j \in DOMAIN o, j > d.pos - 1
                     PROVE  NoHandler(e, o[j])
          BY DEF NoneAbove
        <5>1. NoneAbove(e, o, d.pos) /\ stack = o
          BY <2>3, <3>2 DEF Search
        <5>2. CASE j = d.pos
          BY <1>2, <2>3, <3>2, <5>1, <5>2 DEF Visited
        <5>3. CASE j > d.pos
          BY <5>1, <5>3 DEF NoneAbove
        <5> QED BY <1>0, <5>1, <5>2, <5>3
      <4> QED BY <1>1, <2>1, <2>3, <3>2, <4>1 DEF Flight, Search
    <3> QED BY <2>3, <3>1, <3>2 DEF Search
  <2>4. CASE mode = "unwind" /\ Unwinding(e, o)
    <3>1. d.target <= d.pos - 1
      BY <1>0, <2>2, <2>4 DEF Unwinding
    <3> QED BY <1>1, <2>1, <2>4, <3>1 DEF Flight, Unwinding, Top
  <2>5. CASE Colliding(e, o)
    <3>1. d.info[1] \in 1 .. d.pos - 1
      BY <1>0, <2>2, <2>5 DEF Colliding
    <3> QED BY <1>1, <2>1, <2>5, <3>1 DEF Flight, Colliding
  <2> QED BY <2>1, <2>3, <2>4, <2>5 DEF Flight
<1>3. ASSUME x = 0  PROVE Untranslated'
  <2>1. Untranslated
    BY <1>3, InFlight
  <2>2. map_SEH(d.code) = 0 \/ \A j \in DOMAIN stack : j > d.pos - 1 => stack[j].fn \notin DOMAIN image
    BY <1>0, <1>3, <2>1 DEF Untranslated, Visited
  <2> QED BY <1>1, <2>1, <2>2 DEF Untranslated, Free
<1>4. d'.fault /\ FaultAssumption => FaultSafe(Top')
  BY <1>1 DEF IInv, DispatchInv, FaultSafe, Top
<1>5. DispatchInv'
  BY <1>1, <1>2, <1>3, <1>4 DEF DispatchInv
<1>6. mode' \in {"dispatch", "unwind"} /\ excs' \in [Occurrences -> Exc] /\ origin' \in [Occurrences -> Seq(Frame)]
  BY <1>0 DEF Typed, Walking
<1> QED BY <1>1, <1>5, <1>6, InFlight, VisitInv

LEMMA SkipFrameInv == IInv /\ SkipFrame => IInv'
<1> SUFFICES ASSUME IInv, SkipFrame  PROVE IInv'
  OBVIOUS
<1> DEFINE e == excs[d.exc]
           o == origin[d.exc]
<1>0. /\ Walking /\ d.pos > 0 /\ Visited.fn \notin DOMAIN image /\ ContinueSearch
      /\ UNCHANGED <<image, mode, stack, excs, current, origin>>
  BY DEF SkipFrame, Walking
<1>1. Typed /\ d.pos \in 1 .. Len(stack)
  BY <1>0, InFlight DEF Typed
<1>2. Visited.fn \in Funs
  BY <1>1, TopFrame DEF Visited, Frame
<1>3. (\A p : ~IsPad(Visited.fn, p)) /\ \A g : NoHandler(g, Visited)
  BY <1>0, <1>1, <1>2, NoTables
<1>4. ASSUME NEW p, NEW r, Chosen(e, o, d.pos, p, r), d.exc # 0  PROVE FALSE
  <2>1. Below(o, stack, Len(stack))
    BY <1>0, <1>4, InFlight DEF Flight
  <2>2. o[d.pos].fn = Visited.fn
    BY <1>0, <1>1, <2>1, SameFn DEF Visited
  <2> QED BY <1>3, <1>4, <2>2 DEF Chosen, Lands
<1>5. ASSUME mode = "unwind" \/ d.code = "UNWIND", d.exc # 0
      PROVE  (mode = "unwind" => d.target # d.pos) /\ (d.code = "UNWIND" => d.info[1] # d.pos)
  <2>1. Flight(e, o)
    BY <1>0, <1>5, InFlight
  <2>2. CASE Colliding(e, o)
    BY <2>2, <1>4, <1>5 DEF Colliding
  <2>3. CASE mode = "unwind" /\ Unwinding(e, o)
    BY <2>3, <1>0, <1>4, <1>5 DEF Unwinding, Aim
  <2>4. CASE mode = "dispatch" /\ Search(e, o)
    BY <2>4, <1>5 DEF Search
  <2> QED BY <2>1, <2>2, <2>3, <2>4 DEF Flight
<1>6. d.exc = 0 => mode # "unwind" /\ d.code # "UNWIND"
  BY <1>0, InFlight DEF Untranslated, GCC
<1> QED BY <1>0, <1>3, <1>5, <1>6, ContinueInv

LEMMA PassUnwoundInv == IInv /\ PassUnwound => IInv'
<1> SUFFICES ASSUME IInv, PassUnwound  PROVE IInv'
  OBVIOUS
<1>1. /\ Walking /\ d.pos > 0 /\ ContinueSearch /\ mode = "unwind" /\ d.code = "UNWIND"
      /\ d.target # d.pos /\ UNCHANGED <<image, mode, stack, excs, current, origin>>
  BY DEF PassUnwound, Walking, Visiting
<1>2. d.exc # 0
  BY <1>1, InFlight DEF GCC
<1>3. d.info[1] = d.target
  BY <1>1, <1>2, InFlight DEF Flight, Unwinding, Colliding
<1> QED BY <1>1, <1>2, <1>3, ContinueInv

LEMMA RtlUnwindExLemma ==
  ASSUME d \in Dispatch, NEW info \in Target, RtlUnwindEx(info), Len(stack) \in Nat
  PROVE  /\ mode' = "unwind" /\ d' \in Dispatch
         /\ d'.pos = Len(stack) /\ d'.exc = d.exc /\ d'.code = d.code /\ d'.info = info
         /\ d'.target = info[1] /\ d'.fault = d.fault
<1>1. info[1] \in Int
  BY DEF Target
<1>2. d' = [code |-> d.code, exc |-> d.exc, pos |-> Len(stack), target |-> info[1],
            info |-> info, fault |-> d.fault]
  BY DEF RtlUnwindEx, Dispatch
<1>3. d.code \in Codes /\ d.exc \in Occurrences \cup {0} /\ d.fault \in BOOLEAN
  BY DEF Dispatch
<1>4. mode' = "unwind"
  BY DEF RtlUnwindEx
<1>5. d' \in Dispatch
  BY <1>1, <1>2, <1>3 DEF Dispatch
<1> QED BY <1>2, <1>4, <1>5

LEMMA CollideInv == IInv /\ Collide => IInv'
<1> SUFFICES ASSUME IInv, Collide  PROVE IInv'
  OBVIOUS
<1>1. /\ Walking /\ d.pos > 0 /\ mode = "dispatch" /\ d.code = "UNWIND"
      /\ UNCHANGED <<image, stack, excs, current, origin>>
  BY DEF Collide, Walking, Visiting
<1>2. d.exc # 0
  BY <1>1, InFlight DEF GCC
<1>3. CASE d.info[1] # d.pos
  BY <1>1, <1>2, <1>3, ContinueInv DEF Collide
<1>4. CASE d.info[1] = d.pos
  <2>1. mode' = "unwind" /\ RtlUnwindEx(d.info)
    BY <1>4 DEF Collide, RtlUnwindEx
  <2>2. Typed /\ d \in Dispatch /\ Len(stack) \in Nat \ {0} /\ d.info \in Target /\ d.info[1] \in Int
    BY <1>1, InFlight DEF Typed, Dispatch, Target
  <2>3. /\ d' \in Dispatch /\ d'.pos = Len(stack) /\ d'.exc = d.exc /\ d'.code = d.code
        /\ d'.info = d.info /\ d'.target = d.info[1] /\ d'.fault = d.fault
    BY <2>1, <2>2, RtlUnwindExLemma
  <2>4. Colliding(excs[d.exc], origin[d.exc]) /\ Below(origin[d.exc], stack, Len(stack))
    BY <1>1, <1>2, InFlight DEF Flight, Search
  <2>5. d.info[1] \in 1 .. Len(stack)
    BY <1>1, <1>4, <2>2, InFlight DEF Typed
  <2>6. Flight(excs[d.exc], origin[d.exc])'
    BY <1>1, <2>1, <2>3, <2>4, <2>5 DEF Flight, Colliding
  <2>7. d'.fault /\ FaultAssumption => FaultSafe(Top')
    BY <1>1, <2>3 DEF IInv, DispatchInv, FaultSafe, Top
  <2>8. DispatchInv'
    BY <1>1, <1>2, <2>3, <2>6, <2>7 DEF DispatchInv
  <2> QED BY <1>1, <2>1, <2>2, <2>3, <2>8, InFlight, VisitInv DEF Typed
<1> QED BY <1>3, <1>4

\* The address looked up, and what is found for it.
LEMMA BodyFinds ==
  ASSUME IInv, Walking, d.pos > 0, Visited.fn \in DOMAIN image, NEW x, NEW force \in BOOLEAN
  PROVE  LET a == personality_body(d.pos, x, force)
         IN  /\ a.landing_pad \in Int /\ a.ttype_filter \in Nat
             /\ a.kind \in {"nothing", "cleanup", "handler", "unhandler"}
             /\ a.kind # "nothing" => IsPad(Visited.fn, a.landing_pad)
             /\ a.kind = "cleanup" => a.ttype_filter = 0
             /\ a.kind \in {"handler", "unhandler"} => a.ttype_filter > 0 /\ ~force
             /\ FaultAssumption => Finds(a, excs[x], Visited, force)
<1> DEFINE ip == get_ip_from_context(d.pos)
           a == personality_body(d.pos, x, force)
           g == [Visited EXCEPT !.at = ip]
<1>1. Typed /\ d.pos \in 1 .. Len(stack) /\ Len(stack) \in Nat /\ image \in Images
  BY InFlight DEF Typed
<1>2. Visited \in Frame /\ Visited.at \in Int
  BY <1>1, TopFrame DEF Visited, Frame
<1>3. ip = Visited.at \/ (ip = Visited.at - 1 /\ d.fault /\ Visited = Top)
  <2> DEFINE atTop == d.fault /\ d.pos = Len(stack)
  <2>1. ip = (IF atTop THEN Visited.at ELSE Visited.at + 1) - 1
    BY DEF get_ip_from_context, ControlPc, Visited
  <2>2. atTop => d.fault /\ Visited = Top
    BY DEF Visited, Top
  <2> HIDE DEF ip, atTop
  <2>3. CASE atTop
    BY <2>1, <2>2, <2>3
  <2>4. CASE ~atTop
    BY <1>2, <2>1, <2>4
  <2> QED BY <2>3, <2>4
<1>4. ip \in Int
  BY <1>2, <1>3
<1>5. a = get_action_description_for(ip, excs[x], force, image[Visited.fn])
  BY DEF personality_body, Visited
<1> HIDE DEF ip, a
<1>6. g \in Frame /\ g.fn = Visited.fn /\ g.at = ip
  BY <1>2, <1>4 DEF Frame
<1> HIDE DEF g
<1>7. Finds(a, excs[x], g, force)
  BY <1>1, <1>4, <1>5, <1>6, Personality
<1>8. a.landing_pad \in PadsOf(g) => IsPad(Visited.fn, a.landing_pad)
  BY <1>6 DEF PadsOf, IsPad
<1>9. ASSUME FaultAssumption  PROVE Finds(a, excs[x], Visited, force)
  <2>1. d.fault => FaultSafe(Top)
    BY <1>9 DEF IInv, DispatchInv
  <2>2. \A r \in Regions[Visited.fn] : ip \in r.first .. r.last <=> Visited.at \in r.first .. r.last
    BY <1>3, <2>1 DEF FaultSafe
  <2> QED BY <1>1, <1>2, <1>4, <1>5, <2>2, Personality
<1> QED BY <1>7, <1>8, <1>9 DEF Finds, a

LEMMA TranslateInv == IInv /\ Translate => IInv'
<1> SUFFICES ASSUME IInv, Translate  PROVE IInv'
  OBVIOUS
<1> DEFINE x == CHOOSE y \in Free : TRUE
           e == [class |-> "GNAT", id |-> map_SEH(d.code), private |-> <<0, 0, 0>>]
<1>1. /\ Walking /\ d.pos > 0 /\ mode = "dispatch" /\ mode' = mode
      /\ UNCHANGED <<image, stack, current>>
  BY DEF Translate, Walking, Visiting
<1>2. d.exc = 0 /\ ~GCC(d.code) /\ Untranslated /\ Typed /\ d.pos \in 1 .. Len(stack)
      /\ Len(stack) \in Nat /\ DOMAIN stack = 1 .. Len(stack)
  BY <1>1, InFlight DEF Translate, Typed
<1>3. CASE map_SEH(d.code) = 0
  BY <1>1, <1>2, <1>3, ContinueInv DEF Translate, GCC
<1>4. CASE map_SEH(d.code) # 0
  <2>1. /\ excs' = [excs EXCEPT ![x] = e] /\ origin' = [origin EXCEPT ![x] = stack]
        /\ d' = [d EXCEPT !.code = "THROW", !.exc = x]
    BY <1>4 DEF Translate
  <2>2. x \in Occurrences /\ excs[x] = NoExc
    BY <1>2 DEF Untranslated, Free
  <2>3. map_SEH(d.code) \in Int
    BY ProgramAssumption DEF map_SEH
  <2>4. e \in Exc /\ e.class # "none"
    BY <2>3, Constants DEF Exc
  <2> HIDE DEF x, e
  <2>5. /\ excs' \in [Occurrences -> Exc] /\ excs'[x] = e
        /\ origin' \in [Occurrences -> Seq(Frame)] /\ origin'[x] = stack
        /\ \A y \in Occurrences : y # x => excs'[y] = excs[y] /\ origin'[y] = origin[y]
    BY <1>2, <2>1, <2>2, <2>4 DEF Typed
  <2>6. /\ d' \in Dispatch /\ d'.code = "THROW" /\ d'.exc = x /\ d'.pos = d.pos /\ d'.fault = d.fault
    <3>1. d \in Dispatch
      BY <1>2 DEF Typed
    <3>2. d' = [code |-> "THROW", exc |-> x, pos |-> d.pos, target |-> d.target,
                info |-> d.info, fault |-> d.fault]
      BY <2>1, <3>1 DEF Dispatch
    <3> QED BY <2>2, <3>1, <3>2 DEF Dispatch, Codes
  <2>7. x # 0 /\ \A i \in 1 .. Len(stack) - 1 : stack[i].rax # x
    <3>1. \A i \in DOMAIN stack : stack[i].rax # x
      BY <1>1, <2>2, Constants DEF IInv, Owned, Held, NoExc
    <3>2. x # 0
      BY <2>2, Constants
    <3>3. \A i \in 1 .. Len(stack) - 1 : i \in DOMAIN stack
      BY <1>2
    <3> QED BY <3>1, <3>2, <3>3
  <2>8. NoneAbove(e, stack, d.pos)
    <3> SUFFICES ASSUME NEW j \in DOMAIN stack, j > d.pos  PROVE NoHandler(e, stack[j])
      BY DEF NoneAbove
    <3>1. stack[j].fn \notin DOMAIN image
      BY <1>2, <1>4 DEF Untranslated
    <3>2. stack[j].fn \in Funs
      BY <1>2, TopFrame DEF Frame
    <3> QED BY <1>2, <3>1, <3>2, NoTables
  <2>9. Below(stack, stack, Len(stack))
    BY <1>2, InFlight, <1>1 DEF Below
  <2>10. Flight(excs[d.exc], origin[d.exc])'
    BY <1>1, <2>5, <2>6, <2>8, <2>9 DEF Flight, Search
  <2>11. d'.fault /\ FaultAssumption => FaultSafe(Top')
    BY <1>1, <2>6 DEF IInv, DispatchInv, FaultSafe, Top
  <2>12. DispatchInv'
    BY <2>6, <2>7, <2>10, <2>11 DEF DispatchInv
  <2> QED BY <1>1, <1>2, <2>4, <2>5, <2>6, <2>7, <2>12, VisitInv
<1> QED BY <1>3, <1>4

LEMMA Phase1Inv == IInv /\ Phase1 => IInv'
<1> SUFFICES ASSUME IInv, Phase1  PROVE IInv'
  OBVIOUS
<1> DEFINE x == d.exc
           e == excs[x]
           o == origin[x]
           a == personality_body(d.pos, x, FALSE)
           info == <<d.pos, a.landing_pad, a.ttype_filter>>
<1>1. /\ Walking /\ d.pos > 0 /\ mode = "dispatch" /\ d.code = "THROW" /\ Visited.fn \in DOMAIN image
      /\ UNCHANGED <<image, stack, origin>>
  BY DEF Phase1, Walking, Visiting
<1>2. /\ x # 0 /\ x \in Occurrences /\ e \in Exc /\ e.class # "none" /\ Flight(e, o)
      /\ \A i \in 1 .. Len(stack) - 1 : stack[i].rax # x
      /\ Typed /\ d.pos \in 1 .. Len(stack) /\ Len(stack) \in Nat /\ DOMAIN stack = 1 .. Len(stack)
  BY <1>1, InFlight DEF GCC, Typed
<1>3. stack = o /\ NoneAbove(e, o, d.pos) /\ Below(o, stack, Len(stack))
  BY <1>1, <1>2 DEF Flight, Search, Unwinding, Colliding
<1>4. /\ a.landing_pad \in Int /\ a.ttype_filter \in Nat
      /\ a.kind \in {"nothing", "cleanup", "handler", "unhandler"}
      /\ a.kind # "nothing" => IsPad(Visited.fn, a.landing_pad)
      /\ a.kind \in {"handler", "unhandler"} => a.ttype_filter > 0
      /\ FaultAssumption => Finds(a, e, Visited, FALSE)
  BY <1>1, BodyFinds
<1>5. /\ a.kind \in {"nothing", "cleanup"} => ContinueSearch /\ UNCHANGED <<mode, excs, current>>
      /\ a.kind \notin {"nothing", "cleanup"} =>
           current' = x /\ excs' = [excs EXCEPT ![x].private = info] /\ RtlUnwindEx(info)
  BY DEF Phase1, setup_to_install, Setup_Current_Excep
<1> HIDE DEF a
<1>6. CASE a.kind \in {"nothing", "cleanup"}
  <2>1. FaultAssumption => NoHandler(e, Visited)
    BY <1>4, <1>6 DEF Finds
  <2> QED BY <1>1, <1>2, <1>5, <1>6, <2>1, ContinueInv
<1>7. CASE a.kind \in {"handler", "unhandler"}
  <2> DEFINE g == [e EXCEPT !.private = info]
  <2>1. info \in Target /\ info[1] = d.pos /\ info[2] = a.landing_pad /\ info[3] = a.ttype_filter
    BY <1>2, <1>4 DEF Target
  <2> HIDE DEF info
  <2>2. g \in Exc /\ g.class = e.class /\ g.id = e.id /\ g.private = info
    BY <1>2, <2>1 DEF Exc
  <2>3. /\ excs' \in [Occurrences -> Exc] /\ excs'[x] = g
        /\ \A y \in Occurrences : y # x => excs'[y] = excs[y]
    <3>1. excs' = [excs EXCEPT ![x] = g]
      BY <1>5, <1>7
    <3> QED BY <1>2, <2>2, <3>1 DEF Typed
  <2> HIDE DEF g
  <2>4. /\ mode' = "unwind" /\ d' \in Dispatch
        /\ d'.pos = Len(stack) /\ d'.exc = d.exc /\ d'.code = d.code /\ d'.info = info
        /\ d'.target = info[1] /\ d'.fault = d.fault
    BY <1>2, <1>5, <1>7, <2>1, RtlUnwindExLemma DEF Typed
  <2>5. Lands(e, o[d.pos], info[2], info[3])
    BY <1>3, <1>4, <1>7, <2>1 DEF Lands, Finds, Visited
  <2>6. Chosen(g, o, info[1], info[2], info[3])
    <3>1. Lands(g, o[d.pos], info[2], info[3]) /\ NoneAbove(g, o, d.pos)
      BY <1>3, <2>2, <2>5, SameObject
    <3> QED BY <1>2, <1>3, <2>1, <3>1 DEF Chosen
  <2>7. Aim(g, o, g.private)
    BY <1>2, <1>4, <1>7, <2>1, <2>2, <2>6 DEF Aim
  <2>8. Flight(excs[d.exc], origin[d.exc])'
    BY <1>1, <1>2, <1>3, <2>1, <2>2, <2>3, <2>4, <2>7 DEF Flight, Unwinding, Top
  <2>9. d'.fault /\ FaultAssumption => FaultSafe(Top')
    BY <1>1, <2>4 DEF IInv, DispatchInv, FaultSafe, Top
  <2>10. DispatchInv'
    BY <1>2, <2>4, <2>8, <2>9 DEF DispatchInv
  <2> QED BY <1>1, <1>2, <2>2, <2>3, <2>4, <2>10, VisitInv DEF Typed
<1> QED BY <1>4, <1>6, <1>7

\* A frame takes control in a cleanup phase.
LEMMA Phase2Inv ==
  ASSUME IInv, Walking, d.pos > 0, Visited.fn \in DOMAIN image, NEW force \in BOOLEAN, Phase2(force),
         personality_body(d.pos, d.exc, force).kind # "nothing",
         UNCHANGED <<image, stack, excs, origin>>, d.exc # 0,
         Aim(excs[d.exc], origin[d.exc], excs[d.exc].private), excs[d.exc].private[1] <= d.pos,
         Top = origin[d.exc][Len(stack)] \/ OutOfRegions(Top),
         force => NoneAbove(excs[d.exc], origin[d.exc], 0)
  PROVE  IInv'
<1> DEFINE x == d.exc
           e == excs[x]
           o == origin[x]
           a == personality_body(d.pos, x, force)
           info == <<d.pos, a.landing_pad, a.ttype_filter>>
<1>1. /\ x \in Occurrences /\ e \in Exc /\ e.class # "none" /\ Below(o, stack, Len(stack))
      /\ \A i \in 1 .. Len(stack) - 1 : stack[i].rax # x
      /\ Typed /\ d.pos \in 1 .. Len(stack) /\ Len(stack) \in Nat /\ DOMAIN stack = 1 .. Len(stack)
      /\ o \in Seq(Frame)
  BY InFlight DEF Flight, Typed
<1>2. /\ a.landing_pad \in Int /\ a.ttype_filter \in Nat
      /\ a.kind \in {"cleanup", "handler", "unhandler"}
      /\ IsPad(Visited.fn, a.landing_pad)
      /\ a.kind = "cleanup" => a.ttype_filter = 0
      /\ a.kind \in {"handler", "unhandler"} => a.ttype_filter > 0 /\ ~force
      /\ FaultAssumption => Finds(a, e, Visited, force)
  BY BodyFinds
<1>3. /\ current' = x /\ mode' = "dispatch"
      /\ d' = [d EXCEPT !.code = "UNWIND", !.pos = Len(stack), !.target = 0, !.info = info]
  BY DEF Phase2, setup_to_install, Setup_Current_Excep
<1> HIDE DEF a
<1>4. info \in Target /\ info[1] = d.pos /\ info[2] = a.landing_pad /\ info[3] = a.ttype_filter
  BY <1>1, <1>2 DEF Target
<1> HIDE DEF info
<1>5. /\ d' \in Dispatch /\ d'.code = "UNWIND" /\ d'.exc = x /\ d'.pos = Len(stack)
      /\ d'.info = info /\ d'.fault = d.fault
  <2>1. d \in Dispatch
    BY <1>1 DEF Typed
  <2>2. d' = [code |-> "UNWIND", exc |-> x, pos |-> Len(stack), target |-> 0,
              info |-> info, fault |-> d.fault]
    BY <1>3, <2>1 DEF Dispatch
  <2> QED BY <1>1, <1>4, <2>1, <2>2 DEF Dispatch, Codes
<1>6. o[d.pos].fn = Visited.fn /\ (d.pos # Len(stack) => o[d.pos] = Visited)
  BY <1>1, SameFn DEF Visited
<1>7. NoneAbove(e, o, d.pos)
  <2> SUFFICES ASSUME FaultAssumption, NEW j \in DOMAIN o, j > d.pos  PROVE NoHandler(e, o[j])
    BY DEF NoneAbove
  <2>1. j \in Int /\ e.private[1] \in Int /\ j > e.private[1]
    <3>1. e.private[1] \in Int
      BY <1>1 DEF Exc, Target
    <3>2. j \in Int /\ d.pos \in Int
      BY <1>1
    <3> HIDE DEF e
    <3>3. e.private[1] <= d.pos
      BY DEF e
    <3> QED BY <3>1, <3>2, <3>3
  <2>2. CASE e.private[1] = 0
    BY <2>1, <2>2 DEF Aim, NoneAbove
  <2>3. CASE e.private[1] > 0
    BY <2>1, <2>3 DEF Aim, Chosen, NoneAbove
  <2> QED BY <2>2, <2>3 DEF Aim
<1>8. ASSUME FaultAssumption
      PROVE  /\ a.landing_pad \in PadsOf(o[d.pos])
             /\ a.ttype_filter = 0 => NoHandler(e, o[d.pos])
             /\ a.ttype_filter # 0 => First(e, o[d.pos], a.landing_pad, a.ttype_filter)
  <2>1. Finds(a, e, Visited, force) /\ a.landing_pad \in PadsOf(Visited)
    BY <1>2, <1>8 DEF Finds
  <2>2. o[d.pos] = Visited
    <3> SUFFICES ASSUME d.pos = Len(stack)  PROVE o[d.pos] = Visited
      BY <1>6
    <3>1. Visited = Top
      BY DEF Visited, Top
    <3>2. ~OutOfRegions(Top)
      BY <2>1, <3>1 DEF OutOfRegions, PadsOf
    <3> QED BY <3>1, <3>2
  <2>3. CASE force
    <3>1. NoHandler(e, o[d.pos]) /\ a.ttype_filter = 0
      <4>1. d.pos \in DOMAIN o /\ d.pos > 0
        <5>1. DOMAIN o = 1 .. Len(o) /\ Len(stack) \in DOMAIN o
          BY <1>1 DEF Below
        <5> QED BY <1>1, <5>1
      <4> QED BY <1>2, <1>8, <2>3, <4>1 DEF NoneAbove
    <3> QED BY <2>1, <2>2, <3>1
  <2>4. CASE ~force
    BY <1>2, <2>1, <2>2, <2>4 DEF Finds
  <2> QED BY <2>3, <2>4
<1>9. Chosen(e, o, info[1], info[2], info[3])
  <2>1. d.pos \in DOMAIN o
    <3>1. DOMAIN o = 1 .. Len(o) /\ Len(stack) \in DOMAIN o
      BY <1>1 DEF Below
    <3> QED BY <1>1, <3>1
  <2>2. Lands(e, o[d.pos], info[2], info[3])
    BY <1>2, <1>4, <1>6, <1>8 DEF Lands
  <2> QED BY <1>4, <1>7, <2>1, <2>2 DEF Chosen
<1>10. Flight(excs[d.exc], origin[d.exc])'
  <2>1. /\ e.private[1] <= info[1] /\ info[1] \in 1 .. Len(stack)
    BY <1>1, <1>4
  <2> QED BY <1>1, <1>3, <1>5, <1>9, <2>1 DEF Flight, Colliding
<1>11. d'.fault /\ FaultAssumption => FaultSafe(Top')
  BY <1>5 DEF IInv, DispatchInv, FaultSafe, Top
<1>12. DispatchInv'
  BY <1>5, <1>10, <1>11 DEF DispatchInv
<1> QED BY <1>1, <1>3, <1>5, <1>12, VisitInv DEF Typed

LEMMA CleanupInv == IInv /\ Cleanup => IInv'
<1> SUFFICES ASSUME IInv, Cleanup  PROVE IInv'
  OBVIOUS
<1> DEFINE e == excs[d.exc]
           o == origin[d.exc]
           a == personality_body(d.pos, d.exc, FALSE)
<1>1. /\ Walking /\ d.pos > 0 /\ mode = "unwind" /\ d.code = "THROW" /\ d.target # d.pos
      /\ Visited.fn \in DOMAIN image /\ Phase2(FALSE) /\ UNCHANGED <<image, stack, excs, origin>>
  BY DEF Cleanup, Walking, Visiting
<1>2. d.exc # 0 /\ Unwinding(e, o)
  BY <1>1, InFlight DEF GCC, Flight, Colliding
<1>3. CASE a.kind = "nothing"
  BY <1>1, <1>2, <1>3, ContinueInv DEF Phase2
<1>4. CASE a.kind # "nothing"
  BY <1>1, <1>2, <1>4, Phase2Inv DEF Unwinding
<1> QED BY <1>3, <1>4

LEMMA ForcedInv == IInv /\ Forced => IInv'
<1> SUFFICES ASSUME IInv, Forced  PROVE IInv'
  OBVIOUS
<1> DEFINE e == excs[d.exc]
           o == origin[d.exc]
           a == personality_body(d.pos, d.exc, TRUE)
<1>1. /\ Walking /\ d.pos > 0 /\ mode = "dispatch" /\ d.code = "FORCED"
      /\ Visited.fn \in DOMAIN image /\ Phase2(TRUE) /\ UNCHANGED <<image, stack, excs, origin>>
  BY DEF Forced, Walking, Visiting
<1>2. /\ d.exc # 0 /\ stack = o /\ e.private[1] = 0 /\ NoneAbove(e, o, 0)
  BY <1>1, InFlight DEF GCC, Flight, Search, Colliding
<1>3. CASE a.kind = "nothing"
  BY <1>1, <1>2, <1>3, ContinueInv DEF Phase2
<1>4. CASE a.kind # "nothing"
  <2>1. Aim(e, o, e.private) /\ e.private[1] <= d.pos /\ Top = o[Len(stack)]
    BY <1>1, <1>2, InFlight DEF Aim, Top, Typed
  <2> QED BY <1>1, <1>2, <1>4, <2>1, Phase2Inv
<1> QED BY <1>3, <1>4

LEMMA TargetUnwindInv == IInv /\ TargetUnwind => IInv'
<1> SUFFICES ASSUME IInv, TargetUnwind  PROVE IInv'
  OBVIOUS
<1> DEFINE x == d.exc
           e == excs[x]
           o == origin[x]
           p == d.pos
           kept == SubSeq(stack, 1, p)
           new == [fn |-> stack[p].fn, at |-> d.info[2], pad |-> d.info[2], rec |-> 0,
                   rax |-> x, rdx |-> d.info[3]]
<1>1. /\ Walking /\ p > 0 /\ mode = "unwind" /\ mode' = "program" /\ d' = Idle /\ p = d.target
      /\ stack' = [kept EXCEPT ![p] = [@ EXCEPT !.at = d.info[2], !.pad = d.info[2], !.rec = 0,
                                                !.rax = x, !.rdx = d.info[3]]]
      /\ UNCHANGED <<image, excs, current, origin>>
  BY DEF TargetUnwind, Walking, Visiting
<1>2. /\ Typed /\ p \in 1 .. Len(stack) /\ Len(stack) \in Nat /\ DOMAIN stack = 1 .. Len(stack)
      /\ stack \in Seq(Frame) /\ d.info \in Target /\ d.info[2] \in Int /\ d.info[3] \in Int
  BY <1>1, InFlight DEF Typed, Dispatch, Target
<1>3. /\ x # 0 /\ x \in Occurrences /\ e.class # "none" /\ Flight(e, o)
      /\ \A i \in 1 .. Len(stack) - 1 : stack[i].rax # x
  BY <1>1, InFlight DEF Untranslated
<1>4. /\ Chosen(e, o, p, d.info[2], d.info[3]) /\ Aim(e, o, e.private) /\ e.private[1] <= p
      /\ d.info[3] = 0 => current = x
      /\ Below(o, stack, Len(stack))
  <2>1. CASE Unwinding(e, o)
    BY <1>1, <1>3, <2>1 DEF Unwinding, Aim, Flight
  <2>2. CASE Colliding(e, o)
    BY <1>1, <1>3, <2>2 DEF Colliding, Flight
  <2> QED BY <1>1, <1>3, <2>1, <2>2 DEF Flight
<1>5. stack[p] \in Frame /\ stack[p].fn = o[p].fn /\ \A j \in 1 .. p - 1 : stack[j] = o[j]
  <2> DEFINE n == Len(stack)
  <2>1. n \in Nat /\ p \in 1 .. n
    BY <1>2
  <2> HIDE DEF n, p
  <2>2. \A j \in 1 .. p - 1 : j \in 1 .. n /\ j # n
    BY <2>1
  <2> USE DEF n, p
  <2> QED BY <1>1, <1>2, <1>4, <2>2, SameFn
<1>6. /\ kept \in Seq(Frame) /\ Len(kept) = p /\ DOMAIN kept = 1 .. p
      /\ \A i \in 1 .. p : kept[i] = stack[i]
  BY <1>2
<1> HIDE DEF kept
<1>7. new \in Frame
  BY <1>2, <1>3, <1>5 DEF Frame
<1>8. stack' = [kept EXCEPT ![p] = new]
  <2> DEFINE top == stack[p]
  <2>1. top \in Frame /\ kept[p] = top
    BY <1>2, <1>5, <1>6
  <2>2. new = [fn |-> top.fn, at |-> d.info[2], pad |-> d.info[2], rec |-> 0,
               rax |-> x, rdx |-> d.info[3]]
    OBVIOUS
  <2> HIDE DEF top, new
  <2> DEFINE set == [top EXCEPT !.at = d.info[2], !.pad = d.info[2], !.rec = 0,
                                !.rax = x, !.rdx = d.info[3]]
  <2>3. stack' = [kept EXCEPT ![p] = set]
    BY <1>1, <2>1
  <2>4. \A s : s = set => s = new
    <3> SUFFICES ASSUME NEW s, s = set  PROVE s = new
      OBVIOUS
    <3>1. s = [fn |-> top.fn, at |-> d.info[2], pad |-> d.info[2], rec |-> 0,
               rax |-> x, rdx |-> d.info[3]]
      BY <2>1 DEF Frame
    <3> QED BY <2>2, <3>1
  <2> QED BY <2>3, <2>4
<1>80. /\ new.fn = stack[p].fn /\ new.pad = d.info[2] /\ new.rec = 0 /\ new.rax = x
       /\ new.rdx = d.info[3]
  OBVIOUS
<1> HIDE DEF new
<1>9. /\ stack' \in Seq(Frame) /\ Len(stack') = p /\ DOMAIN stack' = 1 .. p /\ stack'[p] = new
      /\ \A i \in 1 .. p - 1 : stack'[i] = stack[i]
  <2> HIDE DEF p
  <2>1. p \in Nat \ {0}
    BY <1>2 DEF p
  <2> QED BY <1>6, <1>7, <1>8, <2>1
<1>10. Typed'
  <2>1. stack' # <<>>
    BY <1>2, <1>9
  <2>2. d' \in Dispatch
    BY <1>1, Constants
  <2> QED BY <1>1, <1>2, <1>9, <2>1, <2>2 DEF Typed, Walking
<1>11. \A i \in 1 .. p - 1 : i \in DOMAIN stack /\ i \in 1 .. Len(stack) - 1
  BY <1>2
<1>12. Owned'
  <2>1. \A i \in 1 .. p - 1 : /\ stack[i].rax # 0 => Held(stack[i].rax)
                              /\ stack[i].pad # 0 => stack[i].rax # 0
                              /\ stack[i].rax # x
    BY <1>1, <1>3, <1>11 DEF IInv, Owned
  <2>2. \A i, j \in 1 .. p - 1 : i < j /\ stack[i].rax # 0 => stack[i].rax # stack[j].rax
    BY <1>1, <1>11 DEF IInv, Owned
  <2>3. Held(x)
    BY <1>3 DEF Held
  <2> HIDE DEF p, x
  <2>4. p \in Nat \ {0} /\ x # 0
    BY <1>2, <1>3 DEF p, x
  <2>5. ASSUME NEW i \in 1 .. p  PROVE /\ stack'[i].rax # 0 => Held(stack'[i].rax)
                                       /\ stack'[i].pad # 0 => stack'[i].rax # 0
    <3>1. CASE i = p
      BY <1>80, <1>9, <2>3, <2>4, <3>1
    <3>2. CASE i \in 1 .. p - 1
      BY <1>9, <2>1, <3>2
    <3> QED BY <2>4, <3>1, <3>2
  <2>6. ASSUME NEW i \in 1 .. p, NEW j \in 1 .. p, i < j, stack'[i].rax # 0
        PROVE  stack'[i].rax # stack'[j].rax
    <3>1. i \in 1 .. p - 1
      BY <2>4, <2>6
    <3>2. CASE j = p
      BY <1>80, <1>9, <2>1, <3>1, <3>2
    <3>3. CASE j \in 1 .. p - 1
      BY <1>9, <2>2, <2>6, <3>1, <3>3
    <3> QED BY <2>4, <3>2, <3>3
  <2> QED BY <1>1, <1>9, <2>5, <2>6 DEF Owned, Held, Walking
<1>13. ASSUME NEW i \in DOMAIN stack'  PROVE FrameInv(i)'
  <2>0. d'.exc = 0
    BY <1>1, Constants
  <2>1. CASE i = p
    <3>1. Below(o, stack', p)
      BY <1>4, <1>5, <1>80, <1>9 DEF Below, Chosen
    <3>2. Progress(stack'[p])
      <4>1. Len(Chain[new.fn][new.pad]) \in Nat
        <5>1. new.fn \in Funs
          BY <1>7 DEF Frame
        <5>2. IsPad(new.fn, new.pad)
          BY <1>4, <1>5, <1>80 DEF Chosen, Lands
        <5> QED BY <5>1, <5>2, RegionsAssumption DEF IsPad
      <4> QED BY <1>80, <1>9, <4>1 DEF Progress
    <3>3. Landed(e, o, stack', p)
      BY <1>4, <1>80, <1>9, <3>1, <3>2 DEF Landed
    <3> QED BY <1>1, <1>80, <1>9, <2>1, <3>3 DEF FrameInv
  <2>2. CASE i \in 1 .. p - 1
    <3>1. FrameInv(i) /\ stack[i].rax # x
      BY <1>1, <1>3, <1>11, <2>2 DEF IInv
    <3>2. stack'[i] = stack[i] /\ \A j \in 1 .. i - 1 : stack'[j] = stack[j]
      BY <1>2, <1>9, <2>2
    <3> QED BY <1>1, <3>1, <3>2, Kept
  <2> QED BY <1>2, <1>9, <2>1, <2>2
<1>14. Suspended'
  BY <1>9, <1>11 DEF IInv, Suspended
<1>15. DispatchInv' /\ CleanupPads'
  BY <1>1, <1>4, <1>80, <1>9 DEF DispatchInv, Walking, CleanupPads, AtPad
<1> QED BY <1>1, <1>10, <1>12, <1>13, <1>14, <1>15 DEF IInv

LEMMA Unwind_ForcedUnwindInv == IInv /\ Unwind_ForcedUnwind => IInv'
<1> SUFFICES ASSUME IInv, Unwind_ForcedUnwind  PROVE IInv'
  OBVIOUS
<1> DEFINE x == d.exc
           e == excs[x]
           o == origin[x]
           g == [e EXCEPT !.private = <<0, 0, 0>>]
<1>1. /\ Walking /\ d.pos = 0 /\ mode = "dispatch" /\ mode' = mode /\ d.code = "THROW"
      /\ excs' = [excs EXCEPT ![x] = g]
      /\ d' = [Idle EXCEPT !.code = "FORCED", !.exc = x, !.pos = Len(stack), !.fault = FALSE]
      /\ UNCHANGED <<image, stack, current, origin>>
  BY DEF Unwind_ForcedUnwind, AtEnd, Walking, RaiseException
<1>2. /\ x # 0 /\ x \in Occurrences /\ e \in Exc /\ e.class # "none" /\ Flight(e, o)
      /\ \A i \in 1 .. Len(stack) - 1 : stack[i].rax # x
      /\ Typed /\ Len(stack) \in Nat
  BY <1>1, InFlight DEF GCC
<1>3. stack = o /\ NoneAbove(e, o, 0) /\ Below(o, stack, Len(stack))
  BY <1>1, <1>2 DEF Flight, Search, Unwinding, Colliding
<1>4. g \in Exc /\ g.class = e.class /\ g.id = e.id /\ g.private = <<0, 0, 0>>
  BY <1>2, Constants DEF Exc
<1> HIDE DEF g
<1>5. /\ excs' \in [Occurrences -> Exc] /\ excs'[x] = g
      /\ \A y \in Occurrences : y # x => excs'[y] = excs[y]
  BY <1>1, <1>2, <1>4 DEF Typed
<1>6. /\ d' \in Dispatch /\ d'.code = "FORCED" /\ d'.exc = x /\ d'.pos = Len(stack) /\ ~d'.fault
  <2>1. d' = [code |-> "FORCED", exc |-> x, pos |-> Len(stack), target |-> 0,
              info |-> <<0, 0, 0>>, fault |-> FALSE]
    BY <1>1 DEF Idle
  <2> QED BY <1>2, <2>1, Constants DEF Dispatch, Codes
<1>7. NoneAbove(g, o, 0)
  BY <1>3, <1>4, SameObject
<1>8. Flight(excs[d.exc], origin[d.exc])'
  BY <1>1, <1>3, <1>4, <1>5, <1>6, <1>7 DEF Flight, Search
<1>9. DispatchInv'
  BY <1>2, <1>6, <1>8 DEF DispatchInv
<1> QED BY <1>1, <1>2, <1>4, <1>5, <1>6, <1>9, VisitInv DEF Typed

-----------------------------------------------------------------------------
LEMMA InitIInv == Init => IInv
<1> SUFFICES ASSUME Init  PROVE IInv
  OBVIOUS
<1>1. PICK f \in Roots : stack = <<NewFrame(f)>>
  BY DEF Init
<1>2. NewFrame(f) \in Frame /\ NewFrame(f).pad = 0 /\ NewFrame(f).rax = 0
  BY ProgramAssumption DEF NewFrame, Frame
<1>3. /\ stack \in Seq(Frame) /\ Len(stack) = 1 /\ DOMAIN stack = {1} /\ stack[1] = NewFrame(f)
      /\ stack # <<>>
  BY <1>1, <1>2
<1>4. Typed
  BY <1>3, Constants DEF Init, Typed, Walking
<1>5. Owned /\ Suspended /\ CleanupPads /\ \A i \in DOMAIN stack : FrameInv(i)
  BY <1>2, <1>3 DEF Init, Owned, Suspended, CleanupPads, AtPad, FrameInv, Walking
<1>6. mode = "program" /\ DispatchInv
  BY DEF Init, DispatchInv, Walking
<1> QED BY <1>4, <1>5, <1>6 DEF IInv

LEMMA NextIInv == IInv /\ [Next]_vars => IInv'
<1> SUFFICES ASSUME IInv, [Next]_vars  PROVE IInv'
  OBVIOUS
<1>1. CASE Program
  <2>1. Terminate => IInv'
    BY EndInv DEF Terminate
  <2> QED BY <1>1, <2>1, CallInv, ReturnInv, RaiseInv, ReraiseInv, FaultInv, EnterRecordInv,
             FinishHandlerInv, ResumeInv DEF Program
<1>2. CASE Visit
  BY <1>2, SkipFrameInv, TranslateInv, Phase1Inv, CleanupInv, ForcedInv, CollideInv, PassUnwoundInv,
     TargetUnwindInv DEF Visit
<1>3. CASE Finish
  <2>1. EndOfStack \/ ContinueFault \/ Abort => IInv'
    BY EndInv DEF EndOfStack, ContinueFault, Abort, AtEnd
  <2> QED BY <1>3, <2>1, Unwind_ForcedUnwindInv DEF Finish
<1>4. CASE UNCHANGED vars
  <2>1. /\ UNCHANGED <<image, mode, stack, excs, current, d, origin>>
    BY <1>4 DEF vars
  <2>2. Typed' /\ Suspended' /\ CleanupPads' /\ (mode' = "exited" => Exited')
    BY <2>1 DEF IInv, Typed, Walking, Suspended, CleanupPads, AtPad, Exited, InUse
  <2>3. mode' # "exited" => Owned' /\ \A i \in DOMAIN stack' : FrameInv(i)'
    BY <2>1 DEF IInv, Owned, Held, Walking, FrameInv
  <2>4. DispatchInv'
    <3>1. Flight(excs[d.exc], origin[d.exc])' <=> Flight(excs[d.exc], origin[d.exc])
      BY <2>1 DEF Flight, Search, Unwinding, Colliding, Top
    <3>2. /\ Untranslated' <=> Untranslated
          /\ FaultSafe(Top)' <=> FaultSafe(Top)
      BY <2>1 DEF Untranslated, Free, FaultSafe, Top
    <3> QED BY <2>1, <3>1, <3>2 DEF IInv, DispatchInv, Walking
  <2> QED BY <2>2, <2>3, <2>4 DEF IInv
<1> QED BY <1>1, <1>2, <1>3, <1>4 DEF Next

LEMMA InvariantHolds == Spec => []IInv
BY InitIInv, NextIInv, PTL DEF Spec

(***************************************************************************)
(* What a landing pad finds in the current exception buffer. A frame that  *)
(* runs a cleanup says that one has run, so while none has, the buffer is  *)
(* still what the personality routine has written last for the object.     *)
(***************************************************************************)
InCleanup(frame) == frame.pad # 0 /\ frame.rec # 0 /\ ~InHandler(frame)

\* What has run for an object.
Records == Seq(Int \X Int \X Int)

BufferInv ==
  /\ cleaned \in [Occurrences -> Records]
  /\ \A i \in DOMAIN stack :
       AtPad(i) /\ cleaned[stack[i].rax] = <<>> => current = stack[i].rax
  /\ \A i \in DOMAIN stack :
       (mode = "program" \/ i < Len(stack)) /\ InCleanup(stack[i])
         => cleaned[stack[i].rax] # <<>>
  /\ mode = "unwind" \/ (mode = "dispatch" /\ d.code = "UNWIND") =>
       (cleaned[d.exc] = <<>> => current = d.exc)

LEMMA PastLemma ==
  /\ <<>> \in Records
  /\ \A s \in Records : \A a, b, c \in Int :
       Append(s, <<a, b, c>>) \in Records /\ Append(s, <<a, b, c>>) # <<>>
BY DEF Records

LEMMA Lower == \A n \in Nat : \A i \in 1 .. n - 1 : i \in 1 .. n /\ i # n /\ i < n
OBVIOUS

\* Steps that leave the frames and what has run as they are.
LEMMA BufferKept ==
  ASSUME IInv, BufferInv, UNCHANGED <<stack, cleaned>>, mode' # "program",
         mode' = "unwind" \/ (mode' = "dispatch" /\ d'.code = "UNWIND") =>
           (cleaned[d'.exc] = <<>> => current' = d'.exc)
  PROVE  BufferInv'
BY DEF BufferInv, AtPad, InCleanup, InHandler

\* Steps that keep every frame below the top, which then is no new pad.
LEMMA BufferBelow ==
  ASSUME IInv, BufferInv, NEW n \in Nat, DOMAIN stack' = 1 .. n, Len(stack') = n,
         n <= Len(stack),
         cleaned' \in [Occurrences -> Records],
         \A i \in 1 .. n - 1 : stack'[i] = stack[i] /\ (InCleanup(stack[i]) => cleaned'[stack[i].rax] # <<>>),
         mode' = "program" /\ stack'[n].pad # 0 /\ stack'[n].rec = 0 /\ cleaned'[stack'[n].rax] = <<>>
           => current' = stack'[n].rax,
         mode' = "program" /\ InCleanup(stack'[n]) => cleaned'[stack'[n].rax] # <<>>,
         mode' = "unwind" \/ (mode' = "dispatch" /\ d'.code = "UNWIND") =>
           (cleaned'[d'.exc] = <<>> => current' = d'.exc)
  PROVE  BufferInv'
<1>1. \A i \in 1 .. n : i = n \/ i \in 1 .. n - 1
  OBVIOUS
<1>2. ASSUME NEW i \in 1 .. n, AtPad(i)'
      PROVE  i = n /\ mode' = "program" /\ stack'[n].pad # 0 /\ stack'[n].rec = 0
  BY <1>2 DEF AtPad
<1>3. \A i \in 1 .. n : InCleanup(stack[i])' <=> InCleanup(stack'[i])
  BY DEF InCleanup, InHandler
<1>4. \A i \in 1 .. n : (mode' = "program" \/ i < n) /\ InCleanup(stack'[i]) => cleaned'[stack'[i].rax] # <<>>
  BY <1>1
<1> QED BY <1>2, <1>3, <1>4 DEF BufferInv

\* A frame's object is not the one raised anew.
LEMMA BufferRaised ==
  ASSUME IInv, BufferInv, mode = "program", NEW x \in Occurrences, NEW a \in Int, stack' = At(a),
         \A i \in 1 .. Len(stack) - 1 : stack[i].rax # x,
         cleaned' = cleaned \/ cleaned' = [cleaned EXCEPT ![x] = <<>>],
         mode' = "dispatch", d'.code # "UNWIND"
  PROVE  BufferInv'
<1>0. Typed /\ Owned
  BY DEF IInv
<1>1. /\ Len(stack) \in Nat \ {0} /\ DOMAIN stack = 1 .. Len(stack)
      /\ Len(stack') = Len(stack) /\ DOMAIN stack' = 1 .. Len(stack)
      /\ \A i \in 1 .. Len(stack) : i # Len(stack) => stack'[i] = stack[i]
  BY <1>0, TopFrame, AtLemma
<1>2. cleaned' \in [Occurrences -> Records]
  BY PastLemma DEF BufferInv
<1>3. ASSUME NEW i \in 1 .. Len(stack) - 1
      PROVE  stack'[i] = stack[i] /\ (InCleanup(stack[i]) => cleaned'[stack[i].rax] # <<>>)
  <2>1. i \in DOMAIN stack /\ i # Len(stack) /\ i < Len(stack) /\ stack[i].rax # x
    BY <1>1, <1>3, Lower
  <2>2. InCleanup(stack[i]) => stack[i].rax \in Occurrences /\ cleaned[stack[i].rax] # <<>>
    BY <1>0, <2>1 DEF InCleanup, BufferInv, Owned, Held
  <2>3. stack'[i] = stack[i]
    BY <1>1, <2>1
  <2> QED BY <2>1, <2>2, <2>3 DEF BufferInv
<1> DEFINE m == Len(stack)
<1>4. m \in Nat /\ m <= Len(stack) /\ DOMAIN stack' = 1 .. m /\ Len(stack') = m
  <2>1. \A k \in Nat \ {0} : k \in Nat /\ k <= k
    OBVIOUS
  <2> QED BY ONLY <1>1, <2>1
<1>5. \A i \in 1 .. m - 1 : stack'[i] = stack[i] /\ (InCleanup(stack[i]) => cleaned'[stack[i].rax] # <<>>)
  BY <1>3
<1>6. mode' # "program" /\ ~(mode' = "unwind" \/ (mode' = "dispatch" /\ d'.code = "UNWIND"))
  OBVIOUS
<1> HIDE DEF m
<1> QED BY <1>2, <1>4, <1>5, <1>6, BufferBelow

LEMMA BufferProgram ==
  ASSUME IInv, BufferInv, Program
  PROVE  BufferInv'
<1> DEFINE n == Len(stack)
<1>0. Typed /\ mode = "program" /\ mode # "exited" /\ Owned /\ Suspended /\ cleaned \in [Occurrences -> Records]
  BY DEF IInv, BufferInv, Program, Call, Return, Raise, Reraise, Fault, EnterRecord, FinishHandler,
         Terminate, Unwind_Resume
<1>1. /\ n \in Nat \ {0} /\ DOMAIN stack = 1 .. n /\ stack \in Seq(Frame) /\ Top = stack[n]
      /\ Top \in Frame
  BY <1>0, TopFrame DEF Typed, Top
<1>2. \A i \in 1 .. n : InCleanup(stack[i]) => stack[i].rax \in Occurrences /\ cleaned[stack[i].rax] # <<>>
  BY <1>0, <1>1 DEF BufferInv, InCleanup, Owned, Held
<1>3. CASE Call
  <2>1. PICK o \in Reachable("call") : stack' = Append(At(o.at), NewFrame(o.arg))
    BY <1>3 DEF Call
  <2>2. o.at \in Int
    BY <1>0, <2>1, ReachableOp
  <2>3. /\ Len(At(o.at)) = n /\ At(o.at) \in Seq(Frame) /\ DOMAIN At(o.at) = 1 .. n
        /\ \A i \in 1 .. n : i # n => At(o.at)[i] = stack[i]
        /\ At(o.at)[n].fn = Top.fn /\ At(o.at)[n].pad = Top.pad
        /\ At(o.at)[n].rec = Top.rec /\ At(o.at)[n].rax = Top.rax
    BY <1>0, <1>1, <2>2, AtLemma
  <2>4. /\ Len(stack') = n + 1 /\ DOMAIN stack' = 1 .. n + 1 /\ stack'[n + 1].pad = 0
        /\ \A i \in 1 .. n : stack'[i] = At(o.at)[i]
    <3> DEFINE s == At(o.at)
               x == NewFrame(o.arg)
    <3>0. o.arg \in Funs
      BY <1>0, <1>3, <2>1, ReachableOp, ProgramAssumption
    <3>1. x.pad = 0 /\ stack' = Append(s, x) /\ x \in Frame
      BY <2>1, <3>0, ProgramAssumption DEF NewFrame, Frame
    <3>2. s \in Seq(Frame) /\ Len(s) = n /\ n \in Nat
      BY <1>1, <2>3
    <3> HIDE DEF s, x, n
    <3>3. /\ Len(stack') = n + 1 /\ DOMAIN stack' = 1 .. n + 1 /\ stack'[n + 1].pad = 0
          /\ \A i \in 1 .. n : stack'[i] = s[i]
      BY <3>1, <3>2
    <3> QED BY <3>3 DEF s
  <2>5. \A i \in 1 .. n : /\ stack'[i].fn = stack[i].fn /\ stack'[i].pad = stack[i].pad
                          /\ stack'[i].rec = stack[i].rec /\ stack'[i].rax = stack[i].rax
    BY <1>1, <2>3, <2>4
  <2>6. \A i \in 1 .. n : InCleanup(stack'[i]) <=> InCleanup(stack[i])
    BY <2>5 DEF InCleanup, InHandler
  <2>7. \A i \in 1 .. n + 1 : i \in 1 .. n \/ i = n + 1
    BY <1>1
  <2>8. \A i \in 1 .. n + 1 : AtPad(i)' => i = n + 1
    BY <2>4 DEF AtPad
  <2>9. UNCHANGED <<mode, cleaned>>
    BY <1>3 DEF Call
  <2>10. \A i \in 1 .. n + 1 : InCleanup(stack[i])' => InCleanup(stack'[i]) /\ i # n + 1
    BY <2>4 DEF InCleanup, InHandler
  <2>11. \A i \in 1 .. n + 1 : InCleanup(stack[i])' => cleaned'[stack'[i].rax] # <<>>
    BY <1>2, <2>5, <2>6, <2>7, <2>9, <2>10
  <2>12. \A i \in 1 .. n + 1 : ~AtPad(i)'
    <3>1. n + 1 \in 1 .. n + 1
      BY <1>1
    <3> QED BY <2>4, <2>8, <3>1 DEF AtPad
  <2> QED BY <1>0, <2>4, <2>9, <2>11, <2>12 DEF BufferInv
<1>4. CASE Return \/ FinishHandler
  <2>1. Leave /\ cleaned' = cleaned
    BY <1>4 DEF Return, FinishHandler
  <2>2. CASE n = 1 /\ mode' = "exited" /\ stack' = stack
    <3>1. /\ n \in Nat /\ n <= Len(stack) /\ DOMAIN stack' = 1 .. n /\ Len(stack') = n
          /\ \A i \in 1 .. n - 1 : FALSE
      BY <1>1, <2>2
    <3>2. cleaned' \in [Occurrences -> Records]
      BY <1>0, <2>1
    <3>3. mode' # "program" /\ mode' # "unwind" /\ mode' # "dispatch"
      BY <2>2
    <3> HIDE DEF n
    <3> QED BY <3>1, <3>2, <3>3, BufferBelow
  <2>3. CASE n > 1 /\ mode' = mode /\ stack' = SubSeq(stack, 1, n - 1)
    <3>1. /\ Len(stack') = n - 1 /\ DOMAIN stack' = 1 .. n - 1 /\ n - 1 \in Nat \ {0}
          /\ \A i \in 1 .. n - 1 : stack'[i] = stack[i] /\ i \in 1 .. n
      BY <1>1, <2>3
    <3>2. n - 1 \in 1 .. n - 1
      BY <3>1
    <3>3. ~(stack'[n - 1].pad # 0 /\ stack'[n - 1].rec = 0)
      BY <1>0, <3>1, <3>2 DEF Suspended
    <3>4. \A i \in 1 .. n - 1 : InCleanup(stack'[i]) => cleaned'[stack'[i].rax] # <<>>
      BY <1>2, <2>1, <3>1
    <3>5. \A i \in 1 .. (n - 1) - 1 : i \in 1 .. n - 1
      BY <3>1
    <3>6. n - 1 \in Nat /\ n - 1 <= n
      BY <1>1, <3>1
    <3> DEFINE m == n - 1
    <3>8. /\ m \in Nat /\ m <= Len(stack) /\ DOMAIN stack' = 1 .. m /\ Len(stack') = m
          /\ ~(stack'[m].pad # 0 /\ stack'[m].rec = 0)
          /\ InCleanup(stack'[m]) => cleaned'[stack'[m].rax] # <<>>
      BY <3>1, <3>2, <3>3, <3>4, <3>6
    <3>9. \A i \in 1 .. m - 1 : stack'[i] = stack[i] /\ (InCleanup(stack[i]) => cleaned'[stack[i].rax] # <<>>)
      BY <1>2, <2>1, <3>1, <3>5
    <3>10. cleaned' \in [Occurrences -> Records]
      BY <1>0, <2>1
    <3> HIDE DEF m
    <3>11. mode' = "program" /\ mode' # "unwind" /\ mode' # "dispatch"
      BY <1>0, <2>3
    <3> QED BY <3>8, <3>9, <3>10, <3>11, BufferBelow
  <2> QED BY <1>1, <2>1, <2>2, <2>3 DEF Leave
<1>5. CASE Raise
  <2>1. PICK o \in Reachable("raise") :
          Unwind_RaiseException(CHOOSE x \in Free : TRUE, o.arg[1], o.arg[2], o.at)
    BY <1>5 DEF Raise
  <2> DEFINE x == CHOOSE x \in Free : TRUE
  <2>2. x \in Occurrences /\ excs[x] = NoExc
    BY <1>5 DEF Raise, Free
  <2> HIDE DEF x
  <2>3. \A i \in 1 .. n - 1 : stack[i].rax # x
    <3>1. \A i \in 1 .. n : stack[i].rax # x
      BY <1>0, <1>1, <2>2, Constants DEF Owned, Held, NoExc
    <3> QED BY <1>1, <3>1, Lower
  <2>4. o.at \in Int
    BY <1>0, <2>1, ReachableOp
  <2>5. /\ stack' = At(o.at) /\ mode' = "dispatch" /\ cleaned' = [cleaned EXCEPT ![x] = <<>>]
        /\ d' = [Idle EXCEPT !.code = "THROW", !.exc = x, !.pos = n, !.fault = FALSE]
    BY <2>1 DEF Unwind_RaiseException, RaiseException, x
  <2>6. d'.code # "UNWIND"
    BY <2>5 DEF Idle
  <2> QED BY <1>0, <2>2, <2>3, <2>4, <2>5, <2>6, BufferRaised
<1>6. CASE Reraise
  <2>1. PICK o \in Reachable("reraise") :
          Unwind_RaiseException(Top.rax, excs[Top.rax].class, excs[Top.rax].id, o.at)
    BY <1>6 DEF Reraise
  <2>2. Top.rax \in Occurrences /\ \A i \in 1 .. n - 1 : stack[i].rax # Top.rax
    <3>1. Top.rax # 0 /\ n \in DOMAIN stack
      BY <1>1, <1>6 DEF Reraise
    <3>2. Top.rax \in Occurrences
      BY <1>0, <1>1, <3>1 DEF Owned, Held
    <3>3. ASSUME NEW i \in 1 .. n - 1  PROVE stack[i].rax # Top.rax
      <4>1. i \in DOMAIN stack /\ i < n
        BY <1>1, <3>3, Lower
      <4> QED BY <1>0, <1>1, <3>1, <4>1 DEF Owned
    <3> QED BY <3>2, <3>3
  <2>3. o.at \in Int
    BY <1>0, <2>1, ReachableOp
  <2>4. /\ stack' = At(o.at) /\ mode' = "dispatch" /\ cleaned' = [cleaned EXCEPT ![Top.rax] = <<>>]
        /\ d' = [Idle EXCEPT !.code = "THROW", !.exc = Top.rax, !.pos = n, !.fault = FALSE]
    BY <2>1 DEF Unwind_RaiseException, RaiseException
  <2>5. d'.code # "UNWIND"
    BY <2>4 DEF Idle
  <2> QED BY <1>0, <2>2, <2>3, <2>4, <2>5, BufferRaised
<1>7. CASE Fault
  <2>1. PICK o \in Reachable("fault") : stack' = At(o.at) /\ RaiseException(o.arg, 0, TRUE)
    BY <1>7 DEF Fault
  <2>2. o.at \in Int /\ o.arg \notin {"THROW", "UNWIND", "FORCED"}
    BY <1>0, <2>1, ReachableOp, ProgramAssumption
  <2>3. d'.code # "UNWIND"
    BY <2>1, <2>2 DEF RaiseException, Idle
  <2>4. PICK x \in Occurrences : excs[x] = NoExc
    BY <1>7 DEF Fault, Free
  <2>5. \A i \in 1 .. n - 1 : stack[i].rax # x
    <3>1. \A i \in 1 .. n : stack[i].rax # x
      BY <1>0, <1>1, <2>4, Constants DEF Owned, Held, NoExc
    <3> QED BY <1>1, <3>1, Lower
  <2>6. mode' = "dispatch" /\ cleaned' = cleaned
    BY <1>7 DEF Fault
  <2> QED BY <1>0, <2>1, <2>2, <2>3, <2>4, <2>5, <2>6, BufferRaised
<1>8. CASE EnterRecord
  <2> DEFINE r == NextRecord(Top)
  <2>1. r \in NextRecords(Top) /\ r \in Nat
    BY <1>1, <1>8, NextRecordLemma DEF EnterRecord
  <2>2. r # 0
    BY <1>1, <2>1 DEF NextRecords, Frame
  <2>3. stack' = [stack EXCEPT ![n] = [Top EXCEPT !.rec = r]]
    BY <1>8 DEF EnterRecord, Top
  <2>4. cleaned' = IF InHandler(stack'[n]) THEN cleaned
                   ELSE [cleaned EXCEPT ![Top.rax] = Append(@, <<n, Top.pad, r>>)]
    BY <1>8 DEF EnterRecord
  <2>5. Top.rax \in Occurrences /\ Top.pad \in Int
    <3>1. Top.pad # 0 /\ n \in DOMAIN stack /\ Top.pad \in Int
      BY <1>1, <1>8 DEF EnterRecord, Frame
    <3>2. Top.rax # 0
      BY <1>0, <1>1, <3>1 DEF Owned
    <3> QED BY <1>0, <1>1, <3>1, <3>2 DEF Owned, Held
  <2> HIDE DEF r
  <2>6. /\ Len(stack') = n /\ DOMAIN stack' = 1 .. n
        /\ \A i \in 1 .. n - 1 : stack'[i] = stack[i] /\ i \in 1 .. n
        /\ stack'[n].rec = r /\ stack'[n].rax = Top.rax
    BY <1>1, <2>1, <2>3 DEF Frame
  <2>7. n \in Int /\ r \in Int
    BY <1>1, <2>1
  <2>8. Append(cleaned[Top.rax], <<n, Top.pad, r>>) \in Records \ {<<>>}
    BY <1>0, <2>5, <2>7, PastLemma
  <2>9. /\ cleaned' \in [Occurrences -> Records]
        /\ \A x \in Occurrences : cleaned[x] # <<>> => cleaned'[x] # <<>>
        /\ ~InHandler(stack'[n]) => cleaned'[Top.rax] # <<>>
    BY <1>0, <2>4, <2>5, <2>8
  <2>10. stack'[n].rec # 0
    BY <2>2, <2>6
  <2>11. mode' = "program"
    BY <1>0, <1>8 DEF EnterRecord
  <2>12. InCleanup(stack'[n]) => cleaned'[stack'[n].rax] # <<>>
    BY <2>6, <2>9 DEF InCleanup
  <2>13. n \in Nat /\ n <= n
    BY <1>1
  <2>14. \A i \in 1 .. n - 1 : stack'[i] = stack[i] /\ (InCleanup(stack[i]) => cleaned'[stack[i].rax] # <<>>)
    BY <1>2, <2>6, <2>9
  <2> QED BY <2>6, <2>9, <2>10, <2>11, <2>12, <2>13, <2>14, BufferBelow
<1>9. CASE Terminate
  BY <1>9, BufferKept DEF Terminate
<1>10. CASE Unwind_Resume
  <2> DEFINE a == Top.pad + Len(Chain[Top.fn][Top.pad]) + 1
  <2>1. stack' = At(a) /\ UNCHANGED <<current, cleaned>> /\ mode' = "unwind"
    BY <1>10 DEF Unwind_Resume
  <2>2. d'.exc = Top.rax /\ d'.code = "THROW"
    BY <1>10 DEF Unwind_Resume, Idle
  <2>3. Len(stack') = n /\ DOMAIN stack' = 1 .. n /\ \A i \in 1 .. n - 1 : stack'[i] = stack[i] /\ i \in 1 .. n
    BY <1>1, <2>1 DEF At
  <2>4. ASSUME cleaned[Top.rax] = <<>>  PROVE current = Top.rax
    <3>1. ~InHandler(Top) /\ Top.pad # 0 /\ n \in 1 .. n
      BY <1>1, <1>10 DEF Unwind_Resume
    <3>2. Top.rec = 0
      BY <1>1, <1>2, <2>4, <3>1 DEF InCleanup
    <3> QED BY <1>0, <1>1, <2>4, <3>1, <3>2 DEF BufferInv, AtPad
  <2>5. \A i \in 1 .. n - 1 : InCleanup(stack[i]) => cleaned'[stack[i].rax] # <<>>
    BY <1>2, <2>1, <2>3
  <2>6. n \in Nat /\ n <= Len(stack) /\ cleaned' \in [Occurrences -> Records]
    BY <1>0, <1>1, <2>1
  <2>7. mode' = "unwind" \/ (mode' = "dispatch" /\ d'.code = "UNWIND") =>
          (cleaned'[d'.exc] = <<>> => current' = d'.exc)
    BY <2>1, <2>2, <2>4
  <2> QED BY <2>1, <2>3, <2>5, <2>6, <2>7, BufferBelow
<1> QED BY <1>3, <1>4, <1>5, <1>6, <1>7, <1>8, <1>9, <1>10 DEF Program

LEMMA BufferVisit ==
  ASSUME IInv, BufferInv, Visit
  PROVE  BufferInv'
<1> DEFINE n == Len(stack)
<1>0. Typed /\ Walking /\ mode # "exited" /\ Owned /\ cleaned \in [Occurrences -> Records]
  BY DEF IInv, BufferInv, Visit, SkipFrame, Translate, Phase1, Cleanup, Forced, Collide, PassUnwound,
         TargetUnwind, Visiting, Walking
<1>1. n \in Nat \ {0} /\ DOMAIN stack = 1 .. n /\ stack \in Seq(Frame) /\ d \in Dispatch
  BY <1>0, TopFrame DEF Typed
<1>2. ASSUME UNCHANGED <<mode, stack, current, cleaned>>, ContinueSearch  PROVE BufferInv'
  <2>1. d'.code = d.code /\ d'.exc = d.exc
    BY <1>1, <1>2 DEF ContinueSearch, Dispatch
  <2> QED BY <1>0, <1>2, <2>1, BufferKept DEF BufferInv, Walking
<1>3. CASE SkipFrame \/ PassUnwound
  BY <1>2, <1>3 DEF SkipFrame, PassUnwound
<1>4. CASE Translate
  <2>1. CASE map_SEH(d.code) = 0
    BY <1>2, <1>4, <2>1 DEF Translate
  <2>2. CASE map_SEH(d.code) # 0
    <3> DEFINE x == CHOOSE x \in Free : TRUE
    <3>1. x \in Occurrences /\ excs[x] = NoExc
      <4>1. Free # {}
        BY <1>0, <1>4 DEF IInv, DispatchInv, Translate, Visiting, Untranslated, Flight, Search, Unwinding,
                          Colliding, GCC
      <4> QED BY <4>1 DEF Free
    <3> HIDE DEF x
    <3>2. \A i \in 1 .. n : stack[i].rax # x
      <4>1. x # 0 /\ ~Held(x)
        BY <3>1, Constants DEF Held, NoExc
      <4> QED BY <1>0, <1>1, <4>1 DEF Owned
    <3>3. /\ cleaned' = [cleaned EXCEPT ![x] = <<>>] /\ stack' = stack /\ mode' = "dispatch"
          /\ d' = [d EXCEPT !.code = "THROW", !.exc = x]
      BY <1>4, <2>2 DEF Translate, Visiting, x
    <3>4. d'.code = "THROW"
      BY <1>1, <3>3 DEF Dispatch
    <3>5. \A i \in 1 .. n - 1 : i \in 1 .. n /\ (InCleanup(stack[i]) => cleaned'[stack[i].rax] # <<>>)
      <4>1. ASSUME NEW i \in 1 .. n - 1, InCleanup(stack[i])  PROVE cleaned'[stack[i].rax] # <<>>
        <5>1. i \in 1 .. n /\ i < n
          BY <1>1
        <5>2. stack[i].rax \in Occurrences /\ cleaned[stack[i].rax] # <<>> /\ stack[i].rax # x
          BY <1>0, <1>1, <3>2, <4>1, <5>1 DEF BufferInv, InCleanup, Owned, Held
        <5> QED BY <1>0, <3>3, <5>2
      <4> QED BY <1>1, <4>1
    <3>6. cleaned' \in [Occurrences -> Records]
      BY <1>0, <3>3, PastLemma
    <3> QED BY <1>1, <3>3, <3>4, <3>5, <3>6, BufferBelow DEF AtPad
  <2> QED BY <2>1, <2>2
<1>5. ASSUME UNCHANGED <<stack, cleaned>>, mode' \in {"dispatch", "unwind"}, d'.exc = d.exc, current' = d.exc
      PROVE  BufferInv'
  BY <1>5, BufferKept
<1>6. CASE Phase1
  <2> DEFINE action == personality_body(d.pos, d.exc, FALSE)
             info == setup_to_install(d.pos, action)
  <2>1. CASE action.kind \in {"nothing", "cleanup"}
    BY <1>2, <1>6, <2>1 DEF Phase1
  <2>2. CASE action.kind \notin {"nothing", "cleanup"}
    <3>1. current' = d.exc /\ UNCHANGED <<stack, cleaned>> /\ RtlUnwindEx(info)
      BY <1>6, <2>2 DEF Phase1, Setup_Current_Excep
    <3>2. d'.exc = d.exc /\ mode' = "unwind"
      BY <1>1, <3>1 DEF RtlUnwindEx, Dispatch
    <3> QED BY <1>5, <3>1, <3>2
  <2> QED BY <2>1, <2>2
<1>7. ASSUME NEW force \in BOOLEAN, Phase2(force), UNCHANGED <<stack, cleaned>>  PROVE BufferInv'
  <2> DEFINE action == personality_body(d.pos, d.exc, force)
  <2>1. CASE action.kind = "nothing"
    BY <1>2, <1>7, <2>1 DEF Phase2
  <2>2. CASE action.kind # "nothing"
    <3>1. /\ current' = d.exc /\ mode' = "dispatch"
          /\ d' = [d EXCEPT !.code = "UNWIND", !.pos = Len(stack), !.target = 0,
                            !.info = setup_to_install(d.pos, action)]
      BY <1>7, <2>2 DEF Phase2, Setup_Current_Excep
    <3>2. d'.exc = d.exc
      BY <1>1, <3>1 DEF Dispatch
    <3> QED BY <1>5, <1>7, <3>1, <3>2
  <2> QED BY <2>1, <2>2
<1>8. CASE Cleanup \/ Forced
  BY <1>7, <1>8 DEF Cleanup, Forced
<1>9. CASE Collide
  <2>1. CASE d.info[1] = d.pos
    <3>1. UNCHANGED <<stack, current, cleaned>> /\ mode = "dispatch" /\ d.code = "UNWIND" /\ RtlUnwindEx(d.info)
      BY <1>9, <2>1 DEF Collide, Visiting
    <3>2. d'.exc = d.exc /\ mode' = "unwind"
      BY <1>1, <3>1 DEF RtlUnwindEx, Dispatch
    <3> QED BY <3>1, <3>2, BufferKept DEF BufferInv
  <2>2. CASE d.info[1] # d.pos
    BY <1>2, <1>9, <2>2 DEF Collide
  <2> QED BY <2>1, <2>2
<1>10. CASE TargetUnwind
  <2> DEFINE p == d.pos
  <2>1. /\ mode = "unwind" /\ p \in 1 .. n /\ mode' = "program" /\ UNCHANGED <<current, cleaned>>
        /\ stack' = [SubSeq(stack, 1, p) EXCEPT
                       ![p] = [@ EXCEPT !.at = d.info[2], !.pad = d.info[2], !.rec = 0,
                                        !.rax = d.exc, !.rdx = d.info[3]]]
    BY <1>0, <1>1, <1>10 DEF TargetUnwind, Visiting, Typed
  <2>2. DOMAIN SubSeq(stack, 1, p) = 1 .. p /\ \A i \in 1 .. p : SubSeq(stack, 1, p)[i] = stack[i] /\ stack[i] \in Frame
    BY <1>1, <2>1
  <2>3. Len(SubSeq(stack, 1, p)) = p /\ SubSeq(stack, 1, p) \in Seq(Frame)
    BY <1>1, <2>1
  <2>4. /\ DOMAIN stack' = 1 .. p /\ Len(stack') = p
        /\ \A i \in 1 .. p - 1 : stack'[i] = stack[i] /\ i \in 1 .. n /\ i < n
    <3>1. DOMAIN stack' = DOMAIN SubSeq(stack, 1, p) /\ \A i \in 1 .. p : i # p => stack'[i] = SubSeq(stack, 1, p)[i]
      BY <2>1, <2>2
    <3>2. Len(stack') = p
      BY <2>1, <2>2, <3>1
    <3>3. p \in Nat /\ \A i \in 1 .. p - 1 : i \in 1 .. p /\ i # p /\ i \in 1 .. n /\ i < n
      BY <1>1, <2>1
    <3> QED BY <2>2, <3>1, <3>2, <3>3
  <2>5. stack'[p].rec = 0 /\ stack'[p].rax = d.exc
    <3> DEFINE top == stack[p]
    <3>1. top \in Frame /\ SubSeq(stack, 1, p)[p] = top /\ p \in 1 .. p
      BY <2>1, <2>2
    <3> HIDE DEF top
    <3>2. stack'[p] = [top EXCEPT !.at = d.info[2], !.pad = d.info[2], !.rec = 0,
                                  !.rax = d.exc, !.rdx = d.info[3]]
      BY <2>1, <2>2, <3>1
    <3> QED BY <3>1, <3>2 DEF Frame
  <2>6. \A i \in 1 .. p - 1 : InCleanup(stack[i]) => cleaned'[stack[i].rax] # <<>>
    BY <1>1, <2>1, <2>4 DEF BufferInv
  <2>7. cleaned'[stack'[p].rax] = <<>> => current' = stack'[p].rax
    BY <2>1, <2>5 DEF BufferInv
  <2>8. ~InCleanup(stack'[p])
    BY <2>5 DEF InCleanup
  <2>9. p \in Nat /\ p <= n
    BY <1>1, <2>1
  <2> QED BY <1>0, <2>1, <2>4, <2>6, <2>7, <2>8, <2>9, BufferBelow
<1> QED BY <1>3, <1>4, <1>6, <1>8, <1>9, <1>10 DEF Visit

LEMMA BufferInvariant == Spec => []BufferInv
<1>1. Init => BufferInv
  <2> SUFFICES ASSUME Init  PROVE BufferInv
    OBVIOUS
  <2>1. PICK f \in Roots : stack = <<NewFrame(f)>>
    BY DEF Init
  <2>2. DOMAIN stack = {1} /\ stack[1].pad = 0 /\ stack[1].rec = 0
    BY <2>1 DEF NewFrame
  <2>3. cleaned \in [Occurrences -> Records] /\ mode = "program"
    BY PastLemma DEF Init
  <2> QED BY <2>2, <2>3 DEF BufferInv, AtPad, InCleanup
<1>2. IInv /\ BufferInv /\ [Next]_vars => BufferInv'
  <2> SUFFICES ASSUME IInv, BufferInv, [Next]_vars  PROVE BufferInv'
    OBVIOUS
  <2>1. CASE Finish
    <3>1. CASE Unwind_ForcedUnwind
      <4>1. UNCHANGED <<stack, cleaned, mode>> /\ mode = "dispatch" /\ d'.code = "FORCED"
        BY <3>1 DEF Unwind_ForcedUnwind, RaiseException, Idle
      <4> QED BY <4>1, BufferKept
    <3>2. CASE EndOfStack \/ ContinueFault \/ Abort
      BY <3>2, BufferKept DEF EndOfStack, ContinueFault, Abort
    <3> QED BY <2>1, <3>1, <3>2 DEF Finish
  <2>2. CASE UNCHANGED vars
    BY <2>2 DEF vars, BufferInv, AtPad, InCleanup, InHandler
  <2> QED BY <2>1, <2>2, BufferProgram, BufferVisit DEF Next
<1> QED BY <1>1, <1>2, InvariantHolds, PTL DEF Spec

(***************************************************************************)
(* A landing pad finds its own occurrence in the current exception buffer, *)
(* in any frame on the way whatever the cleanups before it raised, and in  *)
(* the handler's frame if none has run since the raise.                    *)
(***************************************************************************)
THEOREM PadSeesItsOccurrenceHolds == Spec => []PadSeesItsOccurrence
<1>1. IInv /\ BufferInv => PadSeesItsOccurrence
  BY DEF IInv, CleanupPads, BufferInv, PadSeesItsOccurrence
<1> QED BY <1>1, InvariantHolds, BufferInvariant, PTL

-----------------------------------------------------------------------------
\* Where the program says that record k of pad p is a handler of x.
LEMMA HandlerIn ==
  ASSUME NEW x, NEW i \in DOMAIN origin[x], NEW h
  PROVE  h \in HandlersAt(x, i) <=>
           /\ h \in {i} \X PadsOf(origin[x][i]) \X (1 .. LongestChain)
           /\ Takes(excs[x], origin[x][i], h[2], h[3])
BY DEF HandlersAt, Takes

LEMMA OnePadOf ==
  ASSUME Typed, NEW frame \in Frame, NEW p \in PadsOf(frame), NEW q \in PadsOf(frame)
  PROVE  p = q
<1>1. frame.fn \in Funs /\ frame.at \in Int
  BY DEF Frame
<1>2. CASE frame.fn \in DOMAIN image
  <2>1. PICK r \in Regions[frame.fn] : frame.at \in r.first .. r.last /\ r.pad = p
    BY DEF PadsOf
  <2>2. PICK s \in Regions[frame.fn] : frame.at \in s.first .. s.last /\ s.pad = q
    BY DEF PadsOf
  <2>3. image \in Images
    BY DEF Typed
  <2>4. r.pad = s.pad
    BY <1>1, <1>2, <2>1, <2>2, <2>3, OnePad
  <2> QED BY <2>1, <2>2, <2>4
<1>3. CASE frame.fn \notin DOMAIN image
  BY <1>1, <1>3, LayoutAssumption DEF PadsOf, Typed
<1> QED BY <1>2, <1>3

LEMMA LandedIsInnermost ==
  ASSUME IInv, FaultAssumption, NEW x \in Occurrences, NEW i \in DOMAIN stack,
         Landed(excs[x], origin[x], stack, i), InHandler(stack[i])
  PROVE  Handlers(x) # {} /\ Innermost(x) = <<i, stack[i].pad, stack[i].rec>>
<1> DEFINE e == excs[x]
           o == origin[x]
           p == stack[i].pad
           k == stack[i].rec
           r == stack[i].rdx
           chain == Chain[o[i].fn][p]
           best == <<i, p, k>>
<1>0. Typed /\ o \in Seq(Frame) /\ stack[i] \in Frame
  BY TopFrame DEF IInv, Typed
<1>1. /\ i \in DOMAIN o /\ DOMAIN o \subseteq Nat /\ stack[i].fn = o[i].fn /\ o[i] \in Frame /\ k \in Nat
      /\ o[i].fn \in Funs
  <2>1. i \in DOMAIN o /\ stack[i].fn = o[i].fn
    BY DEF Landed, Below
  <2>2. DOMAIN o \subseteq Nat /\ o[i] \in Frame
    BY <1>0, <2>1
  <2> QED BY <1>0, <2>1, <2>2 DEF Frame
<1>2. p \in PadsOf(o[i]) /\ (r # 0 => First(e, o[i], p, r)) /\ NoneAbove(e, o, i)
  BY DEF Landed, Chosen, Lands
<1>3. /\ k \in 1 .. Len(chain) /\ chain[k] = r /\ r # 0
      /\ \A l \in 1 .. k : chain[l] = r => l = k
  <2>1. k # 0 /\ Chain[stack[i].fn][p][k] # 0
    BY DEF InHandler
  <2>2. /\ k \in 0 .. Len(chain) /\ chain[k] \in {0, r}
        /\ r # 0 => \A l \in 1 .. k : chain[l] = r => l = k
    BY <1>1, <2>1 DEF Landed, Progress
  <2>3. chain[k] = r /\ r # 0
    BY <1>1, <2>1, <2>2
  <2> HIDE DEF k, chain
  <2>4. \A m \in Nat : m \in 0 .. Len(chain) /\ m # 0 => m \in 1 .. Len(chain)
    OBVIOUS
  <2> QED BY <1>1, <2>1, <2>2, <2>3, <2>4
<1>4. Takes(e, o[i], p, k) /\ \A l \in 1 .. k - 1 : ~Takes(e, o[i], p, l)
  <2>1. PICK m : /\ Takes(e, o[i], p, m) /\ chain[m] = r
                 /\ \A l \in 1 .. m - 1 : ~Takes(e, o[i], p, l)
    BY <1>2, <1>3 DEF First
  <2>2. chain \in Seq(Nat) /\ DOMAIN chain = 1 .. Len(chain)
    <3>1. \E s \in Regions[o[i].fn] : s.pad = p /\ s.pad # 0
      BY <1>2 DEF PadsOf
    <3> QED BY <1>1, <3>1, RegionsAssumption
  <2>3. m \in 1 .. Len(chain)
    BY <2>1, <2>2 DEF Takes
  <2>4. Takes(e, o[i], p, k)
    BY <1>3, <2>1, <2>2 DEF Takes
  <2> HIDE DEF k
  <2>5. m <= k
    BY <1>1, <1>3, <2>1, <2>3, <2>4
  <2>6. m = k
    BY <1>3, <2>1, <2>3, <2>5
  <2> QED BY <2>1, <2>6
<1>5. k \in 1 .. LongestChain
  <2>1. \E s \in Regions[o[i].fn] : s.pad = p /\ s.pad # 0
    BY <1>2 DEF PadsOf
  <2>2. Len(chain) \in 1 .. LongestChain
    BY <1>1, <2>1, RegionsAssumption
  <2> QED BY <1>3, <2>2 DEF LongestChain
<1>6. best \in Handlers(x)
  <2>1. best \in {i} \X PadsOf(o[i]) \X (1 .. LongestChain) /\ best[2] = p /\ best[3] = k
    BY <1>2, <1>5
  <2>2. best \in HandlersAt(x, i)
    BY <1>1, <1>4, <2>1, HandlerIn
  <2> QED BY <1>1, <2>2 DEF Handlers
<1>7. ASSUME NEW g \in Handlers(x)
      PROVE  g[1] < i \/ (g[1] = i /\ g[2] = p /\ g[3] \in Nat /\ g[3] >= k)
  <2>1. PICK j \in DOMAIN o : g \in HandlersAt(x, j)
    BY DEF Handlers
  <2>2. /\ g[1] = j /\ g[2] \in PadsOf(o[j]) /\ g[3] \in 1 .. LongestChain
        /\ Takes(e, o[j], g[2], g[3])
    BY <2>1, HandlerIn
  <2>3. ~(j > i)
    BY <1>2, <2>2 DEF NoneAbove, NoHandler
  <2>4. CASE j = i
    <3>1. g[2] = p
      BY <1>0, <1>1, <1>2, <2>2, <2>4, OnePadOf
    <3>2. g[3] \notin 1 .. k - 1
      BY <1>4, <2>2, <2>4, <3>1
    <3>3. g[3] \in Nat /\ g[3] >= k
      BY <1>1, <2>2, <3>2 DEF LongestChain
    <3> QED BY <2>2, <2>4, <3>1, <3>3
  <2> QED BY <1>1, <2>2, <2>3, <2>4
<1> DEFINE Least(h) == \A g \in Handlers(x) : g[1] < h[1] \/ (g[1] = h[1] /\ g[3] >= h[3])
<1>8. Least(best)
  BY <1>7
<1>9. ASSUME NEW h \in Handlers(x), Least(h)  PROVE h = best
  <2>1. PICK j \in DOMAIN o : h \in HandlersAt(x, j)
    BY DEF Handlers
  <2>2. h \in {j} \X PadsOf(o[j]) \X (1 .. LongestChain)
    BY <2>1, HandlerIn
  <2>3. h = <<h[1], h[2], h[3]>> /\ h[1] = j
    BY <2>2
  <2>4. best[1] < h[1] \/ (best[1] = h[1] /\ best[3] >= h[3])
    BY <1>6, <1>9
  <2>5. h[1] < i \/ (h[1] = i /\ h[2] = p /\ h[3] \in Nat /\ h[3] >= k)
    BY <1>7
  <2>6. best[1] = i /\ best[3] = k
    OBVIOUS
  <2> HIDE DEF best, k, p
  <2>7. h[1] = i /\ h[2] = p /\ h[3] = k
    BY <1>1, <2>3, <2>4, <2>5, <2>6
  <2> QED BY <2>3, <2>7 DEF best
<1>10. Innermost(x) = CHOOSE h \in Handlers(x) : Least(h)
  BY DEF Innermost
<1> HIDE DEF Least, best
<1>11. Innermost(x) \in Handlers(x) /\ Least(Innermost(x))
  BY <1>6, <1>8, <1>10
<1> QED BY <1>6, <1>9, <1>11 DEF best

(***************************************************************************)
(* A handler runs only for the occurrence raised in its region that no     *)
(* inner handler takes, provided that no instruction that faults is the    *)
(* first of a region or the first behind one.                              *)
(***************************************************************************)
THEOREM HandlerIsInnermostHolds ==
  ASSUME FaultAssumption
  PROVE  Spec => []HandlerIsInnermost
<1>1. IInv => HandlerIsInnermost
  <2> SUFFICES ASSUME IInv, NEW i \in DOMAIN stack, Running(i), InHandler(stack[i])
               PROVE  /\ Handlers(stack[i].rax) # {}
                      /\ Innermost(stack[i].rax) = <<i, stack[i].pad, stack[i].rec>>
    BY DEF HandlerIsInnermost
  <2>1. mode # "exited"
    BY DEF IInv, Exited, Running, InHandler
  <2>2. stack[i].rax \in Occurrences /\ Landed(excs[stack[i].rax], origin[stack[i].rax], stack, i)
    BY <2>1 DEF IInv, FrameInv, Owned, Held, Running
  <2> QED BY <2>2, LandedIsInnermost
<1> QED BY <1>1, InvariantHolds, PTL

-----------------------------------------------------------------------------
(***************************************************************************)
(* The cleanups. e is an object, o the stack that raised it, c a record:   *)
(* the depth of the frame, the landing pad and the place in its chain.     *)
(***************************************************************************)
\* A cleanup that no handler precedes, above or in the chain.
Owed(e, o, c) ==
  /\ Cleans(o[c[1]], c[2], c[3])
  /\ \A j \in DOMAIN o : j > c[1] => NoHandler(e, o[j])
  /\ \A l \in 1 .. c[3] - 1 : ~Takes(e, o[c[1]], c[2], l)

Due(e, o) == {c \in (DOMAIN o) \X Int \X (1 .. LongestChain) : Owed(e, o, c)}
DueOf(x) == Due(excs[x], origin[x])

\* Those of the frames above i and of the first k records of i.
Past(S, i, k) == {c \in S : c[1] > i \/ (c[1] = i /\ c[3] <= k)}

Ran(x) == {cleaned[x][m] : m \in DOMAIN cleaned[x]}

Ordered(s) ==
  \A m, n \in DOMAIN s : m < n =>
    s[m][1] > s[n][1] \/ (s[m][1] = s[n][1] /\ s[m][3] < s[n][3])

Kin(x) == Ordered(cleaned[x]) /\ Ran(x) \subseteq DueOf(x)

\* What a frame with x has run; one that landed for its cleanups resumes below it.
RanBy(x, i) ==
  /\ Ran(x) = Past(DueOf(x), i, stack[i].rec)
  /\ stack[i].rdx = 0 => excs[x].private[1] < i

RanAt(i) == stack[i].rax # 0 /\ stack[i].rax # d.exc => RanBy(stack[i].rax, i)

NoCleanup(frame) == \A p, k : ~Cleans(frame, p, k)

\* What has run of the object in flight.
RanInFlight(x, e, o) ==
  CASE mode = "dispatch" /\ d.code = "THROW" -> cleaned[x] = <<>>
    [] mode = "dispatch" /\ d.code = "FORCED" ->
         /\ cleaned[x] = <<>>
         /\ \A j \in DOMAIN o : j > d.pos => NoCleanup(o[j])
    [] mode = "unwind" /\ d.code = "THROW" ->
         \/ Top = o[Len(stack)] /\ Ran(x) = Past(Due(e, o), d.pos, 0)
         \/ /\ OutOfRegions(Top) /\ d.target < Len(stack)
            /\ Ran(x) = Past(Due(e, o), d.pos, IF d.pos = Len(stack) THEN LongestChain ELSE 0)
    [] OTHER -> e.private[1] < d.info[1] /\ Ran(x) = Past(Due(e, o), d.info[1], 0)

HistInv ==
  /\ cleaned \in [Occurrences -> Seq(Int \X Int \X Int)]
  /\ \A x \in Occurrences : InUse(x) => Kin(x)
  /\ mode # "exited" => \A i \in DOMAIN stack : RanAt(i)
  /\ Walking /\ d.exc # 0 => RanInFlight(d.exc, excs[d.exc], origin[d.exc])

-----------------------------------------------------------------------------
LEMMA PadFacts ==
  ASSUME NEW frame \in Frame, NEW p \in PadsOf(frame)
  PROVE  /\ Chain[frame.fn][p] \in Seq(Nat) /\ Len(Chain[frame.fn][p]) \in 1 .. LongestChain
         /\ DOMAIN Chain[frame.fn][p] = 1 .. Len(Chain[frame.fn][p])
         /\ p \in Int /\ p # 0 /\ DOMAIN Chain[frame.fn][p] \subseteq 1 .. LongestChain
<1>1. PICK r \in Regions[frame.fn] : r.pad = p /\ p # 0
  BY DEF PadsOf
<1>2. /\ Chain[frame.fn][p] \in Seq(Nat) /\ Len(Chain[frame.fn][p]) \in 1 .. LongestChain
      /\ p \in Int
  BY <1>1, RegionsAssumption DEF Frame
<1> QED BY <1>1, <1>2 DEF LongestChain

\* A handler innermost exists if there is any.
LEMMA InnermostLemma ==
  ASSUME Typed, NEW x \in Occurrences, Handlers(x) # {}
  PROVE  /\ Innermost(x) \in Handlers(x)
         /\ \A g \in Handlers(x) :
              g[1] < Innermost(x)[1] \/ (g[1] = Innermost(x)[1] /\ g[3] >= Innermost(x)[3])
<1> DEFINE o == origin[x]
           depths == {Len(o) - g[1] : g \in Handlers(x)}
<1>1. o \in Seq(Frame) /\ DOMAIN o = 1 .. Len(o) /\ Len(o) \in Nat
  BY DEF Typed
<1>2. \A g \in Handlers(x) : g[1] \in 1 .. Len(o) /\ g[3] \in Nat
  <2> SUFFICES ASSUME NEW g \in Handlers(x)  PROVE g[1] \in 1 .. Len(o) /\ g[3] \in Nat
    OBVIOUS
  <2>1. PICK i \in DOMAIN o : g \in HandlersAt(x, i)
    BY DEF Handlers
  <2>2. g \in {i} \X PadsOf(o[i]) \X (1 .. LongestChain)
    BY <2>1, HandlerIn
  <2> QED BY <1>1, <2>2 DEF LongestChain
<1> HIDE DEF depths
<1>3. PICK m \in depths : \A l \in depths : m <= l
  <2>1. depths \subseteq Nat /\ depths # {}
    BY <1>1, <1>2 DEF depths
  <2> QED BY <2>1, LeastOf
<1>4. PICK b \in Handlers(x) : m = Len(o) - b[1]
  BY <1>3 DEF depths
<1>5. \A g \in Handlers(x) : g[1] <= b[1]
  <2> SUFFICES ASSUME NEW g \in Handlers(x)  PROVE g[1] <= b[1]
    OBVIOUS
  <2>1. Len(o) - b[1] <= Len(o) - g[1]
    BY <1>3, <1>4 DEF depths
  <2>2. g[1] \in Int /\ b[1] \in Int
    BY <1>2
  <2> QED BY <1>1, <2>1, <2>2
<1> DEFINE places == {g[3] : g \in {h \in Handlers(x) : h[1] = b[1]}}
<1>6. PICK k \in places : \A l \in places : k <= l
  <2>1. places \subseteq Nat /\ places # {}
    BY <1>2, <1>4
  <2> QED BY <2>1, LeastOf
<1>7. PICK h \in Handlers(x) : h[1] = b[1] /\ h[3] = k
  BY <1>6
<1>8. \A g \in Handlers(x) : g[1] < h[1] \/ (g[1] = h[1] /\ g[3] >= h[3])
  BY <1>2, <1>5, <1>6, <1>7
<1> QED BY <1>8 DEF Innermost

\* The cleanups due are those no handler precedes.
LEMMA DueIsOwed ==
  ASSUME Typed, NEW x \in Occurrences
  PROVE  CleanupsDue(x) = DueOf(x)
<1> DEFINE e == excs[x]
           o == origin[x]
           h == Innermost(x)
<1>1. o \in Seq(Frame) /\ DOMAIN o = 1 .. Len(o) /\ Len(o) \in Nat /\ \A i \in DOMAIN o : o[i] \in Frame
  BY DEF Typed
<1>2. \A c : c \in CleanupsDue(x) <=>
        \E i \in DOMAIN o :
          /\ c \in {i} \X PadsOf(o[i]) \X (1 .. LongestChain) /\ Cleans(o[i], c[2], c[3])
          /\ Handlers(x) = {} \/ c[1] > h[1] \/ (c[1] = h[1] /\ c[3] < h[3])
  BY DEF CleanupsDue, Cleans
<1>3. \A g : g \in Handlers(x) <=>
        \E i \in DOMAIN o : /\ g \in {i} \X PadsOf(o[i]) \X (1 .. LongestChain)
                            /\ Takes(e, o[i], g[2], g[3])
  BY HandlerIn DEF Handlers
<1>4. \A i \in DOMAIN o : \A p, k : Takes(e, o[i], p, k) => <<i, p, k>> \in Handlers(x)
  <2> SUFFICES ASSUME NEW i \in DOMAIN o, NEW p, NEW k, Takes(e, o[i], p, k)
               PROVE  <<i, p, k>> \in Handlers(x)
    OBVIOUS
  <2>1. p \in PadsOf(o[i]) /\ k \in 1 .. LongestChain
    BY <1>1, PadFacts DEF Takes
  <2> QED BY <1>3, <2>1
<1> HIDE DEF h
<1>5. Handlers(x) # {} =>
        h \in Handlers(x) /\ \A g \in Handlers(x) : g[1] < h[1] \/ (g[1] = h[1] /\ g[3] >= h[3])
  BY InnermostLemma DEF h
<1>6. ASSUME NEW c \in CleanupsDue(x)  PROVE c \in DueOf(x)
  <2>1. PICK i \in DOMAIN o :
          /\ c \in {i} \X PadsOf(o[i]) \X (1 .. LongestChain) /\ Cleans(o[i], c[2], c[3])
          /\ Handlers(x) = {} \/ c[1] > h[1] \/ (c[1] = h[1] /\ c[3] < h[3])
    BY <1>2
  <2>2. /\ c \in (DOMAIN o) \X Int \X (1 .. LongestChain) /\ c[1] = i
        /\ i \in Int /\ c[3] \in Int
    BY <1>1, <2>1, PadFacts DEF LongestChain
  <2>3. ASSUME NEW j \in DOMAIN o, j > i  PROVE NoHandler(e, o[j])
    <3> SUFFICES ASSUME NEW p, NEW k, Takes(e, o[j], p, k)  PROVE FALSE
      BY DEF NoHandler
    <3>1. <<j, p, k>> \in Handlers(x)
      BY <1>4
    <3>2. h[1] \in Int
      BY <1>1, <1>3, <1>5, <3>1
    <3>3. j < h[1] \/ j = h[1]
      BY <1>5, <3>1
    <3> QED BY <1>1, <2>1, <2>2, <2>3, <3>1, <3>2, <3>3
  <2>4. ASSUME NEW l \in 1 .. c[3] - 1  PROVE ~Takes(e, o[i], c[2], l)
    <3> SUFFICES ASSUME Takes(e, o[i], c[2], l)  PROVE FALSE
      OBVIOUS
    <3>1. <<i, c[2], l>> \in Handlers(x)
      BY <1>4
    <3>2. h[1] \in Int /\ h[3] \in Int
      BY <1>1, <1>3, <1>5, <3>1 DEF LongestChain
    <3>3. i < h[1] \/ (i = h[1] /\ l >= h[3])
      BY <1>5, <3>1
    <3> QED BY <2>1, <2>2, <3>1, <3>2, <3>3
  <2> QED BY <2>1, <2>2, <2>3, <2>4 DEF DueOf, Due, Owed
<1>7. ASSUME NEW c \in DueOf(x)  PROVE c \in CleanupsDue(x)
  <2>1. /\ c \in (DOMAIN o) \X Int \X (1 .. LongestChain) /\ Cleans(o[c[1]], c[2], c[3])
        /\ \A j \in DOMAIN o : j > c[1] => NoHandler(e, o[j])
        /\ \A l \in 1 .. c[3] - 1 : ~Takes(e, o[c[1]], c[2], l)
    BY <1>7 DEF DueOf, Due, Owed
  <2>2. c[2] \in PadsOf(o[c[1]]) /\ Chain[o[c[1]].fn][c[2]][c[3]] = 0
    BY <2>1 DEF Cleans
  <2>3. c[1] \in DOMAIN o /\ c[1] \in Int /\ c[3] \in Int /\ c[3] >= 1
    BY <1>1, <2>1 DEF LongestChain
  <2>4. c \in {c[1]} \X PadsOf(o[c[1]]) \X (1 .. LongestChain)
    BY <2>1, <2>2
  <2>5. ASSUME Handlers(x) # {}  PROVE c[1] > h[1] \/ (c[1] = h[1] /\ c[3] < h[3])
    <3>1. PICK i \in DOMAIN o : h \in {i} \X PadsOf(o[i]) \X (1 .. LongestChain) /\ Takes(e, o[i], h[2], h[3])
      BY <1>3, <1>5, <2>5
    <3>2. h[1] = i /\ i \in Int /\ h[2] \in PadsOf(o[i]) /\ h[3] \in 1 .. LongestChain
      BY <1>1, <3>1
    <3>3. ~(i > c[1])
      BY <2>1, <3>1 DEF NoHandler
    <3>4. CASE i = c[1]
      <4>1. h[2] = c[2]
        BY <1>1, <2>2, <3>2, <3>4, OnePadOf
      <4>2. h[3] \notin 1 .. c[3] - 1
        BY <2>1, <3>1, <3>4, <4>1
      <4>3. h[3] # c[3]
        <5>1. Chain[o[i].fn][h[2]][h[3]] > 0
          BY <3>1 DEF Takes
        <5> QED BY <2>2, <3>4, <4>1, <5>1
      <4>4. h[3] \in Int /\ h[3] >= 1
        BY <3>2 DEF LongestChain
      <4> QED BY <2>3, <3>2, <3>4, <4>2, <4>3, <4>4
    <3> QED BY <2>3, <3>2, <3>3, <3>4
  <2> QED BY <1>2, <2>1, <2>3, <2>4, <2>5
<1> QED BY <1>6, <1>7

LEMMA SameDue ==
  ASSUME NEW e, NEW g, e.class = g.class, e.id = g.id, NEW o
  PROVE  Due(e, o) = Due(g, o)
<1>1. \A c : Owed(e, o, c) <=> Owed(g, o, c)
  BY SameObject DEF Owed
<1> QED BY <1>1 DEF Due

LEMMA DueFacts ==
  ASSUME NEW e, NEW o \in Seq(Frame), NEW c \in Due(e, o)
  PROVE  /\ c = <<c[1], c[2], c[3]>> /\ c[1] \in DOMAIN o /\ c[1] \in 1 .. Len(o) /\ c[1] \in Int
         /\ c[2] \in Int /\ c[3] \in 1 .. LongestChain /\ c[3] \in Int /\ c[3] > 0
         /\ c[2] \in PadsOf(o[c[1]]) /\ Cleans(o[c[1]], c[2], c[3])
<1>1. c \in (DOMAIN o) \X Int \X (1 .. LongestChain) /\ Owed(e, o, c)
  BY DEF Due
<1>2. c = <<c[1], c[2], c[3]>> /\ c[1] \in DOMAIN o /\ c[2] \in Int /\ c[3] \in 1 .. LongestChain
  BY <1>1
<1>3. Cleans(o[c[1]], c[2], c[3])
  BY <1>1 DEF Owed
<1>4. c[2] \in PadsOf(o[c[1]])
  BY <1>3 DEF Cleans
<1>5. c[3] \in Int /\ c[3] > 0
  BY <1>2 DEF LongestChain
<1>6. c[1] \in 1 .. Len(o) /\ c[1] \in Int
  BY <1>2
<1> QED BY <1>2, <1>3, <1>4, <1>5, <1>6

\* A frame without cleanups adds none.
LEMMA PastFrame ==
  ASSUME NEW e, NEW o \in Seq(Frame), NEW i \in Int, NoCleanup(o[i])
  PROVE  Past(Due(e, o), i, 0) = Past(Due(e, o), i - 1, 0)
<1> SUFFICES ASSUME NEW c \in Due(e, o)
             PROVE  (c[1] > i \/ (c[1] = i /\ c[3] <= 0)) <=> (c[1] > i - 1 \/ (c[1] = i - 1 /\ c[3] <= 0))
  BY DEF Past
<1>1. c[1] \in Int /\ c[3] \in Int /\ c[3] > 0 /\ Cleans(o[c[1]], c[2], c[3])
  BY DueFacts
<1>2. c[1] # i
  BY <1>1 DEF NoCleanup
<1> QED BY <1>1, <1>2

LEMMA PastNone ==
  ASSUME NEW e, NEW o \in Seq(Frame), NEW i \in Int,
         \A j \in DOMAIN o : j > i => NoCleanup(o[j])
  PROVE  Past(Due(e, o), i, 0) = {}
<1> SUFFICES ASSUME NEW c \in Due(e, o), c[1] > i \/ (c[1] = i /\ c[3] <= 0)  PROVE FALSE
  BY DEF Past
<1>1. c[1] \in DOMAIN o /\ c[3] \in Int /\ c[3] > 0 /\ Cleans(o[c[1]], c[2], c[3])
  BY DueFacts
<1>2. c[1] > i
  BY <1>1
<1> QED BY <1>1, <1>2 DEF NoCleanup

-----------------------------------------------------------------------------
(***************************************************************************)
(* What has run is kept by every step.                                     *)
(***************************************************************************)
LEMMA HistStep ==
  ASSUME IInv, HistInv, NEW x, cleaned' \in [Occurrences -> Seq(Int \X Int \X Int)],
         \A y \in Occurrences : y # x =>
           excs'[y] = excs[y] /\ origin'[y] = origin[y] /\ cleaned'[y] = cleaned[y],
         x \in Occurrences /\ InUse(x)' => Kin(x)',
         mode' # "exited" =>
           /\ mode # "exited"
           /\ \A i \in DOMAIN stack' : stack'[i].rax \notin {0, d'.exc} =>
                \/ RanAt(i)'
                \/ /\ i \in DOMAIN stack /\ stack[i].rax \notin {x, d.exc}
                   /\ stack'[i].rax = stack[i].rax /\ stack'[i].rec = stack[i].rec
                   /\ stack'[i].rdx = stack[i].rdx,
         (Walking /\ d.exc # 0 => RanInFlight(d.exc, excs[d.exc], origin[d.exc]))'
  PROVE  HistInv'
<1>1. \A y \in Occurrences : InUse(y)' => Kin(y)'
  <2> SUFFICES ASSUME NEW y \in Occurrences, y # x, InUse(y)'  PROVE Kin(y)'
    OBVIOUS
  <2>1. InUse(y) /\ Kin(y)
    BY DEF InUse, HistInv
  <2> QED BY <2>1 DEF Kin, Ran, DueOf
<1>2. ASSUME mode' # "exited", NEW i \in DOMAIN stack'  PROVE RanAt(i)'
  <2> SUFFICES ASSUME stack'[i].rax \notin {0, d'.exc},
                      i \in DOMAIN stack, stack[i].rax \notin {x, d.exc},
                      stack'[i].rax = stack[i].rax, stack'[i].rec = stack[i].rec,
                      stack'[i].rdx = stack[i].rdx
               PROVE  RanAt(i)'
    BY <1>2 DEF RanAt
  <2> DEFINE y == stack[i].rax
  <2>1. y \in Occurrences
    BY <1>2 DEF IInv, Owned, Held
  <2>2. RanBy(y, i)
    BY <1>2 DEF HistInv, RanAt
  <2>3. excs'[y] = excs[y] /\ origin'[y] = origin[y] /\ cleaned'[y] = cleaned[y]
    BY <2>1
  <2> QED BY <2>2, <2>3 DEF RanAt, RanBy, Ran, DueOf
<1> QED BY <1>1, <1>2 DEF HistInv

\* The thread comes to an end, or only the object in flight changes.
LEMMA HistEnd ==
  ASSUME IInv, HistInv, UNCHANGED <<stack, excs, origin, cleaned, d>>,
         mode \in {"program", "dispatch", "unwind"}, mode' \in {"terminated", "continued", "aborted"}
  PROVE  HistInv'
<1>1. \A x : (InUse(x)' <=> InUse(x)) /\ (Kin(x)' <=> Kin(x))
  BY DEF InUse, Kin, Ran, DueOf
<1>2. \A i : RanAt(i)' <=> RanAt(i)
  BY DEF RanAt, RanBy, Ran, DueOf
<1> QED BY <1>1, <1>2 DEF HistInv, Walking

LEMMA HistVisit ==
  ASSUME IInv, HistInv, Walking, UNCHANGED <<stack, origin, cleaned>>, Walking', d'.exc = d.exc,
         \A y \in Occurrences : y # d.exc => excs'[y] = excs[y],
         d.exc # 0 => /\ excs'[d.exc].class = excs[d.exc].class /\ excs'[d.exc].id = excs[d.exc].id
                      /\ RanInFlight(d.exc, excs[d.exc], origin[d.exc])'
  PROVE  HistInv'
<1> SUFFICES ASSUME NEW x, x = d.exc  PROVE HistInv'
  OBVIOUS
<1>1. x \in Occurrences /\ InUse(x)' => Kin(x)'
  <2> SUFFICES ASSUME x \in Occurrences  PROVE Kin(x)'
    OBVIOUS
  <2>1. x # 0
    BY Constants
  <2>2. InUse(x)
    BY <2>1, InFlight DEF InUse, NoExc
  <2>3. Due(excs'[x], origin[x]) = Due(excs[x], origin[x])
    BY <2>1, SameDue
  <2>4. DueOf(x)' = DueOf(x) /\ Ran(x)' = Ran(x)
    BY <2>3 DEF DueOf, Ran
  <2>5. Kin(x)
    BY <2>2 DEF HistInv
  <2> QED BY <2>4, <2>5 DEF Kin
<1>2. mode # "exited"
  BY DEF Walking
<1>3. cleaned' \in [Occurrences -> Seq(Int \X Int \X Int)]
  BY DEF HistInv
<1> QED BY <1>1, <1>2, <1>3, HistStep

\* The steps of the program that run no cleanup and raise nothing.
LEMMA CallHist == IInv /\ HistInv /\ Call => HistInv'
<1> SUFFICES ASSUME IInv, HistInv, Call  PROVE HistInv'
  OBVIOUS
<1>0. Typed /\ mode = "program" /\ mode' = "program" /\ d = Idle /\ d' = Idle /\ d.exc = 0
  BY Constants DEF IInv, Typed, Call
<1>1. PICK o \in Reachable("call") : stack' = Append(At(o.at), NewFrame(o.arg))
  BY DEF Call
<1>2. o.at \in Int
  BY <1>0, <1>1, ReachableOp
<1>3. /\ Len(At(o.at)) = Len(stack) /\ Len(stack) \in Nat \ {0} /\ DOMAIN stack = 1 .. Len(stack)
      /\ At(o.at) \in Seq(Frame)
      /\ \A i \in 1 .. Len(stack) : i # Len(stack) => At(o.at)[i] = stack[i]
      /\ At(o.at)[Len(stack)].rec = Top.rec /\ At(o.at)[Len(stack)].rax = Top.rax
      /\ At(o.at)[Len(stack)].rdx = Top.rdx
  BY <1>0, <1>2, AtLemma, TopFrame
<1>4. /\ DOMAIN stack' = 1 .. Len(stack) + 1 /\ stack'[Len(stack) + 1].rax = 0
      /\ \A i \in 1 .. Len(stack) : stack'[i] = At(o.at)[i]
  BY <1>1, <1>3 DEF NewFrame
<1>5. \A i \in 1 .. Len(stack) :
        stack'[i].rax = stack[i].rax /\ stack'[i].rec = stack[i].rec /\ stack'[i].rdx = stack[i].rdx
  BY <1>3, <1>4 DEF Top
<1>6. ASSUME NEW i \in DOMAIN stack', stack'[i].rax \notin {0, d'.exc}
      PROVE  /\ i \in DOMAIN stack /\ stack[i].rax \notin {0, d.exc}
             /\ stack'[i].rax = stack[i].rax /\ stack'[i].rec = stack[i].rec
             /\ stack'[i].rdx = stack[i].rdx
  <2>1. i \in 1 .. Len(stack)
    BY <1>3, <1>4, <1>6
  <2> QED BY <1>0, <1>3, <1>5, <1>6, <2>1
<1>7. /\ UNCHANGED <<excs, origin, cleaned>> /\ cleaned' \in [Occurrences -> Seq(Int \X Int \X Int)]
      /\ 0 \notin Occurrences
  BY Constants DEF Call, HistInv
<1> QED BY <1>0, <1>6, <1>7, HistStep DEF Walking

LEMMA LeaveHist ==
  ASSUME IInv, HistInv, mode = "program", Leave, UNCHANGED <<d, origin, cleaned>>,
         NEW x, \A y \in Occurrences : y # x => excs'[y] = excs[y],
         x \in Occurrences => x = Top.rax /\ excs'[x] = NoExc
  PROVE  HistInv'
<1>0. Typed /\ d = Idle /\ d.exc = 0 /\ Len(stack) \in Nat \ {0} /\ DOMAIN stack = 1 .. Len(stack)
  BY Constants, TopFrame DEF IInv, Typed
<1>1. cleaned' \in [Occurrences -> Seq(Int \X Int \X Int)] /\ (x \in Occurrences => ~InUse(x)')
  BY DEF HistInv, InUse
<1>2. CASE Len(stack) = 1 /\ mode' = "exited" /\ stack' = stack
  BY <1>0, <1>1, <1>2, HistStep DEF Walking
<1>3. CASE Len(stack) > 1 /\ mode' = mode /\ stack' = SubSeq(stack, 1, Len(stack) - 1)
  <2>1. DOMAIN stack' = 1 .. Len(stack) - 1 /\ \A i \in 1 .. Len(stack) - 1 : stack'[i] = stack[i]
    BY <1>0, <1>3
  <2>2. \A i \in 1 .. Len(stack) - 1 : stack[i].rax # 0 => stack[i].rax \in Occurrences /\ stack[i].rax # Top.rax
    BY <1>0 DEF IInv, Owned, Held, Top
  <2>3. ASSUME NEW i \in DOMAIN stack', stack'[i].rax \notin {0, d'.exc}
        PROVE  i \in DOMAIN stack /\ stack[i].rax \notin {x, d.exc} /\ stack'[i] = stack[i]
    <3>1. i \in 1 .. Len(stack) - 1 /\ stack'[i] = stack[i]
      BY <2>1, <2>3
    <3>2. stack[i].rax # 0 /\ d'.exc = 0
      BY <1>0, <2>3, <3>1
    <3>3. stack[i].rax \in Occurrences /\ stack[i].rax # Top.rax
      BY <2>2, <3>1, <3>2
    <3>4. i \in DOMAIN stack
      BY <1>0, <3>1
    <3> QED BY <1>0, <3>1, <3>2, <3>3, <3>4
  <2>4. mode # "exited" /\ ~Walking'
    BY <1>3 DEF Walking
  <2>5. \A y \in Occurrences : y # x =>
          excs'[y] = excs[y] /\ origin'[y] = origin[y] /\ cleaned'[y] = cleaned[y]
    OBVIOUS
  <2>6. \A i \in DOMAIN stack' : stack'[i].rax \notin {0, d'.exc} =>
          /\ i \in DOMAIN stack /\ stack[i].rax \notin {x, d.exc}
          /\ stack'[i].rax = stack[i].rax /\ stack'[i].rec = stack[i].rec
          /\ stack'[i].rdx = stack[i].rdx
    BY <2>3
  <2> QED BY <1>1, <2>4, <2>5, <2>6, HistStep
<1> QED BY <1>0, <1>2, <1>3 DEF Leave

LEMMA ReturnHist == IInv /\ HistInv /\ Return => HistInv'
<1>1. 0 \notin Occurrences
  BY Constants
<1> QED BY <1>1, LeaveHist DEF Return

LEMMA FinishHandlerHist == IInv /\ HistInv /\ FinishHandler => HistInv'
<1> SUFFICES ASSUME IInv, HistInv, FinishHandler, NEW x, x = Top.rax  PROVE HistInv'
  OBVIOUS
<1>1. Typed /\ excs' = [excs EXCEPT ![x] = NoExc]
  BY DEF IInv, FinishHandler
<1>2. /\ \A y \in Occurrences : y # x => excs'[y] = excs[y]
      /\ x \in Occurrences => excs'[x] = NoExc
  BY <1>1 DEF Typed
<1> QED BY <1>2, LeaveHist DEF FinishHandler

\* A new object has run nothing.
LEMMA RaisedHist ==
  ASSUME IInv, HistInv, NEW x \in Occurrences, Typed', d'.exc = x, d.exc \in {0, x}, mode # "exited",
         \A y \in Occurrences : y # x => excs'[y] = excs[y] /\ origin'[y] = origin[y],
         cleaned' = [cleaned EXCEPT ![x] = <<>>], mode' = "dispatch", d'.code = "THROW",
         DOMAIN stack' = DOMAIN stack,
         \A i \in DOMAIN stack : stack'[i].rax = stack[i].rax /\ stack'[i].rec = stack[i].rec
                                   /\ stack'[i].rdx = stack[i].rdx
  PROVE  HistInv'
<1>1. /\ cleaned' \in [Occurrences -> Seq(Int \X Int \X Int)] /\ cleaned'[x] = <<>>
      /\ \A y \in Occurrences : y # x => cleaned'[y] = cleaned[y]
  BY DEF HistInv
<1>2. Kin(x)'
  BY <1>1 DEF Kin, Ordered, Ran
<1>3. (Walking /\ d.exc # 0 => RanInFlight(d.exc, excs[d.exc], origin[d.exc]))'
  BY <1>1 DEF RanInFlight
<1> QED BY <1>1, <1>2, <1>3, HistStep

LEMMA RaiseObjectHist ==
  ASSUME IInv, HistInv, IInv', mode = "program", NEW x \in Occurrences, NEW class, NEW id, NEW at \in Int,
         Unwind_RaiseException(x, class, id, at)
  PROVE  HistInv'
<1>0. Typed /\ Typed' /\ d.exc = 0
  BY Constants DEF IInv, Typed
<1>1. /\ stack' = At(at) /\ mode' = "dispatch" /\ cleaned' = [cleaned EXCEPT ![x] = <<>>]
      /\ d' = [Idle EXCEPT !.code = "THROW", !.exc = x, !.pos = Len(stack), !.fault = FALSE]
      /\ origin' = [origin EXCEPT ![x] = stack']
      /\ \A y \in Occurrences : y # x => excs'[y] = excs[y]
  BY <1>0 DEF Unwind_RaiseException, RaiseException, Typed
<1>2. d'.exc = x /\ d'.code = "THROW"
  BY <1>1 DEF Idle
<1>3. \A y \in Occurrences : y # x => origin'[y] = origin[y]
  BY <1>0, <1>1 DEF Typed
<1>4. /\ DOMAIN stack' = DOMAIN stack
      /\ \A i \in DOMAIN stack : stack'[i].rax = stack[i].rax /\ stack'[i].rec = stack[i].rec
                                   /\ stack'[i].rdx = stack[i].rdx
  <2>1. /\ DOMAIN stack = 1 .. Len(stack) /\ DOMAIN At(at) = 1 .. Len(stack)
        /\ \A i \in 1 .. Len(stack) : i # Len(stack) => At(at)[i] = stack[i]
        /\ At(at)[Len(stack)].rec = Top.rec /\ At(at)[Len(stack)].rax = Top.rax
        /\ At(at)[Len(stack)].rdx = Top.rdx
    BY <1>0, AtLemma, TopFrame
  <2> QED BY <1>1, <2>1 DEF Top
<1> QED BY <1>0, <1>1, <1>2, <1>3, <1>4, RaisedHist

LEMMA RaiseHist == IInv /\ HistInv /\ IInv' /\ (Raise \/ Reraise) => HistInv'
<1> SUFFICES ASSUME IInv, HistInv, IInv', Raise \/ Reraise  PROVE HistInv'
  OBVIOUS
<1>0. Typed /\ mode = "program"
  BY DEF IInv, Raise, Reraise
<1>1. CASE Raise
  <2>1. PICK o \in Reachable("raise") :
          Unwind_RaiseException(CHOOSE x \in Free : TRUE, o.arg[1], o.arg[2], o.at)
    BY <1>1 DEF Raise
  <2>2. o.at \in Int /\ (CHOOSE x \in Free : TRUE) \in Occurrences
    BY <1>0, <1>1, ReachableOp DEF Raise, Free
  <2> QED BY <1>0, <2>1, <2>2, RaiseObjectHist
<1>2. CASE Reraise
  <2>1. PICK o \in Reachable("reraise") :
          Unwind_RaiseException(Top.rax, excs[Top.rax].class, excs[Top.rax].id, o.at)
    BY <1>2 DEF Reraise
  <2>2. o.at \in Int /\ Top.rax \in Occurrences
    <3>1. Len(stack) \in DOMAIN stack /\ Top.rax # 0
      BY <1>0, <1>2, TopFrame DEF Reraise
    <3> QED BY <1>0, <3>1, ReachableOp DEF IInv, Owned, Held, Top
  <2> QED BY <1>0, <2>1, <2>2, RaiseObjectHist
<1> QED BY <1>1, <1>2

LEMMA FaultHist == IInv /\ HistInv /\ Fault => HistInv'
<1> SUFFICES ASSUME IInv, HistInv, Fault  PROVE HistInv'
  OBVIOUS
<1>0. Typed /\ mode = "program" /\ mode' = "dispatch" /\ d.exc = 0 /\ UNCHANGED <<excs, origin, cleaned>>
  BY Constants DEF IInv, Typed, Fault
<1>1. PICK o \in Reachable("fault") : stack' = At(o.at) /\ RaiseException(o.arg, 0, TRUE)
  BY DEF Fault
<1>2. o.at \in Int /\ d'.exc = 0
  BY <1>0, <1>1, ReachableOp DEF RaiseException, Idle
<1>3. /\ DOMAIN stack' = DOMAIN stack
      /\ \A i \in DOMAIN stack : stack'[i].rax = stack[i].rax /\ stack'[i].rec = stack[i].rec
                                   /\ stack'[i].rdx = stack[i].rdx
  <2>1. /\ DOMAIN stack = 1 .. Len(stack) /\ DOMAIN At(o.at) = 1 .. Len(stack)
        /\ \A i \in 1 .. Len(stack) : i # Len(stack) => At(o.at)[i] = stack[i]
        /\ At(o.at)[Len(stack)].rec = Top.rec /\ At(o.at)[Len(stack)].rax = Top.rax
        /\ At(o.at)[Len(stack)].rdx = Top.rdx
    BY <1>0, <1>2, AtLemma, TopFrame
  <2> QED BY <1>1, <2>1 DEF Top
<1>4. cleaned' \in [Occurrences -> Seq(Int \X Int \X Int)] /\ 0 \notin Occurrences
  BY <1>0, Constants DEF HistInv
<1> QED BY <1>0, <1>2, <1>3, <1>4, HistStep

\* The cleanups of a frame after record k are on its one landing pad.
LEMMA PastRecords ==
  ASSUME Typed, NEW e, NEW o \in Seq(Frame), NEW n \in DOMAIN o, NEW p \in PadsOf(o[n]),
         NEW k \in Int, NEW r \in Int, k <= r
  PROVE  Past(Due(e, o), n, r) =
           Past(Due(e, o), n, k) \cup {c \in Due(e, o) : c[1] = n /\ c[2] = p /\ c[3] > k /\ c[3] <= r}
<1> SUFFICES ASSUME NEW c \in Due(e, o)
             PROVE  (c[1] > n \/ (c[1] = n /\ c[3] <= r)) <=>
                      \/ c[1] > n \/ (c[1] = n /\ c[3] <= k)
                      \/ c[1] = n /\ c[2] = p /\ c[3] > k /\ c[3] <= r
  BY DEF Past
<1>1. c[1] \in Int /\ c[3] \in Int /\ c[2] \in PadsOf(o[c[1]])
  BY DueFacts
<1>2. c[1] = n => c[2] = p
  BY <1>1, OnePadOf
<1> QED BY <1>1, <1>2

\* The frame on top has landed with x.
LEMMA OnPad ==
  ASSUME IInv, HistInv, FaultAssumption, mode = "program", Top.pad # 0, ~InHandler(Top), NEW x, x = Top.rax
  PROVE  LET n == Len(stack)
             o == origin[x]
             chain == Chain[Top.fn][Top.pad]
         IN  /\ x \in Occurrences /\ x # 0 /\ InUse(x) /\ o \in Seq(Frame) /\ n \in DOMAIN o
             /\ o[n].fn = Top.fn /\ Top.pad \in PadsOf(o[n]) /\ Landed(excs[x], o, stack, n)
             /\ \A i \in 1 .. n - 1 : stack[i].rax # x
             /\ Ran(x) = Past(Due(excs[x], o), n, Top.rec)
             /\ Top.rdx = 0 => excs[x].private[1] < n
             /\ \A j \in DOMAIN o : j > n => NoHandler(excs[x], o[j])
             /\ Top.rdx = 0 => NoHandler(excs[x], o[n])
             /\ Top.rdx # 0 =>
                  \E k \in NextRecords(Top) : /\ chain[k] = Top.rdx
                                              /\ \A l \in 1 .. k - 1 : ~Takes(excs[x], o[n], Top.pad, l)
<1> DEFINE n == Len(stack)
           e == excs[x]
           o == origin[x]
           chain == Chain[Top.fn][Top.pad]
<1>0. Typed /\ d.exc = 0
  BY Constants DEF IInv, Typed
<1>1. n \in Nat \ {0} /\ DOMAIN stack = 1 .. n /\ Top = stack[n] /\ Top \in Frame /\ n \in DOMAIN stack
  BY <1>0, TopFrame DEF Top
<1>2. x \in Occurrences /\ Held(x) /\ x # 0 /\ \A i \in 1 .. n - 1 : stack[i].rax # x
  BY <1>0, <1>1 DEF IInv, Owned, Held
<1>3. Landed(e, o, stack, n) /\ RanBy(x, n)
  BY <1>0, <1>1, <1>2 DEF IInv, HistInv, FrameInv, RanAt
<1>4. InUse(x) /\ o \in Seq(Frame)
  BY <1>0, <1>2 DEF Held, InUse, NoExc, Typed
<1>5. /\ n \in DOMAIN o /\ o[n].fn = Top.fn /\ Lands(e, o[n], Top.pad, Top.rdx) /\ NoneAbove(e, o, n)
  BY <1>1, <1>3 DEF Landed, Below, Chosen
<1>6. /\ Top.pad \in PadsOf(o[n])
      /\ \A j \in DOMAIN o : j > n => NoHandler(e, o[j])
      /\ Top.rdx = 0 => NoHandler(e, o[n])
      /\ Top.rdx # 0 => First(e, o[n], Top.pad, Top.rdx)
  BY <1>5 DEF Lands, NoneAbove
<1>7. ASSUME Top.rdx # 0
      PROVE  \E k \in NextRecords(Top) : /\ chain[k] = Top.rdx
                                         /\ \A l \in 1 .. k - 1 : ~Takes(e, o[n], Top.pad, l)
  <2>1. PICK k : /\ Takes(e, o[n], Top.pad, k) /\ chain[k] = Top.rdx
                 /\ \A l \in 1 .. k - 1 : ~Takes(e, o[n], Top.pad, l)
    BY <1>5, <1>6, <1>7 DEF First
  <2>2. o[n] \in Frame /\ k \in DOMAIN chain
    BY <1>4, <1>5, <2>1 DEF Takes
  <2>3. k \in 1 .. Len(chain) /\ Len(chain) \in Int
    BY <1>5, <1>6, <2>2, PadFacts DEF LongestChain
  <2>4. Top.rec \in Nat /\ Progress(Top)
    BY <1>1, <1>3 DEF Frame, Landed
  <2>5. ~(k <= Top.rec)
    <3> SUFFICES ASSUME k <= Top.rec  PROVE FALSE
      OBVIOUS
    <3>1. k \in 1 .. Top.rec
      BY <2>3, <2>4
    <3>2. k = Top.rec
      BY <1>7, <2>1, <2>4, <3>1 DEF Progress
    <3> QED BY <1>7, <2>1, <2>3, <3>2 DEF InHandler
  <2>6. k \in NextRecords(Top)
    BY <2>1, <2>3, <2>4, <2>5 DEF NextRecords
  <2> QED BY <2>1, <2>6
<1> QED BY <1>1, <1>2, <1>3, <1>4, <1>5, <1>6, <1>7 DEF RanBy, DueOf

\* Entering a record steps over no cleanup, and a cleanup entered is due.
LEMMA NextDue ==
  ASSUME IInv, HistInv, FaultAssumption, mode = "program", Top.pad # 0, ~InHandler(Top),
         NextRecords(Top) # {}, NEW x, x = Top.rax
  PROVE  LET n == Len(stack)
             r == NextRecord(Top)
             b == <<n, Top.pad, r>>
             chain == Chain[Top.fn][Top.pad]
         IN  /\ chain[r] # 0 => Past(DueOf(x), n, r) = Ran(x)
             /\ chain[r] = 0 => b \in DueOf(x) /\ Past(DueOf(x), n, r) = Ran(x) \cup {b}
<1> DEFINE n == Len(stack)
           e == excs[x]
           o == origin[x]
           p == Top.pad
           r == NextRecord(Top)
           b == <<n, p, r>>
           chain == Chain[Top.fn][p]
           Between == {c \in Due(e, o) : c[1] = n /\ c[2] = p /\ c[3] > Top.rec /\ c[3] <= r}
<1>0. Typed /\ Top \in Frame /\ Top.rec \in Nat
  BY TopFrame DEF IInv, Frame
<1>1. r \in NextRecords(Top) /\ r \in Nat /\ \A j \in NextRecords(Top) : r <= j
  BY <1>0, NextRecordLemma
<1>2. r \in Top.rec + 1 .. Len(chain) /\ chain[r] \in {0, Top.rdx}
  BY <1>1 DEF NextRecords
<1>3. /\ o \in Seq(Frame) /\ n \in DOMAIN o /\ n \in Int /\ o[n] \in Frame
      /\ o[n].fn = Top.fn /\ p \in PadsOf(o[n]) /\ Ran(x) = Past(Due(e, o), n, Top.rec)
      /\ \A j \in DOMAIN o : j > n => NoHandler(e, o[j])
      /\ Top.rdx = 0 => NoHandler(e, o[n])
      /\ Top.rdx # 0 => \E k \in NextRecords(Top) : /\ chain[k] = Top.rdx
                                                    /\ \A l \in 1 .. k - 1 : ~Takes(e, o[n], p, l)
  <2>1. /\ o \in Seq(Frame) /\ n \in DOMAIN o
        /\ o[n].fn = Top.fn /\ p \in PadsOf(o[n]) /\ Ran(x) = Past(Due(e, o), n, Top.rec)
        /\ \A j \in DOMAIN o : j > n => NoHandler(e, o[j])
        /\ Top.rdx = 0 => NoHandler(e, o[n])
        /\ Top.rdx # 0 => \E k \in NextRecords(Top) : /\ chain[k] = Top.rdx
                                                      /\ \A l \in 1 .. k - 1 : ~Takes(e, o[n], p, l)
    BY OnPad
  <2> HIDE DEF n
  <2> QED BY <2>1
<1> HIDE DEF n, r, p
<1>4. /\ DOMAIN chain = 1 .. Len(chain) /\ Len(chain) \in Int /\ p \in Int
      /\ 1 .. Len(chain) \subseteq 1 .. LongestChain
  <2>1. /\ DOMAIN Chain[o[n].fn][p] = 1 .. Len(Chain[o[n].fn][p])
        /\ Len(Chain[o[n].fn][p]) \in 1 .. LongestChain /\ p \in Int
    BY <1>3, PadFacts
  <2>2. chain = Chain[o[n].fn][p]
    BY <1>3
  <2>3. DOMAIN chain = 1 .. Len(chain) /\ Len(chain) \in 1 .. LongestChain /\ p \in Int
    BY <2>1, <2>2
  <2> HIDE DEF chain
  <2>4. \A m \in 1 .. LongestChain : m \in Int /\ 1 .. m \subseteq 1 .. LongestChain
    BY DEF LongestChain
  <2> QED BY <2>3, <2>4
<1>5. Past(Due(e, o), n, r) = Ran(x) \cup Between
  <2>1. Top.rec \in Int /\ r \in Int /\ Top.rec <= r
    BY <1>0, <1>1, <1>2, <1>4
  <2> QED BY <1>0, <1>3, <2>1, PastRecords
<1>6. ASSUME NEW c \in Between  PROVE c = b /\ chain[r] = 0
  <2>1. /\ c = <<c[1], c[2], c[3]>> /\ c[3] \in Int /\ c[3] > Top.rec /\ c[3] <= r /\ c[1] = n /\ c[2] = p
        /\ Cleans(o[c[1]], c[2], c[3])
    BY <1>3, DueFacts
  <2>2. c[3] \in DOMAIN chain /\ chain[c[3]] = 0
    BY <1>3, <2>1 DEF Cleans
  <2>3. c[3] \in NextRecords(Top)
    BY <1>0, <1>4, <2>1, <2>2 DEF NextRecords, p
  <2>4. c[3] = r
    BY <1>1, <2>1, <2>3
  <2> QED BY <2>1, <2>2, <2>4
<1>7. ASSUME chain[r] = 0  PROVE b \in Due(e, o) /\ b \in Between
  <2>1. r \in 1 .. Len(chain) /\ r > Top.rec
    BY <1>0, <1>1, <1>2, <1>4
  <2>2. b \in (DOMAIN o) \X Int \X (1 .. LongestChain) /\ b[1] = n /\ b[2] = p /\ b[3] = r
    BY <1>3, <1>4, <2>1
  <2>3. Cleans(o[n], p, r)
    BY <1>3, <1>4, <1>7, <2>1 DEF Cleans
  <2>4. ASSUME NEW l \in 1 .. r - 1  PROVE ~Takes(e, o[n], p, l)
    <3>1. CASE Top.rdx = 0
      BY <1>3, <3>1 DEF NoHandler
    <3>2. CASE Top.rdx # 0
      <4>1. PICK k \in NextRecords(Top) : chain[k] = Top.rdx /\ \A m \in 1 .. k - 1 : ~Takes(e, o[n], p, m)
        BY <1>3, <3>2
      <4>2. k \in Int
        BY <1>0 DEF NextRecords
      <4>3. r <= k
        BY <1>1
      <4> QED BY <1>1, <4>1, <4>2, <4>3
    <3> QED BY <3>1, <3>2
  <2> HIDE DEF b
  <2>5. b \in Due(e, o)
    BY <1>3, <2>2, <2>3, <2>4 DEF Due, Owed
  <2> QED BY <1>1, <2>1, <2>2, <2>5
<1> USE DEF n, p, r
<1>8. Past(DueOf(x), n, r) = Ran(x) \cup Between /\ (chain[r] = 0 => b \in DueOf(x))
  BY <1>5, <1>7 DEF DueOf
<1> HIDE DEF n, p, r, b, Between, chain
<1>9. chain[r] # 0 => Between = {}
  BY <1>6
<1>10. chain[r] = 0 => Between = {b}
  BY <1>6, <1>7
<1> QED BY <1>8, <1>9, <1>10 DEF n, p, r, b, chain

LEMMA OrderedAppend ==
  ASSUME NEW s \in Seq(Int \X Int \X Int), NEW b \in Int \X Int \X Int, Ordered(s),
         \A m \in DOMAIN s : s[m][1] > b[1] \/ (s[m][1] = b[1] /\ s[m][3] < b[3])
  PROVE  /\ Append(s, b) \in Seq(Int \X Int \X Int) /\ Ordered(Append(s, b))
         /\ {Append(s, b)[m] : m \in DOMAIN Append(s, b)} = {s[m] : m \in DOMAIN s} \cup {b}
<1> DEFINE t == Append(s, b)
<1>1. /\ t \in Seq(Int \X Int \X Int) /\ DOMAIN s = 1 .. Len(s) /\ DOMAIN t = 1 .. Len(s) + 1
      /\ Len(s) \in Nat /\ \A m \in 1 .. Len(s) : t[m] = s[m]
      /\ t[Len(s) + 1] = b
  OBVIOUS
<1> HIDE DEF t
<1>2. \A m : m \in DOMAIN t <=> m \in DOMAIN s \/ m = Len(s) + 1
  BY <1>1
<1>3. Ordered(t)
  <2> SUFFICES ASSUME NEW m \in DOMAIN t, NEW n \in DOMAIN t, m < n
               PROVE  t[m][1] > t[n][1] \/ (t[m][1] = t[n][1] /\ t[m][3] < t[n][3])
    BY DEF Ordered
  <2>1. m \in DOMAIN s
    BY <1>1
  <2>2. CASE n \in DOMAIN s
    <3>1. s[m][1] > s[n][1] \/ (s[m][1] = s[n][1] /\ s[m][3] < s[n][3])
      BY <2>1, <2>2 DEF Ordered
    <3>2. t[m] = s[m] /\ t[n] = s[n]
      BY <1>1, <2>1, <2>2
    <3> QED BY <3>1, <3>2
  <2>3. CASE n = Len(s) + 1
    BY <1>1, <2>1, <2>3
  <2> QED BY <1>2, <2>2, <2>3
<1>4. {t[m] : m \in DOMAIN t} = {s[m] : m \in DOMAIN s} \cup {b}
  <2>1. \A m \in DOMAIN s : t[m] = s[m]
    BY <1>1
  <2>2. Len(s) + 1 \in DOMAIN t /\ t[Len(s) + 1] = b
    BY <1>1, <1>2
  <2>3. \A c : (\E m \in DOMAIN t : c = t[m]) <=> (\E m \in DOMAIN s : c = s[m]) \/ c = b
    BY <1>2, <2>1, <2>2
  <2> QED BY <2>3
<1> QED BY <1>1, <1>3, <1>4 DEF t

LEMMA EnterRecordHist ==
  ASSUME FaultAssumption
  PROVE  IInv /\ HistInv /\ EnterRecord => HistInv'
<1> SUFFICES ASSUME IInv, HistInv, EnterRecord, NEW x, x = Top.rax  PROVE HistInv'
  OBVIOUS
<1> DEFINE n == Len(stack)
           r == NextRecord(Top)
           b == <<n, Top.pad, r>>
           chain == Chain[Top.fn][Top.pad]
<1>0. /\ Typed /\ mode = "program" /\ mode' = mode /\ d' = d /\ d.exc = 0 /\ UNCHANGED <<excs, origin>>
      /\ Top.pad # 0 /\ ~InHandler(Top) /\ NextRecords(Top) # {}
  BY Constants DEF IInv, Typed, EnterRecord
<1>1. n \in Nat \ {0} /\ DOMAIN stack = 1 .. n /\ stack \in Seq(Frame) /\ Top \in Frame /\ Top = stack[n]
  BY <1>0, TopFrame DEF Typed, Top
<1>2. r \in Nat /\ r > Top.rec /\ r # 0 /\ chain[r] \in {0, Top.rdx} /\ Top.rec \in Nat
  <2>1. r \in NextRecords(Top) /\ r \in Nat
    BY <1>0, <1>1, NextRecordLemma
  <2> HIDE DEF r
  <2> QED BY <1>1, <2>1 DEF NextRecords, Frame
<1>3. /\ x \in Occurrences /\ x # 0 /\ InUse(x) /\ \A i \in 1 .. n - 1 : stack[i].rax # x
      /\ Ran(x) = Past(DueOf(x), n, Top.rec) /\ origin[x] \in Seq(Frame)
      /\ Top.rdx = 0 => excs[x].private[1] < n
  BY <1>0, OnPad DEF DueOf
<1>4. /\ chain[r] # 0 => Past(DueOf(x), n, r) = Ran(x)
      /\ chain[r] = 0 => b \in DueOf(x) /\ Past(DueOf(x), n, r) = Ran(x) \cup {b}
  BY <1>0, NextDue
<1>5. stack' = [stack EXCEPT ![n] = [Top EXCEPT !.rec = r]]
  BY DEF EnterRecord, Top
<1>6. cleaned' = IF InHandler(stack'[n]) THEN cleaned ELSE [cleaned EXCEPT ![x] = Append(cleaned[x], b)]
  <2>1. DOMAIN stack' = 1 .. n /\ Len(stack') = n
    BY <1>1, <1>5
  <2> QED BY <2>1 DEF EnterRecord
<1> HIDE DEF n, r, b, chain
<1>7. /\ DOMAIN stack' = 1 .. n /\ \A i \in 1 .. n : i # n => stack'[i] = stack[i]
      /\ stack'[n].fn = Top.fn /\ stack'[n].pad = Top.pad /\ stack'[n].rec = r
      /\ stack'[n].rax = x /\ stack'[n].rdx = Top.rdx
  BY <1>1, <1>5 DEF Frame
<1>8. InHandler(stack'[n]) <=> chain[r] # 0
  BY <1>0, <1>2, <1>7 DEF InHandler, chain
<1>9. cleaned[x] \in Seq(Int \X Int \X Int) /\ Kin(x) /\ DOMAIN cleaned = Occurrences
  BY <1>3 DEF HistInv
<1>10. /\ cleaned' \in [Occurrences -> Seq(Int \X Int \X Int)]
       /\ \A y \in Occurrences : y # x => cleaned'[y] = cleaned[y]
       /\ Kin(x)' /\ Ran(x)' = Past(DueOf(x), n, r)
  <2>1. CASE chain[r] # 0
    <3>1. cleaned' = cleaned
      BY <1>6, <1>8, <2>1
    <3> QED BY <1>0, <1>4, <1>9, <2>1, <3>1 DEF HistInv, Kin, Ran, DueOf
  <2>2. CASE chain[r] = 0
    <3> DEFINE s == cleaned[x]
               t == Append(s, b)
    <3>1. cleaned' = [cleaned EXCEPT ![x] = t]
      BY <1>6, <1>8, <2>2
    <3>2. b \in DueOf(x) /\ b[1] = n /\ b[3] = r /\ b \in Int \X Int \X Int
      BY <1>1, <1>2, <1>4, <2>2 DEF b, Frame
    <3>3. ASSUME NEW m \in DOMAIN s  PROVE s[m][1] > b[1] \/ (s[m][1] = b[1] /\ s[m][3] < b[3])
      <4>1. s[m] \in Past(DueOf(x), n, Top.rec)
        BY <1>3 DEF Ran
      <4>2. s[m][1] \in Int /\ s[m][3] \in Int
        BY <1>3, <4>1, DueFacts DEF Past, DueOf
      <4> QED BY <1>1, <1>2, <3>2, <4>1, <4>2 DEF Past
    <3>4. /\ t \in Seq(Int \X Int \X Int) /\ Ordered(t)
          /\ {t[m] : m \in DOMAIN t} = {s[m] : m \in DOMAIN s} \cup {b}
      BY <1>9, <3>2, <3>3, OrderedAppend DEF Kin
    <3> HIDE DEF t
    <3>5. cleaned'[x] = t
      BY <1>3, <1>9, <3>1
    <3>6. Ran(x)' = Ran(x) \cup {b}
      BY <3>4, <3>5 DEF Ran
    <3>7. DueOf(x)' = DueOf(x)
      BY <1>0 DEF DueOf
    <3>8. Kin(x)'
      BY <1>9, <3>2, <3>4, <3>5, <3>6, <3>7 DEF Kin
    <3>9. cleaned' \in [Occurrences -> Seq(Int \X Int \X Int)]
      BY <3>1, <3>4 DEF HistInv
    <3> QED BY <1>4, <1>9, <2>2, <3>1, <3>6, <3>8, <3>9
  <2> QED BY <2>1, <2>2
<1>11. ASSUME NEW i, i = n  PROVE RanAt(i)'
  <2>1. DueOf(x)' = DueOf(x)
    BY <1>0 DEF DueOf
  <2>2. RanBy(x, i)'
    BY <1>0, <1>3, <1>7, <1>10, <1>11, <2>1 DEF RanBy
  <2> QED BY <1>7, <1>11, <2>2 DEF RanAt
<1>12. ASSUME NEW i \in DOMAIN stack', stack'[i].rax \notin {0, d'.exc}
       PROVE  \/ RanAt(i)'
              \/ /\ i \in DOMAIN stack /\ stack[i].rax \notin {x, d.exc} /\ stack'[i] = stack[i]
  <2>1. CASE i = n
    BY <1>11, <2>1
  <2>2. CASE i # n
    <3>1. i \in 1 .. n - 1
      BY <1>1, <1>7, <2>2
    <3> QED BY <1>0, <1>1, <1>3, <1>7, <1>12, <2>2, <3>1 DEF n
  <2> QED BY <2>1, <2>2
<1> QED BY <1>0, <1>3, <1>10, <1>12, HistStep DEF Walking

LEMMA ResumeHist ==
  ASSUME FaultAssumption
  PROVE  IInv /\ HistInv /\ Unwind_Resume => HistInv'
<1> SUFFICES ASSUME IInv, HistInv, Unwind_Resume, NEW x, x = Top.rax  PROVE HistInv'
  OBVIOUS
<1> DEFINE n == Len(stack)
           e == excs[x]
           o == origin[x]
           chain == Chain[Top.fn][Top.pad]
           a == Top.pad + Len(chain) + 1
<1>0. /\ Typed /\ mode = "program" /\ mode' = "unwind" /\ d.exc = 0 /\ UNCHANGED <<excs, origin, cleaned>>
      /\ Top.pad # 0 /\ ~InHandler(Top) /\ NextRecords(Top) = {}
  BY Constants DEF IInv, Typed, Unwind_Resume
<1>1. n \in Nat \ {0} /\ DOMAIN stack = 1 .. n /\ Top \in Frame /\ Top.rec \in Nat
  BY <1>0, TopFrame DEF Frame
<1>2. /\ x \in Occurrences /\ x # 0 /\ InUse(x) /\ \A i \in 1 .. n - 1 : stack[i].rax # x
      /\ o \in Seq(Frame) /\ n \in DOMAIN o /\ o[n].fn = Top.fn /\ Top.pad \in PadsOf(o[n])
      /\ Ran(x) = Past(Due(e, o), n, Top.rec)
      /\ Top.rdx = 0 => e.private[1] < n
      /\ Top.rdx # 0 => \E k \in NextRecords(Top) : chain[k] = Top.rdx
      /\ Landed(e, o, stack, n)
  BY <1>0, OnPad
<1>3. e.private[1] < n
  BY <1>0, <1>2
<1>4. PICK s \in Regions[Top.fn] : s.pad = Top.pad
  BY <1>2 DEF PadsOf
<1>5. /\ Top.fn \in Funs /\ Top.pad \in Int /\ chain \in Seq(Nat) /\ Len(chain) \in 1 .. LongestChain
      /\ \A q \in Regions[Top.fn] : s.pad + Len(Chain[Top.fn][s.pad]) + 1 \notin q.first .. q.last
  <2>1. Top.fn \in Funs /\ Top.pad \in Int
    BY <1>1 DEF Frame
  <2> QED BY <1>0, <1>4, <2>1, RegionsAssumption
<1>6. a \in Int /\ \A q \in Regions[Top.fn] : a \notin q.first .. q.last
  BY <1>4, <1>5
<1>7. /\ stack' = At(a) /\ d'.code = "THROW" /\ d'.exc = x /\ d'.pos = n /\ d'.target = e.private[1]
  BY DEF Unwind_Resume, Idle
<1> HIDE DEF a
<1>8. /\ Len(stack') = n /\ DOMAIN stack' = 1 .. n /\ stack'[n].fn = Top.fn /\ stack'[n].at = a
      /\ stack'[n].rax = x
      /\ \A i \in 1 .. n : i # n => stack'[i] = stack[i]
  BY <1>0, <1>6, <1>7, AtLemma
<1>9. OutOfRegions(Top')
  BY <1>6, <1>8 DEF OutOfRegions, Top
<1> HIDE DEF n
<1>10. Past(Due(e, o), n, LongestChain) = Ran(x)
  <2> DEFINE more == {c \in Due(e, o) : c[1] = n /\ c[2] = Top.pad /\ c[3] > Top.rec /\ c[3] <= LongestChain}
  <2>1. /\ o[n] \in Frame /\ DOMAIN chain = 1 .. Len(chain)
    BY <1>2, <1>5
  <2>2. Top.rec <= LongestChain /\ Top.rec \in Int /\ LongestChain \in Int
    <3>1. Top.rec \in 0 .. Len(chain)
      BY <1>1, <1>2 DEF Landed, Progress, Top, n
    <3>2. \A m \in 1 .. LongestChain : \A k \in 0 .. m : k <= LongestChain /\ k \in Int
      BY DEF LongestChain
    <3>3. LongestChain \in Int
      BY DEF LongestChain
    <3> QED BY <1>5, <3>1, <3>2, <3>3
  <2>3. ASSUME NEW c \in more  PROVE FALSE
    <3>1. c[3] \in Int /\ c[3] > Top.rec /\ c[1] = n /\ c[2] = Top.pad /\ Cleans(o[c[1]], c[2], c[3])
      BY <1>2, <2>3, DueFacts
    <3>2. c[3] \in DOMAIN chain /\ chain[c[3]] = 0
      BY <1>2, <3>1 DEF Cleans
    <3>3. c[3] \in Top.rec + 1 .. Len(chain)
      BY <1>1, <2>1, <3>1, <3>2
    <3> QED BY <1>0, <3>2, <3>3 DEF NextRecords
  <2>4. Past(Due(e, o), n, LongestChain) = Past(Due(e, o), n, Top.rec) \cup more
    BY <1>0, <1>2, <2>2, PastRecords
  <2> HIDE DEF more
  <2> QED BY <1>2, <2>3, <2>4
<1>11. RanInFlight(d.exc, excs[d.exc], origin[d.exc])'
  <2>1. Ran(x)' = Ran(x)
    BY <1>0 DEF Ran
  <2>2. (OutOfRegions(Top) /\ d.target < Len(stack)
         /\ Ran(d.exc) = Past(Due(excs[d.exc], origin[d.exc]), d.pos, IF d.pos = Len(stack) THEN LongestChain ELSE 0))'
    BY <1>0, <1>3, <1>7, <1>8, <1>9, <1>10, <2>1
  <2> QED BY <1>0, <1>7, <2>2 DEF RanInFlight
<1>12. Kin(x)'
  <2>1. Kin(x)
    BY <1>2 DEF HistInv
  <2>2. Ran(x)' = Ran(x) /\ DueOf(x)' = DueOf(x)
    BY <1>0 DEF Ran, DueOf
  <2> QED BY <1>0, <2>1, <2>2 DEF Kin
<1>13. ASSUME NEW i \in DOMAIN stack', stack'[i].rax \notin {0, d'.exc}
       PROVE  i \in DOMAIN stack /\ stack[i].rax \notin {x, d.exc} /\ stack'[i] = stack[i]
  BY <1>0, <1>1, <1>7, <1>8, <1>13
<1>14. cleaned' \in [Occurrences -> Seq(Int \X Int \X Int)]
  BY <1>0 DEF HistInv
<1> QED BY <1>0, <1>11, <1>12, <1>13, <1>14, HistStep

LEMMA PastAll ==
  ASSUME NEW e, NEW o \in Seq(Frame), NEW i \in Int
  PROVE  Past(Due(e, o), i, LongestChain) = Past(Due(e, o), i - 1, 0)
<1> SUFFICES ASSUME NEW c \in Due(e, o)
             PROVE  (c[1] > i \/ (c[1] = i /\ c[3] <= LongestChain))
                      <=> (c[1] > i - 1 \/ (c[1] = i - 1 /\ c[3] <= 0))
  BY DEF Past
<1>1. c[1] \in Int /\ c[3] \in Int /\ c[3] > 0 /\ c[3] \in 1 .. LongestChain
  BY DueFacts
<1> QED BY <1>1 DEF LongestChain

LEMMA ContinueHist ==
  ASSUME IInv, HistInv, Walking, d.pos > 0, ContinueSearch,
         UNCHANGED <<mode, stack, excs, origin, cleaned>>,
         d.exc # 0 /\ d.code # "UNWIND" /\ ~(mode = "dispatch" /\ d.code = "THROW") => NoCleanup(Visited)
  PROVE  HistInv'
<1> DEFINE x == d.exc
           e == excs[x]
           o == origin[x]
           n == Len(stack)
<1>1. /\ d'.pos = d.pos - 1 /\ d'.exc = x /\ d'.code = d.code /\ d'.info = d.info /\ d'.target = d.target
  BY InFlight DEF ContinueSearch, Typed, Dispatch
<1>2. Walking'
  BY DEF Walking
<1>3. ASSUME x # 0  PROVE RanInFlight(d.exc, excs[d.exc], origin[d.exc])'
  <2>1. /\ Flight(e, o) /\ Below(o, stack, n) /\ o \in Seq(Frame) /\ n \in Nat \ {0}
        /\ d.pos \in 1 .. n /\ RanInFlight(x, e, o)
    BY <1>3, InFlight DEF Flight, Typed, HistInv
  <2>2. d.pos # n => o[d.pos] = Visited
    BY <2>1, SameFn DEF Visited
  <2>3. Ran(x)' = Ran(x)
    BY <1>1 DEF Ran
  <2>4. CASE mode = "dispatch" /\ d.code = "THROW"
    BY <1>1, <2>1, <2>4 DEF RanInFlight
  <2>5. CASE mode = "dispatch" /\ d.code = "FORCED"
    <3>1. stack = o
      BY <2>1, <2>5 DEF Flight, Search, Colliding
    <3>2. \A j \in DOMAIN o : j > d.pos - 1 => NoCleanup(o[j])
      <4>1. NoCleanup(o[d.pos])
        BY <1>3, <2>5, <3>1 DEF Visited
      <4>2. \A j \in DOMAIN o : j > d.pos => NoCleanup(o[j])
        BY <2>1, <2>5 DEF RanInFlight
      <4> QED BY <2>1, <4>1, <4>2
    <3> QED BY <1>1, <2>1, <2>5, <3>2 DEF RanInFlight
  <2>6. CASE mode = "unwind" /\ d.code = "THROW"
    <3>1. NoCleanup(Visited)
      BY <1>3, <2>6
    <3> HIDE DEF n, e, o, x
    <3>2. CASE Top = o[n] /\ Ran(x) = Past(Due(e, o), d.pos, 0)
      <4>1. NoCleanup(o[d.pos])
        BY <2>2, <3>1, <3>2 DEF Visited, Top, n
      <4>2. Ran(x) = Past(Due(e, o), d.pos - 1, 0)
        BY <2>1, <3>2, <4>1, PastFrame
      <4> QED BY <1>1, <2>3, <2>6, <3>2, <4>2 DEF RanInFlight, Top, n, e, o, x
    <3>3. CASE /\ OutOfRegions(Top) /\ d.target < n
               /\ Ran(x) = Past(Due(e, o), d.pos, IF d.pos = n THEN LongestChain ELSE 0)
      <4>1. Ran(x) = Past(Due(e, o), d.pos - 1, 0)
        <5>1. CASE d.pos = n
          BY <2>1, <3>3, <5>1, PastAll
        <5>2. CASE d.pos # n
          BY <2>1, <2>2, <3>1, <3>3, <5>2, PastFrame
        <5> QED BY <5>1, <5>2
      <4>2. d.pos - 1 # n
        BY <2>1
      <4> QED BY <1>1, <2>3, <2>6, <3>3, <4>1, <4>2 DEF RanInFlight, OutOfRegions, Top, n, e, o, x
    <3> QED BY <2>1, <2>6, <3>2, <3>3 DEF RanInFlight, n
  <2>7. CASE ~(mode = "dispatch" /\ d.code \in {"THROW", "FORCED"}) /\ ~(mode = "unwind" /\ d.code = "THROW")
    BY <1>1, <2>1, <2>3, <2>7 DEF RanInFlight
  <2> QED BY <2>4, <2>5, <2>6, <2>7
<1> QED BY <1>1, <1>2, <1>3, HistVisit

LEMMA SkipFrameHist == IInv /\ HistInv /\ SkipFrame => HistInv'
<1> SUFFICES ASSUME IInv, HistInv, SkipFrame  PROVE HistInv'
  OBVIOUS
<1>0. /\ Walking /\ d.pos > 0 /\ Visited.fn \notin DOMAIN image /\ ContinueSearch
      /\ UNCHANGED <<mode, stack, excs, origin, cleaned>>
  BY DEF SkipFrame, Walking
<1>1. Typed /\ d.pos \in 1 .. Len(stack)
  BY <1>0, InFlight DEF Typed
<1>2. Visited.fn \in Funs
  BY <1>1, TopFrame DEF Visited, Frame
<1>3. Regions[Visited.fn] = {}
  BY <1>0, <1>1, <1>2, LayoutAssumption DEF Typed
<1>4. NoCleanup(Visited)
  BY <1>3 DEF NoCleanup, Cleans, PadsOf
<1> QED BY <1>0, <1>4, ContinueHist

LEMMA PassUnwoundHist == IInv /\ HistInv /\ PassUnwound => HistInv'
<1> SUFFICES ASSUME IInv, HistInv, PassUnwound  PROVE HistInv'
  OBVIOUS
<1>1. /\ Walking /\ d.pos > 0 /\ ContinueSearch /\ d.code = "UNWIND"
      /\ UNCHANGED <<mode, stack, excs, origin, cleaned>>
  BY DEF PassUnwound, Walking, Visiting
<1> QED BY <1>1, ContinueHist

LEMMA TranslateHist == IInv /\ HistInv /\ IInv' /\ Translate => HistInv'
<1> SUFFICES ASSUME IInv, HistInv, IInv', Translate  PROVE HistInv'
  OBVIOUS
<1>1. /\ Walking /\ d.pos > 0 /\ mode = "dispatch" /\ ~GCC(d.code)
      /\ UNCHANGED <<mode, stack>>
  BY DEF Translate, Walking, Visiting
<1>2. d.exc = 0 /\ Typed /\ Free # {} /\ d \in Dispatch /\ Typed'
  BY <1>1, InFlight DEF Untranslated, Typed, IInv
<1>3. CASE map_SEH(d.code) = 0
  BY <1>1, <1>2, <1>3, ContinueHist DEF Translate
<1>4. CASE map_SEH(d.code) # 0
  <2>1. PICK x \in Free :
          /\ excs' = [excs EXCEPT ![x] = [class |-> "GNAT", id |-> map_SEH(d.code), private |-> <<0, 0, 0>>]]
          /\ d' = [d EXCEPT !.code = "THROW", !.exc = x]
          /\ origin' = [origin EXCEPT ![x] = stack] /\ cleaned' = [cleaned EXCEPT ![x] = <<>>]
    BY <1>2, <1>4 DEF Translate
  <2>2. x \in Occurrences /\ \A y \in Occurrences : y # x => excs'[y] = excs[y] /\ origin'[y] = origin[y]
    BY <1>2, <2>1 DEF Typed, Free
  <2>3. d'.exc = x /\ d'.code = "THROW"
    BY <1>2, <2>1 DEF Dispatch
  <2> QED BY <1>1, <1>2, <2>1, <2>2, <2>3, RaisedHist
<1> QED BY <1>3, <1>4

LEMMA Phase1Hist == IInv /\ HistInv /\ Phase1 => HistInv'
<1> SUFFICES ASSUME IInv, HistInv, Phase1, NEW x, x = d.exc  PROVE HistInv'
  OBVIOUS
<1> DEFINE e == excs[x]
           o == origin[x]
           a == personality_body(d.pos, x, FALSE)
           info == <<d.pos, a.landing_pad, a.ttype_filter>>
<1>1. /\ Walking /\ d.pos > 0 /\ mode = "dispatch" /\ d.code = "THROW" /\ Visited.fn \in DOMAIN image
      /\ UNCHANGED <<stack, origin, cleaned>>
  BY DEF Phase1, Walking, Visiting
<1>2. /\ x # 0 /\ x \in Occurrences /\ e \in Exc /\ Flight(e, o) /\ o \in Seq(Frame)
      /\ d \in Dispatch /\ Len(stack) \in Nat /\ excs \in [Occurrences -> Exc]
      /\ RanInFlight(x, e, o)
  BY <1>1, InFlight DEF GCC, Typed, HistInv
<1>3. stack = o /\ cleaned[x] = <<>>
  BY <1>1, <1>2 DEF Flight, Search, Unwinding, Colliding, RanInFlight
<1>4. /\ a.kind \in {"nothing", "cleanup"} => ContinueSearch /\ UNCHANGED <<mode, excs>>
      /\ a.kind \notin {"nothing", "cleanup"} =>
           excs' = [excs EXCEPT ![x].private = info] /\ RtlUnwindEx(info)
  BY DEF Phase1, setup_to_install
<1>5. a.landing_pad \in Int /\ a.ttype_filter \in Nat /\ d.pos \in Int
  BY <1>1, <1>2, BodyFinds DEF Dispatch
<1> HIDE DEF a
<1>6. CASE a.kind \in {"nothing", "cleanup"}
  BY <1>1, <1>4, <1>6, ContinueHist
<1>7. CASE a.kind \notin {"nothing", "cleanup"}
  <2>1. info \in Target
    BY <1>5 DEF Target
  <2> HIDE DEF info
  <2>2. /\ mode' = "unwind" /\ d'.pos = Len(stack) /\ d'.exc = x /\ d'.code = "THROW"
    BY <1>1, <1>2, <1>4, <1>7, <2>1, RtlUnwindExLemma
  <2>3. /\ excs'[x].class = e.class /\ excs'[x].id = e.id
        /\ \A y \in Occurrences : y # x => excs'[y] = excs[y]
    <3>1. excs' = [excs EXCEPT ![x] = [e EXCEPT !.private = info]]
      BY <1>4, <1>7
    <3> QED BY <1>2, <3>1 DEF Exc
  <2>4. \A g : Past(Due(g, o), Len(stack), 0) = {}
    <3>1. \A j \in DOMAIN o : ~(j > Len(stack))
      BY <1>2, <1>3
    <3> QED BY <1>2, <3>1, PastNone
  <2>5. Ran(x)' = {}
    BY <1>1, <1>3 DEF Ran
  <2>6. RanInFlight(d.exc, excs[d.exc], origin[d.exc])'
    <3>1. (Top = origin[d.exc][Len(stack)] /\ Ran(d.exc) = Past(Due(excs[d.exc], origin[d.exc]), d.pos, 0))'
      BY <1>1, <1>3, <2>2, <2>4, <2>5 DEF Top
    <3> QED BY <2>2, <3>1 DEF RanInFlight
  <2>7. Walking'
    BY <2>2 DEF Walking
  <2> QED BY <1>1, <2>2, <2>3, <2>6, <2>7, HistVisit
<1> QED BY <1>6, <1>7

\* Unwinding stops for a cleanup: those before it have run.
LEMMA Phase2Hist ==
  ASSUME IInv, HistInv, Walking, d.pos > 0, NEW force \in BOOLEAN, Phase2(force),
         personality_body(d.pos, d.exc, force).kind # "nothing",
         UNCHANGED <<stack, excs, origin, cleaned>>, d.exc # 0,
         excs[d.exc].private[1] < d.pos,
         Ran(d.exc) = Past(Due(excs[d.exc], origin[d.exc]), d.pos, 0)
  PROVE  HistInv'
<1> DEFINE info == setup_to_install(d.pos, personality_body(d.pos, d.exc, force))
<1>1. /\ mode' = "dispatch"
      /\ d' = [d EXCEPT !.code = "UNWIND", !.pos = Len(stack), !.target = 0, !.info = info]
  BY DEF Phase2
<1>2. info[1] = d.pos
  BY DEF setup_to_install
<1> HIDE DEF info
<1>3. d'.code = "UNWIND" /\ d'.exc = d.exc /\ d'.info[1] = d.pos
  <2>1. d \in Dispatch
    BY InFlight DEF Typed
  <2>2. d'.info = info /\ d'.code = "UNWIND" /\ d'.exc = d.exc
    BY <1>1, <2>1 DEF Dispatch
  <2> QED BY <1>2, <2>2
<1>4. Ran(d.exc)' = Ran(d.exc)
  BY <1>3 DEF Ran
<1>5. RanInFlight(d.exc, excs[d.exc], origin[d.exc])'
  BY <1>1, <1>3, <1>4 DEF RanInFlight
<1> QED BY <1>1, <1>3, <1>5, HistVisit DEF Walking

LEMMA CleanupHist ==
  ASSUME FaultAssumption
  PROVE  IInv /\ HistInv /\ Cleanup => HistInv'
<1> SUFFICES ASSUME IInv, HistInv, Cleanup  PROVE HistInv'
  OBVIOUS
<1> DEFINE e == excs[d.exc]
           o == origin[d.exc]
           a == personality_body(d.pos, d.exc, FALSE)
<1>1. /\ Walking /\ d.pos > 0 /\ mode = "unwind" /\ d.code = "THROW" /\ d.target # d.pos
      /\ Visited.fn \in DOMAIN image /\ Phase2(FALSE) /\ UNCHANGED <<stack, excs, origin, cleaned>>
  BY DEF Cleanup, Walking, Visiting
<1>2. d.exc # 0 /\ Unwinding(e, o) /\ RanInFlight(d.exc, e, o) /\ d \in Dispatch
  BY <1>1, InFlight DEF GCC, Flight, Colliding, HistInv, Typed
<1>3. Finds(a, e, Visited, FALSE)
  BY <1>1, BodyFinds
<1> HIDE DEF a
<1>4. CASE a.kind = "nothing"
  <2>1. NoCleanup(Visited)
    BY <1>3, <1>4 DEF Finds, NoCleanup
  <2>2. ContinueSearch /\ UNCHANGED mode
    BY <1>1, <1>4 DEF Phase2, a
  <2> QED BY <1>1, <2>1, <2>2, ContinueHist
<1>5. CASE a.kind # "nothing"
  <2>1. e.private[1] < d.pos
    <3>1. d.target \in Int /\ d.pos \in Int /\ e.private[1] = d.target /\ d.target <= d.pos
      BY <1>2 DEF Unwinding, Dispatch
    <3> QED BY <1>1, <3>1
  <2>2. a.landing_pad \in PadsOf(Visited)
    BY <1>3, <1>5 DEF Finds
  <2>3. ~(d.pos = Len(stack) /\ OutOfRegions(Top))
    BY <2>2 DEF OutOfRegions, PadsOf, Visited, Top
  <2>4. Ran(d.exc) = Past(Due(e, o), d.pos, 0)
    BY <1>1, <1>2, <2>3 DEF RanInFlight
  <2> QED BY <1>1, <1>2, <1>5, <2>1, <2>4, Phase2Hist DEF a
<1> QED BY <1>4, <1>5

LEMMA ForcedHist ==
  ASSUME FaultAssumption
  PROVE  IInv /\ HistInv /\ Forced => HistInv'
<1> SUFFICES ASSUME IInv, HistInv, Forced  PROVE HistInv'
  OBVIOUS
<1> DEFINE e == excs[d.exc]
           o == origin[d.exc]
           a == personality_body(d.pos, d.exc, TRUE)
<1>1. /\ Walking /\ d.pos > 0 /\ mode = "dispatch" /\ d.code = "FORCED"
      /\ Visited.fn \in DOMAIN image /\ Phase2(TRUE) /\ UNCHANGED <<stack, excs, origin, cleaned>>
  BY DEF Forced, Walking, Visiting
<1>2. /\ d.exc # 0 /\ e.private[1] = 0 /\ RanInFlight(d.exc, e, o) /\ o \in Seq(Frame) /\ d.pos \in Int
  BY <1>1, InFlight DEF GCC, Flight, Search, Colliding, HistInv, Typed, Dispatch
<1>3. Finds(a, e, Visited, TRUE)
  BY <1>1, BodyFinds
<1> HIDE DEF a
<1>4. CASE a.kind = "nothing"
  <2>1. NoCleanup(Visited)
    BY <1>3, <1>4 DEF Finds, NoCleanup
  <2>2. ContinueSearch /\ UNCHANGED mode
    BY <1>1, <1>4 DEF Phase2, a
  <2> QED BY <1>1, <2>1, <2>2, ContinueHist
<1>5. CASE a.kind # "nothing"
  <2>1. cleaned[d.exc] = <<>> /\ \A j \in DOMAIN o : j > d.pos => NoCleanup(o[j])
    BY <1>1, <1>2 DEF RanInFlight
  <2>2. Past(Due(e, o), d.pos, 0) = {}
    BY <1>2, <2>1, PastNone
  <2>3. Ran(d.exc) = {}
    BY <2>1 DEF Ran
  <2> QED BY <1>1, <1>2, <1>5, <2>2, <2>3, Phase2Hist DEF a
<1> QED BY <1>4, <1>5

LEMMA CollideHist == IInv /\ HistInv /\ Collide => HistInv'
<1> SUFFICES ASSUME IInv, HistInv, Collide  PROVE HistInv'
  OBVIOUS
<1>1. /\ Walking /\ d.pos > 0 /\ mode = "dispatch" /\ d.code = "UNWIND"
      /\ UNCHANGED <<stack, excs, origin, cleaned>>
  BY DEF Collide, Walking, Visiting
<1>2. CASE d.info[1] # d.pos
  BY <1>1, <1>2, ContinueHist DEF Collide
<1>3. CASE d.info[1] = d.pos
  <2>1. RtlUnwindEx(d.info)
    BY <1>3 DEF Collide, RtlUnwindEx
  <2>2. d \in Dispatch /\ Len(stack) \in Nat /\ d.info \in Target
    BY <1>1, InFlight DEF Typed, Dispatch
  <2>3. mode' = "unwind" /\ d'.exc = d.exc /\ d'.code = d.code /\ d'.info = d.info
    BY <2>1, <2>2, RtlUnwindExLemma
  <2>4. d.exc # 0 => RanInFlight(d.exc, excs[d.exc], origin[d.exc])'
    <3>1. Ran(d.exc)' = Ran(d.exc)
      BY <1>1, <2>3 DEF Ran
    <3> QED BY <1>1, <2>3, <3>1 DEF RanInFlight, HistInv
  <2> QED BY <1>1, <2>3, <2>4, HistVisit DEF Walking
<1> QED BY <1>2, <1>3

LEMMA TargetUnwindHist == IInv /\ HistInv /\ TargetUnwind => HistInv'
<1> SUFFICES ASSUME IInv, HistInv, TargetUnwind, NEW x, x = d.exc, NEW p, p = d.pos  PROVE HistInv'
  OBVIOUS
<1> DEFINE e == excs[x]
           o == origin[x]
           kept == SubSeq(stack, 1, p)
           new == [kept[p] EXCEPT !.at = d.info[2], !.pad = d.info[2], !.rec = 0,
                                  !.rax = x, !.rdx = d.info[3]]
<1>1. /\ Walking /\ p > 0 /\ mode = "unwind" /\ mode' = "program" /\ d' = Idle /\ p = d.target
      /\ stack' = [kept EXCEPT ![p] = new] /\ UNCHANGED <<excs, origin, cleaned>> /\ d'.exc = 0
  BY Constants DEF TargetUnwind, Walking, Visiting
<1>2. /\ Typed /\ p \in 1 .. Len(stack) /\ Len(stack) \in Nat /\ DOMAIN stack = 1 .. Len(stack)
      /\ stack \in Seq(Frame)
  BY <1>1, InFlight DEF Typed
<1>3. /\ x # 0 /\ x \in Occurrences /\ e.class # "none" /\ Flight(e, o) /\ RanInFlight(x, e, o)
      /\ \A i \in 1 .. Len(stack) - 1 : stack[i].rax # x
  BY <1>1, InFlight DEF Untranslated, HistInv
<1>4. /\ kept \in Seq(Frame) /\ DOMAIN kept = 1 .. p /\ \A i \in 1 .. p : kept[i] = stack[i]
  BY <1>2
<1>5. new.rax = x /\ new.rec = 0 /\ new.rdx = d.info[3]
  <2>1. kept[p] \in Frame
    BY <1>1, <1>2, <1>4
  <2> HIDE DEF kept
  <2> QED BY <2>1 DEF Frame
<1> HIDE DEF kept, new
<1>6. DOMAIN stack' = 1 .. p /\ stack'[p] = new /\ \A i \in 1 .. p : i # p => stack'[i] = stack[i]
  BY <1>1, <1>2, <1>4
<1>7. Ran(x) = Past(Due(e, o), p, 0) /\ (d.info[3] = 0 => e.private[1] < p)
  <2>1. CASE Unwinding(e, o)
    <3>1. /\ d.code = "THROW" /\ d.info = e.private /\ d.info[3] # 0
      BY <1>1, <2>1 DEF Unwinding, Aim
    <3>2. p # Len(stack) \/ Ran(x) = Past(Due(e, o), p, 0)
      BY <1>1, <1>2, <1>3, <3>1 DEF RanInFlight
    <3> QED BY <1>1, <1>3, <3>1, <3>2 DEF RanInFlight
  <2>2. CASE Colliding(e, o)
    BY <1>1, <1>3, <2>2 DEF Colliding, RanInFlight
  <2> QED BY <1>1, <1>3, <2>1, <2>2 DEF Flight
<1>8. ASSUME NEW i \in DOMAIN stack', stack'[i].rax \notin {0, d'.exc}
      PROVE  \/ RanAt(i)'
             \/ /\ i \in DOMAIN stack /\ stack[i].rax \notin {x, d.exc} /\ stack'[i] = stack[i]
  <2>1. CASE i = p
    <3>1. RanBy(x, i)'
      BY <1>1, <1>5, <1>6, <1>7, <2>1 DEF RanBy, Ran, DueOf
    <3> QED BY <1>5, <1>6, <2>1, <3>1 DEF RanAt
  <2>2. CASE i # p
    <3>1. i \in 1 .. Len(stack) - 1
      BY <1>2, <1>6, <2>2
    <3> QED BY <1>2, <1>3, <1>6, <2>2, <3>1
  <2> QED BY <2>1, <2>2
<1>9. Kin(x)' /\ cleaned' \in [Occurrences -> Seq(Int \X Int \X Int)]
  <2>1. InUse(x)
    BY <1>3 DEF InUse, NoExc
  <2> QED BY <1>1, <1>3, <2>1 DEF HistInv, Kin, Ran, DueOf
<1> QED BY <1>1, <1>3, <1>8, <1>9, HistStep DEF Walking

LEMMA Unwind_ForcedUnwindHist == IInv /\ HistInv /\ Unwind_ForcedUnwind => HistInv'
<1> SUFFICES ASSUME IInv, HistInv, Unwind_ForcedUnwind, NEW x, x = d.exc  PROVE HistInv'
  OBVIOUS
<1> DEFINE e == excs[x]
           o == origin[x]
           g == [e EXCEPT !.private = <<0, 0, 0>>]
<1>1. /\ Walking /\ mode = "dispatch" /\ mode' = mode /\ d.code = "THROW"
      /\ excs' = [excs EXCEPT ![x] = g]
      /\ d'.code = "FORCED" /\ d'.exc = x /\ d'.pos = Len(stack)
      /\ UNCHANGED <<stack, origin, cleaned>>
  BY DEF Unwind_ForcedUnwind, AtEnd, Walking, RaiseException, Idle
<1>2. /\ x # 0 /\ x \in Occurrences /\ e \in Exc /\ Flight(e, o) /\ o \in Seq(Frame)
      /\ Len(stack) \in Nat /\ excs \in [Occurrences -> Exc] /\ RanInFlight(x, e, o)
  BY <1>1, InFlight DEF GCC, Typed, HistInv
<1>3. stack = o /\ cleaned[x] = <<>>
  BY <1>1, <1>2 DEF Flight, Search, Unwinding, Colliding, RanInFlight
<1>4. /\ excs'[x].class = e.class /\ excs'[x].id = e.id
      /\ \A y \in Occurrences : y # x => excs'[y] = excs[y]
  BY <1>1, <1>2 DEF Exc
<1>5. \A j \in DOMAIN o : ~(j > Len(stack))
  BY <1>2, <1>3
<1>6. RanInFlight(d.exc, excs[d.exc], origin[d.exc])' /\ Walking'
  BY <1>1, <1>3, <1>5 DEF RanInFlight, Walking
<1> QED BY <1>1, <1>4, <1>6, HistVisit

-----------------------------------------------------------------------------
LEMMA InitHist == Init => HistInv
<1> SUFFICES ASSUME Init  PROVE HistInv
  OBVIOUS
<1>1. PICK f \in Roots : stack = <<NewFrame(f)>>
  BY DEF Init
<1>2. DOMAIN stack = {1} /\ stack[1].rax = 0
  BY <1>1 DEF NewFrame
<1>3. \A x \in Occurrences : ~InUse(x)
  BY DEF Init, InUse
<1>4. cleaned \in [Occurrences -> Seq(Int \X Int \X Int)]
  BY DEF Init
<1> QED BY <1>2, <1>3, <1>4 DEF HistInv, RanAt, Walking, Init

LEMMA NextHist ==
  ASSUME FaultAssumption
  PROVE  IInv /\ HistInv /\ [Next]_vars => HistInv'
<1> SUFFICES ASSUME IInv, HistInv, [Next]_vars  PROVE HistInv'
  OBVIOUS
<1>0. IInv'
  BY NextIInv
<1>1. CASE Program
  <2>1. Terminate => HistInv'
    BY HistEnd DEF Terminate
  <2> QED BY <1>0, <1>1, <2>1, CallHist, ReturnHist, RaiseHist, FaultHist, EnterRecordHist,
             FinishHandlerHist, ResumeHist DEF Program
<1>2. CASE Visit
  BY <1>0, <1>2, SkipFrameHist, TranslateHist, Phase1Hist, CleanupHist, ForcedHist, CollideHist,
     PassUnwoundHist, TargetUnwindHist DEF Visit
<1>3. CASE Finish
  <2>1. EndOfStack \/ ContinueFault \/ Abort => HistInv'
    BY HistEnd DEF EndOfStack, ContinueFault, Abort, AtEnd
  <2> QED BY <1>3, <2>1, Unwind_ForcedUnwindHist DEF Finish
<1>4. CASE UNCHANGED vars
  <2>1. UNCHANGED <<mode, stack, excs, d, origin, cleaned>>
    BY <1>4 DEF vars
  <2>2. /\ \A x : (InUse(x)' <=> InUse(x)) /\ (Kin(x)' <=> Kin(x))
        /\ \A i : RanAt(i)' <=> RanAt(i)
    BY <2>1 DEF InUse, Kin, Ran, DueOf, RanAt, RanBy
  <2>3. RanInFlight(d.exc, excs[d.exc], origin[d.exc])' <=> RanInFlight(d.exc, excs[d.exc], origin[d.exc])
    BY <2>1 DEF RanInFlight, Ran, OutOfRegions, Top
  <2> QED BY <2>1, <2>2, <2>3 DEF HistInv, Walking
<1> QED BY <1>1, <1>2, <1>3, <1>4 DEF Next

\* A handler finds that all cleanups due have run.
LEMMA AllHaveRun ==
  ASSUME FaultAssumption, IInv, HistInv, NEW x \in Occurrences, InUse(x),
         NEW i \in DOMAIN stack, Running(i), stack[i].rax = x, InHandler(stack[i])
  PROVE  Ran(x) = CleanupsDue(x)
<1>1. mode # "exited" /\ Typed
  BY DEF IInv, Exited, InHandler
<1>2. Landed(excs[x], origin[x], stack, i) /\ RanBy(x, i)
  BY <1>1 DEF IInv, HistInv, FrameInv, RanAt, Running
<1>3. Handlers(x) # {} /\ Innermost(x) = <<i, stack[i].pad, stack[i].rec>>
  BY <1>2, LandedIsInnermost
<1>4. CleanupsDue(x) = DueOf(x) /\ origin[x] \in Seq(Frame)
  BY <1>1, DueIsOwed DEF Typed
<1>5. ASSUME NEW c \in CleanupsDue(x)  PROVE c \in Past(DueOf(x), i, stack[i].rec)
  <2>1. c[1] > i \/ (c[1] = i /\ c[3] < stack[i].rec)
    BY <1>3 DEF CleanupsDue
  <2>2. c[3] \in Int /\ stack[i].rec \in Nat
    <3>1. c \in Due(excs[x], origin[x])
      BY <1>4 DEF DueOf
    <3>2. stack[i] \in Frame
      BY <1>1, TopFrame
    <3> QED BY <1>4, <3>1, <3>2, DueFacts DEF Frame
  <2> QED BY <1>4, <2>1, <2>2 DEF Past
<1> QED BY <1>2, <1>4, <1>5 DEF RanBy, Past

LEMMA CountRan ==
  ASSUME NEW x, cleaned[x] \in Seq(Int \X Int \X Int),
         Ordered(cleaned[x])
  PROVE  Cardinality(Ran(x)) = Len(cleaned[x])
<1> DEFINE s == cleaned[x]
           n == Len(s)
<1>1. /\ n \in Nat /\ DOMAIN s = 1 .. n /\ s \in [1 .. n -> Int \X Int \X Int]
      /\ \A m \in 1 .. n : s[m] \in Int \X Int \X Int
  <2> SUFFICES ASSUME NEW t \in Seq(Int \X Int \X Int)
               PROVE  /\ Len(t) \in Nat /\ DOMAIN t = 1 .. Len(t)
                      /\ t \in [1 .. Len(t) -> Int \X Int \X Int]
                      /\ \A m \in 1 .. Len(t) : t[m] \in Int \X Int \X Int
    OBVIOUS
  <2> QED OBVIOUS
<1>2. \A m, l \in 1 .. n : s[m] = s[l] => m = l
  <2>1. ASSUME NEW m \in 1 .. n, NEW l \in 1 .. n, m < l  PROVE s[m] # s[l]
    <3>1. s[m][1] > s[l][1] \/ (s[m][1] = s[l][1] /\ s[m][3] < s[l][3])
      BY <1>1, <2>1 DEF Ordered
    <3>2. s[m] \in Int \X Int \X Int
      BY <1>1
    <3>3. s[m][1] \in Int /\ s[m][3] \in Int
      BY <3>2
    <3> HIDE DEF s
    <3> QED BY <3>1, <3>3
  <2> HIDE DEF s, n
  <2>2. \A m, l \in 1 .. n : m < l \/ l < m \/ m = l
    BY <1>1
  <2> QED BY <2>1, <2>2
<1> HIDE DEF n
<1>3. s \in Bijection(1 .. n, Ran(x))
  <2>1. s \in [1 .. n -> Ran(x)]
    BY <1>1 DEF Ran
  <2>2. \A c \in Ran(x) : \E m \in 1 .. n : s[m] = c
    BY <1>1 DEF Ran
  <2> QED BY <1>2, <2>1, <2>2 DEF Bijection, Injection, Surjection, IsInjective
<1>4. ExistsBijection(1 .. n, Ran(x))
  BY <1>3 DEF ExistsBijection
<1> QED BY <1>1, <1>4, FS_CountingElements DEF n

(***************************************************************************)
(* Between the raise and the handler the cleanups of the frames in between *)
(* run once each, from the innermost to the outermost, for every program   *)
(* and every layout of its tables, if no instruction that faults is the    *)
(* first of a region or the first behind one.                              *)
(***************************************************************************)
THEOREM CleanupsOnceInOrderHolds ==
  ASSUME FaultAssumption
  PROVE  Spec => []CleanupsOnceInOrder
<1>1. IInv /\ HistInv => CleanupsOnceInOrder
  <2> SUFFICES ASSUME IInv, HistInv, NEW x \in Occurrences, InUse(x)
               PROVE  /\ \A m \in DOMAIN cleaned[x] : cleaned[x][m] \in CleanupsDue(x)
                      /\ \A m, n \in DOMAIN cleaned[x] : m < n =>
                           \/ cleaned[x][m][1] > cleaned[x][n][1]
                           \/ cleaned[x][m][1] = cleaned[x][n][1] /\ cleaned[x][m][3] < cleaned[x][n][3]
                      /\ (\E i \in DOMAIN stack : Running(i) /\ stack[i].rax = x /\ InHandler(stack[i]))
                           => Len(cleaned[x]) = Cardinality(CleanupsDue(x))
    BY DEF CleanupsOnceInOrder
  <2>1. Kin(x) /\ CleanupsDue(x) = DueOf(x) /\ cleaned[x] \in Seq(Int \X Int \X Int)
    BY DueIsOwed DEF IInv, HistInv
  <2>2. ASSUME NEW i \in DOMAIN stack, Running(i), stack[i].rax = x, InHandler(stack[i])
        PROVE  Len(cleaned[x]) = Cardinality(CleanupsDue(x))
    <3>1. Ran(x) = CleanupsDue(x)
      BY <2>2, AllHaveRun
    <3> QED BY <2>1, <3>1, CountRan DEF Kin
  <2> QED BY <2>1, <2>2 DEF Kin, Ordered, Ran
<1> QED BY <1>1, InitIInv, InitHist, NextIInv, NextHist, PTL DEF Spec
===============================================================================
