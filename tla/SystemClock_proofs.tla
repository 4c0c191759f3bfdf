-------------------------- MODULE SystemClock_proofs --------------------------
(***************************************************************************)
(* Theorems about SystemClock for any number of tasks, calls, adjustments  *)
(* of the system's time and updates of the base.                           *)
(***************************************************************************)
EXTENDS SystemClock, TLAPS

Copying == {"signing", "pointing", "copying"}

\* A call has a try left while it copies; signatures only grow.
TriesLeft ==
  \A t \in Tasks : /\ pc[t] \in Copying \cup {"idle"} => tries[t] < MaxTries
                   /\ Sig1[t] <= Signature

\* What the owner of the lock has written into New_Data so far.
SampleTrue ==
  \A t \in Tasks :
    /\ pc[t] = "ticking" =>
         buffer[New_Data].Base_Time - Loc_Ticks[t] \in Offsets
    /\ pc[t] \in {"sampled", "switching"} =>
         buffer[New_Data].Base_Time - buffer[New_Data].Base_Ticks \in Offsets
    /\ pc[t] = "switching" =>
         buffer[New_Data].Base_Clock = buffer[New_Data].Base_Time

(***************************************************************************)
(* A reader whose signature is still valid copies from a buffer that has   *)
(* not been touched since it read Current: it is Current, or it was until  *)
(* the step before, and then nobody writes before Signature counts up.     *)
(***************************************************************************)
CopyIntact ==
  \A t \in Tasks :
    pc[t] = "copying" /\ Sig1[t] = Signature =>
      /\ \/ from[t] = Current
         \/ \E w \in Tasks : pc[w] = "bumping"
      /\ buffer[from[t]] \in bases
      /\ \A f \in Fields \ todo[t] : Data[t][f] = buffer[from[t]][f]

IInv ==
  /\ TypeOK
  /\ TriesLeft
  /\ SampleTrue
  /\ CopyIntact
  /\ PublishedBase
  /\ CoherentCopy

LEMMA BaseType ==
  ASSUME NEW t \in Int, NEW o \in Int
  PROVE  /\ Base(t, o) \in Clock_Data
         /\ Base(t, o).Base_Clock = t + o
         /\ Base(t, o).Base_Time = t + o
         /\ Base(t, o).Base_Ticks = t
  BY DEF Base, Clock_Data, Fields

LEMMA NoDataType == NoData \in Clock_Data
<1>1. 0 \in Int
  OBVIOUS
<1> QED
  BY <1>1, BaseType DEF NoData

\* The buffer not in use is the other one.
LEMMA OtherBuffer ==
  ASSUME Current \in Buffers
  PROVE  /\ New_Data \in Buffers
         /\ New_Data # Current
         /\ \A b \in Buffers : b = Current \/ b = New_Data
  BY DEF New_Data, Buffers

LEMMA InitIInv == Init => IInv
<1> SUFFICES ASSUME Init PROVE IInv
  OBVIOUS
<1> USE ClockAssumption DEF ClockAssumption, Init
<1>1. /\ Base(0, offset) \in Clock_Data /\ NoData \in Clock_Data
      /\ Base(0, offset).Base_Clock = Base(0, offset).Base_Time
      /\ Base(0, offset).Base_Time - Base(0, offset).Base_Ticks \in Offsets
  <2>1. 0 \in Int /\ offset \in Int /\ offset \in Offsets
    OBVIOUS
  <2>2. 0 + offset = offset /\ offset - 0 = offset
    BY <2>1
  <2>3. /\ Base(0, offset) \in Clock_Data
        /\ Base(0, offset).Base_Clock = 0 + offset
        /\ Base(0, offset).Base_Time = 0 + offset
        /\ Base(0, offset).Base_Ticks = 0
    BY <2>1, BaseType
  <2> QED
    BY <2>1, <2>2, <2>3, NoDataType
<1>2. TypeOK
  BY <1>1 DEF TypeOK, Buffers, PCs, Inside
<1>3. TriesLeft /\ SampleTrue /\ CopyIntact /\ CoherentCopy
  BY DEF TriesLeft, SampleTrue, CopyIntact, CoherentCopy, HasBase, HasTicks, Inside
<1>4. PublishedBase
  BY <1>1 DEF PublishedBase, Buffers
<1> QED
  BY <1>2, <1>3, <1>4 DEF IInv

LEMMA NextTypeOK == IInv /\ [Next]_vars => TypeOK'
<1> SUFFICES ASSUME IInv, [Next]_vars PROVE TypeOK'
  OBVIOUS
<1> USE ClockAssumption, OtherBuffer DEF ClockAssumption, IInv, TriesLeft, TypeOK, Go,
      hardware, shared, history, locals, PCs, Inside, Copying
<1>1. CASE Tick
  BY <1>1 DEF Tick
<1>2. CASE Adjust
  BY <1>2 DEF Adjust
<1>3. ASSUME NEW t \in Tasks, CallStep(t) PROVE TypeOK'
  <2>1. CASE Call(t)
    BY <2>1 DEF Call
  <2>2. CASE LoadSignature(t)
    BY <2>2 DEF LoadSignature
  <2>3. CASE LoadCurrent(t)
    BY <2>3 DEF LoadCurrent
  <2>4. ASSUME NEW f \in Fields, CopyField(t, f) PROVE TypeOK'
    BY <2>4 DEF CopyField, Clock_Data
  <2>5. CASE CheckSignature(t)
    BY <2>5 DEF CheckSignature
  <2>6. CASE ReadCounter(t)
    BY <2>6 DEF ReadCounter
  <2>7. CASE ReadSystemTime(t)
    BY <2>7 DEF ReadSystemTime
  <2>8. CASE EnterGetBaseTime(t)
    BY <2>8 DEF EnterGetBaseTime
  <2>9. CASE LockAndCheck(t)
    BY <2>9 DEF LockAndCheck
  <2>10. CASE TakeSample(t)
    <3>1. ticks + offset \in Int
      OBVIOUS
    <3>2. buffer' \in [Buffers -> Clock_Data]
      BY <3>1, <2>10 DEF TakeSample, Clock_Data, Fields
    <3>3. /\ samples' \in [Tasks -> 0..MaxSamples]
          /\ Loc_Ticks' \in [Tasks -> 0..MaxTicks]
          /\ pc' \in [Tasks -> PCs]
          /\ \A u \in Tasks : pc'[u] \in Inside <=> L' = u
      BY <2>10 DEF TakeSample
    <3> QED
      BY <3>2, <3>3, <2>10 DEF TakeSample
  <2>11. CASE StoreTicks(t)
    BY <2>11 DEF StoreTicks, Clock_Data, Fields
  <2>12. CASE StoreClock(t)
    BY <2>12 DEF StoreClock, Clock_Data, Fields
  <2>13. CASE SwitchBuffer(t)
    BY <2>13 DEF SwitchBuffer
  <2>14. CASE BumpSignature(t)
    BY <2>14 DEF BumpSignature
  <2>15. CASE Return(t)
    BY <2>15, NoDataType DEF Return
  <2> QED
    BY <1>3, <2>1, <2>2, <2>3, <2>4, <2>5, <2>6, <2>7, <2>8, <2>9, <2>10, <2>11,
       <2>12, <2>13, <2>14, <2>15 DEF CallStep
<1>4. CASE UNCHANGED vars
  BY <1>4 DEF vars
<1> QED
  BY <1>1, <1>2, <1>3, <1>4 DEF Next

\* What no action writes while a task holds the lock, but that task.
LEMMA OneWriter ==
  ASSUME TypeOK, NEW t \in Tasks, NEW u \in Tasks, pc[t] \in Inside,
         pc[u] \in Inside
  PROVE  t = u
  BY DEF TypeOK

LEMMA NextIInv == IInv /\ [Next]_vars => IInv'
<1> SUFFICES ASSUME IInv, [Next]_vars PROVE IInv'
  OBVIOUS
<1> DEFINE Kept == TriesLeft' /\ SampleTrue' /\ CopyIntact' /\ PublishedBase' /\ CoherentCopy'
<1>t. TypeOK /\ TypeOK'
  BY NextTypeOK DEF IInv
<1>n. /\ New_Data \in Buffers /\ New_Data # Current
      /\ \A b \in Buffers : b = Current \/ b = New_Data
      /\ Current' = Current => New_Data' = New_Data
  BY <1>t, OtherBuffer DEF TypeOK, New_Data
<1> USE ClockAssumption DEF ClockAssumption
<1>1. CASE Tick \/ Adjust \/ UNCHANGED vars
  BY <1>1, <1>t, <1>n DEF Tick, Adjust, vars, IInv, TriesLeft, SampleTrue, CopyIntact,
     PublishedBase, CoherentCopy, HasBase, HasTicks, hardware, shared, history, locals
<1>2. ASSUME NEW t \in Tasks, CallStep(t) PROVE Kept
  <2> USE DEF Go, hardware, shared, history, locals
  <2>1. CASE Call(t)
    BY <2>1, <1>t, <1>n DEF Call, IInv, TypeOK, TriesLeft, SampleTrue, CopyIntact,
       PublishedBase, CoherentCopy, HasBase, HasTicks, Inside, Copying
  <2>2. CASE LoadSignature(t)
    BY <2>2, <1>t, <1>n DEF LoadSignature, IInv, TypeOK, TriesLeft, SampleTrue, CopyIntact,
       PublishedBase, CoherentCopy, HasBase, HasTicks, Inside, Copying
  <2>3. CASE LoadCurrent(t)
    BY <2>3, <1>t, <1>n DEF LoadCurrent, IInv, TypeOK, TriesLeft, SampleTrue, CopyIntact,
       PublishedBase, CoherentCopy, HasBase, HasTicks, Inside, Copying
  <2>4. ASSUME NEW f \in Fields, CopyField(t, f) PROVE Kept
    BY <2>4, <1>t, <1>n DEF CopyField, IInv, TypeOK, TriesLeft, SampleTrue, CopyIntact,
       PublishedBase, CoherentCopy, HasBase, HasTicks, Inside, Copying, Clock_Data
  <2>5. CASE CheckSignature(t)
    <3>1. Sig1[t] = Signature /\ pc[t] = "copying" => Data[t] \in bases
      <4> SUFFICES ASSUME Sig1[t] = Signature, pc[t] = "copying"
                   PROVE  Data[t] \in bases
        OBVIOUS
      <4>1. Data[t] \in Clock_Data /\ buffer[from[t]] \in Clock_Data
        BY <1>t DEF TypeOK
      <4>2. \A f \in Fields : Data[t][f] = buffer[from[t]][f]
        BY <2>5 DEF CheckSignature, IInv, CopyIntact
      <4>3. Data[t] = buffer[from[t]]
        BY <4>1, <4>2 DEF Clock_Data
      <4> QED
        BY <4>3 DEF IInv, CopyIntact
    <3>2. TriesLeft' /\ SampleTrue' /\ PublishedBase'
      BY <2>5, <1>t, <1>n DEF CheckSignature, IInv, TypeOK, TriesLeft, SampleTrue,
         PublishedBase, Copying
    <3>3. CopyIntact'
      BY <2>5, <1>t DEF CheckSignature, IInv, TypeOK, CopyIntact
    <3>4. CoherentCopy'
      BY <2>5, <1>t, <3>1 DEF CheckSignature, IInv, TypeOK, CoherentCopy, HasBase,
         HasTicks, Inside
    <3> QED
      BY <3>2, <3>3, <3>4
  <2>6. CASE ReadCounter(t)
    BY <2>6, <1>t, <1>n DEF ReadCounter, IInv, TypeOK, TriesLeft, SampleTrue, CopyIntact,
       PublishedBase, CoherentCopy, HasBase, HasTicks, Inside, Copying
  <2>7. CASE ReadSystemTime(t)
    BY <2>7, <1>t, <1>n DEF ReadSystemTime, IInv, TypeOK, TriesLeft, SampleTrue, CopyIntact,
       PublishedBase, CoherentCopy, HasBase, HasTicks, Inside, Copying
  <2>8. CASE EnterGetBaseTime(t)
    BY <2>8, <1>t, <1>n DEF EnterGetBaseTime, IInv, TypeOK, TriesLeft, SampleTrue, CopyIntact,
       PublishedBase, CoherentCopy, HasBase, HasTicks, Inside, Copying
  <2>9. CASE LockAndCheck(t)
    BY <2>9, <1>t, <1>n DEF LockAndCheck, IInv, TypeOK, TriesLeft, SampleTrue, CopyIntact,
       PublishedBase, CoherentCopy, HasBase, HasTicks, Inside, Copying
  <2>10. CASE TakeSample(t)
    BY <2>10, <1>t, <1>n, OneWriter DEF TakeSample, IInv, TypeOK, TriesLeft, SampleTrue,
       CopyIntact, PublishedBase, CoherentCopy, HasBase, HasTicks, Inside, Copying, Clock_Data, Fields
  <2>11. CASE StoreTicks(t)
    BY <2>11, <1>t, <1>n, OneWriter DEF StoreTicks, IInv, TypeOK, TriesLeft, SampleTrue,
       CopyIntact, PublishedBase, CoherentCopy, HasBase, HasTicks, Inside, Copying, Clock_Data, Fields
  <2>12. CASE StoreClock(t)
    BY <2>12, <1>t, <1>n, OneWriter DEF StoreClock, IInv, TypeOK, TriesLeft, SampleTrue,
       CopyIntact, PublishedBase, CoherentCopy, HasBase, HasTicks, Inside, Copying, Clock_Data, Fields
  <2>13. CASE SwitchBuffer(t)
    BY <2>13, <1>t, <1>n, OneWriter DEF SwitchBuffer, IInv, TypeOK, TriesLeft, SampleTrue,
       CopyIntact, PublishedBase, CoherentCopy, HasBase, HasTicks, Inside, Copying, Clock_Data, Fields
  <2>14. CASE BumpSignature(t)
    BY <2>14, <1>t, <1>n, OneWriter DEF BumpSignature, IInv, TypeOK, TriesLeft, SampleTrue,
       CopyIntact, PublishedBase, CoherentCopy, HasBase, HasTicks, Inside, Copying
  <2>15. CASE Return(t)
    BY <2>15, <1>t, <1>n DEF Return, IInv, TypeOK, TriesLeft, SampleTrue, CopyIntact,
       PublishedBase, CoherentCopy, HasBase, HasTicks, Inside, Copying
  <2> QED
    BY <1>2, <2>1, <2>2, <2>3, <2>4, <2>5, <2>6, <2>7, <2>8, <2>9, <2>10, <2>11,
       <2>12, <2>13, <2>14, <2>15 DEF CallStep
<1> QED
  BY <1>t, <1>1, <1>2 DEF Next, IInv

LEMMA Inductive == Spec => []IInv
  BY InitIInv, NextIInv, PTL DEF Spec

\* Every variable keeps its type, and one task at a time takes a new base.
THEOREM TypeCorrect == Spec => []TypeOK
<1>1. IInv => TypeOK
  BY DEF IInv
<1> QED
  BY <1>1, Inductive, PTL

(***************************************************************************)
(* The buffer that is Current always holds one whole and true base         *)
(* (Get_Base_Time writes the other buffer).                                *)
(***************************************************************************)
THEOREM PublishedBaseHolds == Spec => []PublishedBase
<1>1. IInv => PublishedBase
  BY DEF IInv
<1> QED
  BY <1>1, Inductive, PTL

(***************************************************************************)
(* A copy of the base made without a lock, whose signature was the same    *)
(* before and after, is a base that was Current once (the loop of Clock).  *)
(***************************************************************************)
THEOREM CoherentCopyHolds == Spec => []CoherentCopy
<1>1. IInv => CoherentCopy
  BY DEF IInv
<1> QED
  BY <1>1, Inductive, PTL

-----------------------------------------------------------------------------
(* Accuracy.                                                               *)

\* The system's time is before the base that t has copied, and the test of the
\* shift, which drops the sign of the difference, does not notice.
SetBackUnnoticed(t) ==
  /\ ReadSystemTime(t) /\ ~Shifted(t)
  /\ tries[t] < MaxTries
  /\ ticks + offset < Data[t].Base_Time

\* What a call that has read the counter takes for the system's time was that
\* by an offset in force since.
SampleInForce ==
  \A t \in Tasks :
    /\ HasTicks(t) => offset \in inForce[t] /\ Current_Ticks[t] <= ticks
    /\ pc[t] = "ticking" =>
         buffer[New_Data].Base_Time - Loc_Ticks[t] \in inForce[t]
    /\ pc[t] \in {"sampled", "switching"} =>
         buffer[New_Data].Base_Time - buffer[New_Data].Base_Ticks \in inForce[t]
    /\ pc[t] = "bumping" => Data[t].Base_Clock - Data[t].Base_Ticks \in inForce[t]

Timed == SampleInForce /\ AccurateUnlessOvertaken

\* Who keeps its data and its time has an accurate time still.
LEMMA StaysAccurate ==
  ASSUME IInv, IInv', NEW t \in Tasks, Accurate(t),
         Data'[t] = Data[t], Current_Ticks'[t] = Current_Ticks[t],
         inForce[t] \subseteq inForce'[t], ticks <= ticks'
  PROVE  Accurate(t)'
<1>1. PICK o \in inForce[t], m \in Current_Ticks[t]..ticks : Abs(Clock(t) - (m + o)) <= MaxShift
  BY DEF Accurate
<1>2. Current_Ticks[t] \in Int /\ ticks \in Int /\ ticks' \in Int
  BY ClockAssumption DEF IInv, TypeOK
<1>3. o \in inForce'[t] /\ m \in Current_Ticks'[t]..ticks' /\ Clock(t)' = Clock(t)
  BY <1>1, <1>2 DEF Clock
<1> QED
  BY <1>1, <1>3 DEF Accurate

\* A call that finds no shift returns the system's time of that moment.
LEMMA NoShiftAccurate ==
  ASSUME IInv, SampleInForce, NEW t \in Tasks, pc[t] = "comparing", tries[t] < MaxTries,
         ~Shifted(t), ticks + offset >= Data[t].Base_Time
  PROVE  Accurate(t)
<1> USE ClockAssumption DEF ClockAssumption
<1>1. /\ Data[t] \in Clock_Data /\ ticks \in Int /\ offset \in Int
      /\ Current_Ticks[t] \in Int
  BY DEF IInv, TypeOK
<1>2. /\ Data[t].Base_Time \in Int /\ Data[t].Base_Ticks \in Int /\ Data[t].Base_Clock \in Int
  BY <1>1 DEF Clock_Data, Fields
<1>3. Data[t].Base_Clock = Data[t].Base_Time
  BY DEF IInv, CoherentCopy, HasBase, HasTicks, PublishedBase
<1>4. offset \in inForce[t] /\ ticks \in Current_Ticks[t]..ticks
  BY <1>1 DEF SampleInForce, HasTicks
<1>5. Abs(Clock(t) - (ticks + offset)) <= MaxShift
  BY <1>1, <1>2, <1>3 DEF Shifted, Clock, Abs
<1> QED
  BY <1>4, <1>5 DEF Accurate

\* So does one whose base is as it took it itself.
LEMMA OwnBaseAccurate ==
  ASSUME IInv, SampleInForce, NEW t \in Tasks, pc[t] = "bumping"
  PROVE  Accurate(t)
<1> USE ClockAssumption DEF ClockAssumption
<1>1. /\ Data[t] \in Clock_Data /\ ticks \in Int /\ Current_Ticks[t] \in Int
      /\ Current_Ticks[t] <= ticks
  BY DEF IInv, TypeOK, SampleInForce, HasTicks, Inside
<1>2. /\ Data[t].Base_Ticks \in Int /\ Data[t].Base_Clock \in Int
  BY <1>1 DEF Clock_Data, Fields
<1> DEFINE o == Data[t].Base_Clock - Data[t].Base_Ticks
<1>3. o \in inForce[t] /\ Current_Ticks[t] \in Current_Ticks[t]..ticks
  BY <1>1 DEF SampleInForce
<1>4. Abs(Clock(t) - (Current_Ticks[t] + o)) <= MaxShift
  BY <1>1, <1>2 DEF Clock, Abs
<1> QED
  BY <1>3, <1>4 DEF Accurate

\* Every step keeps it, but for a set-back that goes unnoticed.
LEMMA NextTimed ==
  ASSUME IInv, IInv', Timed, [Next]_vars, \A t \in Tasks : ~SetBackUnnoticed(t)
  PROVE  Timed'
<1>t. /\ TypeOK /\ TypeOK'
      /\ \A u \in Tasks : pc[u] = "done" /\ tries[u] < MaxTries => Accurate(u)
  BY DEF IInv, Timed, AccurateUnlessOvertaken
<1>n. /\ New_Data \in Buffers /\ New_Data # Current
      /\ Current' = Current => New_Data' = New_Data
  BY <1>t, OtherBuffer DEF TypeOK, New_Data
<1> USE ClockAssumption DEF ClockAssumption
<1>1. CASE Tick \/ Adjust \/ UNCHANGED vars
  <2>1. /\ UNCHANGED <<pc, buffer, Current, Data, tries, Loc_Ticks, Current_Ticks>>
        /\ ticks <= ticks'
        /\ \A u \in Tasks : inForce[u] \subseteq inForce'[u]
        /\ \A u \in Tasks : HasTicks(u) => offset' = offset \/ offset' \in inForce'[u]
    BY <1>1, <1>t DEF Tick, Adjust, vars, hardware, shared, history, locals, TypeOK
  <2>2. SampleInForce'
    <3>1. ticks \in Int /\ ticks' \in Int /\ Current_Ticks \in [Tasks -> 0..MaxTicks]
      BY <1>t DEF TypeOK
    <3> QED
      BY <1>n, <2>1, <3>1 DEF Timed, SampleInForce, HasTicks, New_Data
  <2>3. AccurateUnlessOvertaken'
    BY <1>t, <2>1, StaysAccurate DEF AccurateUnlessOvertaken
  <2> QED
    BY <2>2, <2>3 DEF Timed
<1>2. ASSUME NEW t \in Tasks, CallStep(t)  PROVE Timed'
  <2> USE DEF Go, hardware, shared, history, locals
  <2>1. /\ UNCHANGED <<ticks, offset>>
        /\ \A u \in Tasks : u # t => /\ pc'[u] = pc[u] /\ Data'[u] = Data[u] /\ tries'[u] = tries[u]
                                     /\ Current_Ticks'[u] = Current_Ticks[u]
                                     /\ Loc_Ticks'[u] = Loc_Ticks[u] /\ inForce'[u] = inForce[u]
    BY <1>2, <1>t DEF TypeOK, CallStep, Call, LoadSignature, LoadCurrent, CopyField, CheckSignature,
         ReadCounter, ReadSystemTime, EnterGetBaseTime, LockAndCheck, TakeSample, StoreTicks,
         StoreClock, SwitchBuffer, BumpSignature, Return
  <2>2. AccurateUnlessOvertaken'
    <3> SUFFICES ASSUME NEW u \in Tasks, pc'[u] = "done", tries'[u] < MaxTries
                 PROVE  Accurate(u)'
      BY DEF AccurateUnlessOvertaken
    <3>1. ticks <= ticks'
      BY <2>1, <1>t DEF TypeOK
    <3>2. CASE u # t
      BY <1>t, <2>1, <3>1, <3>2, StaysAccurate
    <3>3. CASE u = t
      <4>1. ReadSystemTime(t) \/ BumpSignature(t)
        BY <1>2, <1>t, <3>3 DEF TypeOK, CallStep, Call, LoadSignature, LoadCurrent, CopyField,
             CheckSignature, ReadCounter, EnterGetBaseTime, LockAndCheck, TakeSample,
             StoreTicks, StoreClock, SwitchBuffer, Return
      <4>2. UNCHANGED <<Data, Current_Ticks, inForce, tries>>
        BY <4>1 DEF ReadSystemTime, BumpSignature
      <4>3. CASE ReadSystemTime(t)
        <5>1. pc[t] = "comparing" /\ ~Shifted(t)
          BY <1>t, <3>3, <4>3 DEF ReadSystemTime, TypeOK
        <5>2. ~(ticks + offset < Data[t].Base_Time)
          BY <3>3, <4>2, <4>3, <5>1 DEF SetBackUnnoticed
        <5>3. Data[t].Base_Time \in Int /\ ticks + offset \in Int
          BY <1>t DEF TypeOK, Clock_Data, Fields
        <5>4. Accurate(t)
          BY <3>3, <4>2, <5>1, <5>2, <5>3, NoShiftAccurate DEF Timed
        <5> QED
          BY <3>1, <3>3, <4>2, <5>4, StaysAccurate
      <4>4. CASE BumpSignature(t)
        <5>1. Accurate(t)
          BY <4>4, OwnBaseAccurate DEF Timed, BumpSignature
        <5> QED
          BY <3>1, <3>3, <4>2, <5>1, StaysAccurate
      <4> QED
        BY <4>1, <4>3, <4>4
    <3> QED
      BY <3>2, <3>3
  <2>3. ASSUME UNCHANGED <<buffer, Current>>, pc'[t] \notin {"ticking", "sampled", "switching", "bumping"},
               HasTicks(t)' => /\ offset \in inForce'[t] /\ Current_Ticks'[t] <= ticks
        PROVE  SampleInForce'
    BY <1>n, <2>1, <2>3 DEF Timed, SampleInForce, HasTicks, New_Data
  <2>4. CASE \/ Call(t) \/ LoadSignature(t) \/ LoadCurrent(t)
             \/ (\E f \in Fields : CopyField(t, f)) \/ CheckSignature(t) \/ Return(t)
    <3>1. UNCHANGED <<buffer, Current>> /\ pc'[t] \in {"idle", "signing", "pointing", "copying", "counting"}
      BY <2>4, <1>t DEF TypeOK, Call, LoadSignature, LoadCurrent, CopyField, CheckSignature, Return
    <3> QED
      BY <2>2, <2>3, <3>1 DEF HasTicks, Inside, Timed
  <2>5. CASE ReadCounter(t)
    <3>1. /\ UNCHANGED <<buffer, Current>> /\ pc'[t] = "comparing"
          /\ offset \in inForce'[t] /\ Current_Ticks'[t] <= ticks
      BY <2>5, <1>t DEF TypeOK, ReadCounter
    <3> QED
      BY <2>2, <2>3, <3>1 DEF Timed
  <2>6. CASE ReadSystemTime(t) \/ EnterGetBaseTime(t)
    <3>1. /\ UNCHANGED <<buffer, Current, inForce, Current_Ticks>> /\ HasTicks(t)
          /\ pc'[t] \in {"rebasing", "locking", "done"}
      BY <2>6, <1>t DEF TypeOK, ReadSystemTime, EnterGetBaseTime, HasTicks
    <3> QED
      BY <2>2, <2>3, <3>1 DEF Timed, SampleInForce
  <2>7. CASE LockAndCheck(t)
    <3>1. /\ UNCHANGED <<buffer, Current, inForce, Current_Ticks>> /\ HasTicks(t)
          /\ pc'[t] \in {"overtaken", "sampling"}
      BY <2>7, <1>t DEF TypeOK, LockAndCheck, HasTicks
    <3> QED
      BY <2>2, <2>3, <3>1 DEF Timed, SampleInForce
  <2>8. ASSUME pc[t] \in Inside, UNCHANGED <<Current, inForce, Current_Ticks>>,
               pc'[t] \in {"ticking", "sampled", "switching"},
               pc'[t] = "ticking" => buffer'[New_Data].Base_Time - Loc_Ticks'[t] \in inForce[t],
               pc'[t] \in {"sampled", "switching"} =>
                 buffer'[New_Data].Base_Time - buffer'[New_Data].Base_Ticks \in inForce[t]
        PROVE  SampleInForce'
    <3>1. \A u \in Tasks : u # t => pc[u] \notin Inside
      BY <1>t, <2>8, OneWriter
    <3>2. HasTicks(t)
      BY <2>8 DEF HasTicks
    <3> QED
      BY <1>n, <2>1, <2>8, <3>1, <3>2 DEF Timed, SampleInForce, HasTicks, Inside
  <2>9. CASE TakeSample(t)
    <3>1. /\ pc[t] \in Inside /\ UNCHANGED <<Current, inForce, Current_Ticks>> /\ pc'[t] = "ticking"
          /\ buffer'[New_Data].Base_Time = ticks + offset /\ Loc_Ticks'[t] = ticks
      BY <2>9, <1>t, <1>n DEF TypeOK, TakeSample, Inside, Clock_Data, Fields
    <3>2. offset \in inForce[t] /\ (ticks + offset) - ticks = offset
      BY <1>t, <3>1 DEF TypeOK, Timed, SampleInForce, HasTicks
    <3> QED
      BY <2>2, <2>8, <3>1, <3>2 DEF Timed
  <2>10. CASE StoreTicks(t)
    <3>1. /\ pc[t] = "ticking" /\ UNCHANGED <<Current, inForce, Current_Ticks>> /\ pc'[t] = "sampled"
          /\ buffer'[New_Data].Base_Time = buffer[New_Data].Base_Time
          /\ buffer'[New_Data].Base_Ticks = Loc_Ticks[t]
      BY <2>10, <1>t, <1>n DEF TypeOK, StoreTicks, Clock_Data, Fields
    <3>2. buffer[New_Data].Base_Time - Loc_Ticks[t] \in inForce[t]
      BY <3>1 DEF Timed, SampleInForce
    <3> QED
      BY <2>2, <2>8, <3>1, <3>2 DEF Timed, Inside
  <2>11. CASE StoreClock(t)
    <3>1. /\ pc[t] = "sampled" /\ UNCHANGED <<Current, inForce, Current_Ticks>> /\ pc'[t] = "switching"
          /\ buffer'[New_Data].Base_Time = buffer[New_Data].Base_Time
          /\ buffer'[New_Data].Base_Ticks = buffer[New_Data].Base_Ticks
      BY <2>11, <1>t, <1>n DEF TypeOK, StoreClock, Clock_Data, Fields
    <3>2. buffer[New_Data].Base_Time - buffer[New_Data].Base_Ticks \in inForce[t]
      BY <3>1 DEF Timed, SampleInForce
    <3> QED
      BY <2>2, <2>8, <3>1, <3>2 DEF Timed, Inside
  <2>12. CASE SwitchBuffer(t)
    <3>1. /\ pc[t] = "switching" /\ pc'[t] = "bumping" /\ UNCHANGED <<inForce, Current_Ticks>>
          /\ Data'[t] = buffer[New_Data]
      BY <2>12, <1>t DEF TypeOK, SwitchBuffer
    <3>2. /\ buffer[New_Data].Base_Time - buffer[New_Data].Base_Ticks \in inForce[t]
          /\ buffer[New_Data].Base_Clock = buffer[New_Data].Base_Time
      BY <3>1 DEF Timed, SampleInForce, IInv, SampleTrue
    <3>3. \A u \in Tasks : u # t => pc[u] \notin Inside
      BY <1>t, <3>1, OneWriter DEF Inside
    <3>4. HasTicks(t)
      BY <3>1 DEF HasTicks, Inside
    <3>5. SampleInForce'
      BY <2>1, <3>1, <3>2, <3>3, <3>4 DEF Timed, SampleInForce, HasTicks, Inside
    <3> QED
      BY <2>2, <3>5 DEF Timed
  <2>13. CASE BumpSignature(t)
    <3>1. /\ UNCHANGED <<buffer, Current, inForce, Current_Ticks>> /\ HasTicks(t) /\ pc'[t] = "done"
      BY <2>13, <1>t DEF TypeOK, BumpSignature, HasTicks, Inside
    <3> QED
      BY <2>2, <2>3, <3>1 DEF Timed, SampleInForce
  <2> QED
    BY <1>2, <2>4, <2>5, <2>6, <2>7, <2>9, <2>10, <2>11, <2>12, <2>13 DEF CallStep
<1> QED
  BY <1>1, <1>2 DEF Next

(***************************************************************************)
(* The only way to a false time, other than being overtaken by another's   *)
(* new base, is a system's time set back to before the base by about twice *)
(* the base's age, which the test of the shift takes for none              *)
(* (s-osprim.adb:150-160).                                                 *)
(***************************************************************************)
THEOREM OnlySetBackIsFalse ==
  Spec /\ [][\A t \in Tasks : ~SetBackUnnoticed(t)]_vars => []AccurateUnlessOvertaken
<1>1. Init => Timed
  BY DEF Init, Timed, SampleInForce, AccurateUnlessOvertaken, HasTicks, Inside
<1>2. IInv /\ IInv' /\ Timed /\ [Next]_vars /\ [\A t \in Tasks : ~SetBackUnnoticed(t)]_vars => Timed'
  <2>1. CASE UNCHANGED vars
    BY <2>1 DEF vars, hardware, shared, history, locals, Timed, SampleInForce, HasTicks,
       AccurateUnlessOvertaken, Accurate, Clock, New_Data
  <2> QED
    BY <2>1, NextTimed
<1>3. Timed => AccurateUnlessOvertaken
  BY DEF Timed
<1> QED
  BY <1>1, <1>2, <1>3, Inductive, PTL DEF Spec

\* No base is of the future.
BasesPast ==
  /\ \A t \in Tasks : Loc_Ticks[t] \in 0..ticks /\ Current_Ticks[t] \in 0..ticks
  /\ \A b \in Buffers : buffer[b].Base_Ticks \in 0..ticks
  /\ \A b \in bases : b.Base_Ticks \in 0..ticks

LEMMA NextBasesPast == IInv /\ BasesPast /\ [Next]_vars => BasesPast'
<1> SUFFICES ASSUME IInv, BasesPast, [Next]_vars  PROVE BasesPast'
  OBVIOUS
<1> USE ClockAssumption DEF ClockAssumption
<1>t. TypeOK /\ ticks \in Nat /\ New_Data \in Buffers
  BY OtherBuffer DEF IInv, TypeOK, New_Data
<1>1. CASE Tick
  BY <1>1, <1>t DEF Tick, BasesPast, shared, locals, history
<1>2. CASE Adjust \/ UNCHANGED vars
  BY <1>2 DEF Adjust, vars, hardware, shared, locals, history, BasesPast
<1>3. ASSUME NEW t \in Tasks, CallStep(t)  PROVE BasesPast'
  <2> USE DEF Go, hardware, shared, history, locals
  <2>1. ticks' = ticks
    BY <1>3 DEF CallStep, Call, LoadSignature, LoadCurrent, CopyField, CheckSignature,
       ReadCounter, ReadSystemTime, EnterGetBaseTime, LockAndCheck, TakeSample, StoreTicks,
       StoreClock, SwitchBuffer, BumpSignature, Return
  <2>2. CASE \/ Call(t) \/ LoadSignature(t) \/ LoadCurrent(t)
             \/ (\E f \in Fields : CopyField(t, f)) \/ CheckSignature(t) \/ ReadSystemTime(t)
             \/ EnterGetBaseTime(t) \/ LockAndCheck(t) \/ BumpSignature(t)
    <3>1. UNCHANGED <<Loc_Ticks, Current_Ticks, buffer, bases>>
      BY <2>2 DEF Call, LoadSignature, LoadCurrent, CopyField, CheckSignature,
         ReadSystemTime, EnterGetBaseTime, LockAndCheck, BumpSignature
    <3> QED
      BY <2>1, <3>1 DEF BasesPast
  <2>3. CASE ReadCounter(t)
    BY <2>3, <1>t DEF ReadCounter, BasesPast, TypeOK
  <2>4. CASE Return(t)
    BY <2>4, <1>t DEF Return, BasesPast, TypeOK
  <2>5. CASE TakeSample(t)
    BY <2>5, <1>t DEF TakeSample, BasesPast, TypeOK, Clock_Data, Fields
  <2>6. CASE StoreTicks(t)
    BY <2>6, <1>t DEF StoreTicks, BasesPast, TypeOK, Clock_Data, Fields
  <2>7. CASE StoreClock(t)
    BY <2>7, <1>t DEF StoreClock, BasesPast, TypeOK, Clock_Data, Fields
  <2>8. CASE SwitchBuffer(t)
    BY <2>8, <1>t DEF SwitchBuffer, BasesPast
  <2> QED
    BY <1>3, <2>2, <2>3, <2>4, <2>5, <2>6, <2>7, <2>8 DEF CallStep
<1> QED
  BY <1>1, <1>2, <1>3 DEF Next

(***************************************************************************)
(* A set-back by more than twice what the counter can have run since the   *)
(* base was taken is noticed, as is every setting forward: without smaller *)
(* set-backs each call that was not overtaken returns the system's time.   *)
(***************************************************************************)
THEOREM FarSetBacksNoticed ==
  ASSUME \A o, p \in Offsets : o <= p \/ o - p > 2 * MaxTicks + MaxShift
  PROVE  Spec => []AccurateUnlessOvertaken
<1> USE ClockAssumption DEF ClockAssumption
<1>1. Init => BasesPast
  BY BaseType DEF Init, BasesPast
<1>2. IInv /\ BasesPast /\ [Next]_vars => [\A t \in Tasks : ~SetBackUnnoticed(t)]_vars
  <2> SUFFICES ASSUME IInv, BasesPast, NEW t \in Tasks, SetBackUnnoticed(t)  PROVE FALSE
    OBVIOUS
  <2>1. /\ pc[t] = "comparing" /\ ~Shifted(t) /\ tries[t] < MaxTries
        /\ ticks + offset < Data[t].Base_Time
    BY DEF SetBackUnnoticed, ReadSystemTime, Go
  <2>2. Data[t] \in bases
    BY <2>1 DEF IInv, CoherentCopy, HasBase, HasTicks
  <2>3. /\ ticks \in 0..MaxTicks /\ offset \in Offsets /\ offset \in Int
        /\ Current_Ticks[t] \in 0..ticks
        /\ Data[t].Base_Time \in Int /\ Data[t].Base_Ticks \in 0..ticks
        /\ Data[t].Base_Time - Data[t].Base_Ticks \in Offsets
    BY <2>2 DEF IInv, TypeOK, BasesPast, PublishedBase, Clock_Data, Fields
  <2> DEFINE o == Data[t].Base_Time - Data[t].Base_Ticks
  <2>4. o <= offset \/ o - offset > 2 * MaxTicks + MaxShift
    BY <2>3
  <2>5. o - offset > 2 * MaxTicks + MaxShift
    BY <2>1, <2>3, <2>4
  <2> QED
    BY <2>1, <2>3, <2>5 DEF Shifted, Abs
<1> QED
  BY <1>1, <1>2, NextBasesPast, Inductive, OnlySetBackIsFalse, PTL DEF Spec
=============================================================================
