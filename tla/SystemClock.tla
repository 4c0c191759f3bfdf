----------------------------- MODULE SystemClock -----------------------------
(***************************************************************************)
(* Clock and Get_Base_Time of System.OS_Primitives (s-osprim.adb): the     *)
(* calendar clock, which adds the ticks of the performance counter to a    *)
(* base time and takes a new base when the system's time was adjusted.     *)
(*                                                                         *)
(* Clock reads the base without a lock.  Get_Base_Time fills the buffer    *)
(* that is not Current, makes it Current and only then counts Signature    *)
(* up; a reader takes its copy for coherent if Signature is the same       *)
(* before and after.  Every load of a shared variable and of each field of *)
(* the buffer is an action, as is every store.                             *)
(*                                                                         *)
(* Both clocks count the same units: ticks is the performance counter and  *)
(* ticks + offset the system's time, of which offset may be adjusted.      *)
(***************************************************************************)
EXTENDS Integers

CONSTANTS
  Tasks,        \* tasks that call Clock
  NoTask,       \* the lock of System.Task_Lock is free
  Offsets,      \* what the system's time may be ahead of the counter
  MaxShift,     \* Max_Shift, in ticks
  MaxTries,     \* copies of the base a call tries, 10 in the code
  MaxSamples,   \* samples Get_Base_Time takes of the two clocks, 10 in the code
  MaxSignature, \* bound on Signature, 2^32 - 1 in the code
  MaxTicks,     \* bound on the counter
  MaxAdjusts,   \* bound on the adjustments of the system's time
  MaxCalls      \* bound on the calls of each task

ASSUME ClockAssumption ==
  /\ NoTask \notin Tasks
  /\ Offsets \subseteq Int
  /\ MaxShift \in Nat
  /\ MaxTries \in Nat \ {0}
  /\ MaxSamples \in Nat \ {0}
  /\ MaxSignature \in Nat \ {0}
  /\ MaxTicks \in Nat
  /\ MaxAdjusts \in Nat
  /\ MaxCalls \in Nat

Fields == {"Base_Ticks", "Base_Time", "Base_Clock"}

Clock_Data == [Fields -> Int]

Buffers == {"First", "Second"}

VARIABLES
  ticks, offset, adjusts,
  \* shared, in System.OS_Primitives
  buffer, Current, Signature,
  L,              \* owner of the lock of System.Task_Lock
  \* local to the calls of Clock and Get_Base_Time
  pc, calls, Data, Sig1, Sig, tries, samples, Current_Ticks, Loc_Ticks,
  from,           \* the buffer Data is copied from
  todo,           \* the fields not yet copied
  \* history
  bases,          \* every value a buffer had when it became Current
  inForce         \* the offsets in force since a call read the counter

hardware == <<ticks, offset, adjusts>>
shared   == <<buffer, Current, Signature>>
history  == <<bases, inForce>>
locals   == <<calls, Data, Sig1, Sig, tries, samples, Current_Ticks, Loc_Ticks, from, todo>>
vars == <<hardware, shared, L, pc, locals, history>>

PCs == {"idle", "signing", "pointing", "copying", "counting", "comparing",
        "rebasing", "locking", "sampling", "ticking", "sampled", "switching",
        "bumping", "done", "overtaken"}

\* Where the lock of System.Task_Lock is held.
Inside == {"sampling", "ticking", "sampled", "switching", "bumping"}

Base(t, o) == [Base_Ticks |-> t, Base_Time |-> t + o, Base_Clock |-> t + o]

\* What the locals hold outside a call.
NoData == Base(0, 0)

Abs(i) == IF i < 0 THEN -i ELSE i

\* Initialize has called Get_Base_Time on First: Second is Current.
Init ==
  /\ ticks = 0
  /\ offset \in Offsets
  /\ adjusts = 0
  /\ buffer = [b \in Buffers |-> Base(0, offset)]
  /\ Current = "Second"
  /\ Signature = 1
  /\ L = NoTask
  /\ pc = [t \in Tasks |-> "idle"]
  /\ calls = [t \in Tasks |-> 0]
  /\ Data = [t \in Tasks |-> NoData]
  /\ Sig1 = [t \in Tasks |-> 0]
  /\ Sig = [t \in Tasks |-> 0]
  /\ tries = [t \in Tasks |-> 0]
  /\ samples = [t \in Tasks |-> 0]
  /\ Current_Ticks = [t \in Tasks |-> 0]
  /\ Loc_Ticks = [t \in Tasks |-> 0]
  /\ from = [t \in Tasks |-> "Second"]
  /\ todo = [t \in Tasks |-> {}]
  /\ bases = {Base(0, offset)}
  /\ inForce = [t \in Tasks |-> {}]

Go(t, here, there) == pc[t] = here /\ pc' = [pc EXCEPT ![t] = there]

-----------------------------------------------------------------------------
(* Clock: copy the base.                                                   *)

Call(t) ==
  /\ calls[t] < MaxCalls
  /\ Go(t, "idle", "signing")
  /\ calls' = [calls EXCEPT ![t] = @ + 1]
  /\ UNCHANGED <<hardware, shared, L, Data, Sig1, Sig, tries, samples, Current_Ticks,
                 Loc_Ticks, from, todo, history>>

\* Sig1 := Signature;
LoadSignature(t) ==
  /\ Go(t, "signing", "pointing")
  /\ Sig1' = [Sig1 EXCEPT ![t] = Signature]
  /\ UNCHANGED <<hardware, shared, L, calls, Data, Sig, tries, samples,
                 Current_Ticks, Loc_Ticks, from, todo, history>>

\* Data := Current.all; the pointer is read once, the fields in any order.
LoadCurrent(t) ==
  /\ Go(t, "pointing", "copying")
  /\ from' = [from EXCEPT ![t] = Current]
  /\ todo' = [todo EXCEPT ![t] = Fields]
  /\ UNCHANGED <<hardware, shared, L, calls, Data, Sig1, Sig, tries, samples,
                 Current_Ticks, Loc_Ticks, history>>

CopyField(t, f) ==
  /\ pc[t] = "copying"
  /\ f \in todo[t]
  /\ Data' = [Data EXCEPT ![t][f] = buffer[from[t]][f]]
  /\ todo' = [todo EXCEPT ![t] = @ \ {f}]
  /\ UNCHANGED <<hardware, shared, L, pc, calls, Sig1, Sig, tries, samples,
                 Current_Ticks, Loc_Ticks, from, history>>

\* Mutant: the copy is trusted without a second look at Signature.
TrustCopy(t) ==
  /\ Go(t, "copying", "counting")
  /\ todo[t] = {}
  /\ UNCHANGED <<hardware, shared, L, locals, history>>

\* Sig2 := Signature; exit when Sig1 = Sig2; and the end of the loop.
CheckSignature(t) ==
  /\ todo[t] = {}
  /\ \/ /\ Sig1[t] = Signature
        /\ Go(t, "copying", "counting")
        /\ UNCHANGED tries
     \/ /\ Sig1[t] # Signature
        /\ tries' = [tries EXCEPT ![t] = @ + 1]
        /\ Go(t, "copying", IF tries[t] + 1 < MaxTries THEN "signing"
                                                       ELSE "counting")
  /\ UNCHANGED <<hardware, shared, L, calls, Data, Sig1, Sig, samples,
                 Current_Ticks, Loc_Ticks, from, todo, history>>

-----------------------------------------------------------------------------
(* Clock: read the clocks.                                                 *)

\* QueryPerformanceCounter (Current_Ticks);
ReadCounter(t) ==
  /\ Go(t, "counting", "comparing")
  /\ Current_Ticks' = [Current_Ticks EXCEPT ![t] = ticks]
  /\ inForce' = [inForce EXCEPT ![t] = {offset}]
  /\ UNCHANGED <<hardware, shared, L, calls, Data, Sig1, Sig, tries, samples,
                 Loc_Ticks, from, todo, bases>>

\* The ticks since the base was taken and the system's time since then differ
\* by more than Max_Shift.
Shifted(t) ==
  LET Elap_Secs_Sys  == Abs(ticks + offset - Data[t].Base_Time)
      Elap_Secs_Tick == Current_Ticks[t] - Data[t].Base_Ticks
  IN  Abs(Elap_Secs_Sys - Elap_Secs_Tick) > MaxShift

\* GetSystemTimeAsFileTime (Now) and the test of the shift.
ReadSystemTime(t) ==
  /\ Go(t, "comparing", IF Shifted(t) THEN "rebasing" ELSE "done")
  /\ UNCHANGED <<hardware, shared, L, locals, history>>

-----------------------------------------------------------------------------
(* Get_Base_Time.                                                          *)

\* Sig : constant Signature_Type := Signature;
EnterGetBaseTime(t) ==
  /\ Go(t, "rebasing", "locking")
  /\ Sig' = [Sig EXCEPT ![t] = Signature]
  /\ UNCHANGED <<hardware, shared, L, calls, Data, Sig1, tries, samples,
                 Current_Ticks, Loc_Ticks, from, todo, history>>

\* Lock; a task that finds Signature changed unlocks and returns, its Data as
\* they were.
LockAndCheck(t) ==
  /\ L = NoTask
  /\ \/ /\ Sig[t] # Signature
        /\ Go(t, "locking", "overtaken")
        /\ UNCHANGED L
     \/ /\ Sig[t] = Signature
        /\ Go(t, "locking", "sampling")
        /\ L' = t
  /\ UNCHANGED <<hardware, shared, locals, history>>

\* New_Data, the buffer not in use.
New_Data == CHOOSE b \in Buffers : b # Current

\* The two clocks are read at the same moment; the time goes into the buffer.
TakeSample(t) ==
  /\ samples[t] < MaxSamples
  /\ pc[t] \in {"sampling", "sampled"}
  /\ pc' = [pc EXCEPT ![t] = "ticking"]
  /\ samples' = [samples EXCEPT ![t] = @ + 1]
  /\ Loc_Ticks' = [Loc_Ticks EXCEPT ![t] = ticks]
  /\ buffer' = [buffer EXCEPT ![New_Data].Base_Time = ticks + offset]
  /\ UNCHANGED <<hardware, Current, Signature, L, calls, Data, Sig1, Sig,
                 tries, Current_Ticks, from, todo, history>>

StoreTicks(t) ==
  /\ Go(t, "ticking", "sampled")
  /\ buffer' = [buffer EXCEPT ![New_Data].Base_Ticks = Loc_Ticks[t]]
  /\ UNCHANGED <<hardware, Current, Signature, L, locals, history>>

\* The sample is precise enough, or the last: Base_Clock is derived from it.
StoreClock(t) ==
  /\ Go(t, "sampled", "switching")
  /\ buffer' = [buffer EXCEPT ![New_Data].Base_Clock = buffer[New_Data].Base_Time]
  /\ UNCHANGED <<hardware, Current, Signature, L, locals, history>>

\* Mutant: the caller's Data are left as they were.
SwitchBuffer_KeepsData(t) ==
  /\ Go(t, "switching", "bumping")
  /\ Current' = New_Data
  /\ bases' = bases \cup {buffer[New_Data]}
  /\ UNCHANGED <<hardware, buffer, Signature, L, locals, inForce>>

\* Current := New_Data; Data := New_Data.all;
SwitchBuffer(t) ==
  /\ Go(t, "switching", "bumping")
  /\ Current' = New_Data
  /\ Data' = [Data EXCEPT ![t] = buffer[New_Data]]
  /\ bases' = bases \cup {buffer[New_Data]}
  /\ UNCHANGED <<hardware, buffer, Signature, L, calls, Sig1, Sig, tries,
                 samples, Current_Ticks, Loc_Ticks, from, todo, inForce>>

\* Signature := Signature + 1; Unlock;
BumpSignature(t) ==
  /\ Signature < MaxSignature
  /\ Go(t, "bumping", "done")
  /\ Signature' = Signature + 1
  /\ L' = NoTask
  /\ UNCHANGED <<hardware, buffer, Current, locals, history>>

\* What Clock returns.
Clock(t) == Data[t].Base_Clock + (Current_Ticks[t] - Data[t].Base_Ticks)

\* The call returns and its locals are gone.
Return(t) ==
  /\ pc[t] \in {"done", "overtaken"}
  /\ pc' = [pc EXCEPT ![t] = "idle"]
  /\ Data' = [Data EXCEPT ![t] = NoData]
  /\ Sig1' = [Sig1 EXCEPT ![t] = 0]
  /\ Sig' = [Sig EXCEPT ![t] = 0]
  /\ tries' = [tries EXCEPT ![t] = 0]
  /\ samples' = [samples EXCEPT ![t] = 0]
  /\ Current_Ticks' = [Current_Ticks EXCEPT ![t] = 0]
  /\ Loc_Ticks' = [Loc_Ticks EXCEPT ![t] = 0]
  /\ inForce' = [inForce EXCEPT ![t] = {}]
  /\ UNCHANGED <<hardware, shared, L, calls, from, todo, bases>>

-----------------------------------------------------------------------------
(* The machine.                                                            *)

\* The call of t has read the counter.
HasTicks(t) == pc[t] \in {"comparing", "rebasing", "locking", "done", "overtaken"}
                         \cup Inside

Tick ==
  /\ ticks < MaxTicks
  /\ ticks' = ticks + 1
  /\ UNCHANGED <<offset, adjusts, shared, L, pc, locals, history>>

\* Somebody sets the system's time.
Adjust ==
  /\ adjusts < MaxAdjusts
  /\ \E o \in Offsets \ {offset} :
       /\ offset' = o
       /\ inForce' = [t \in Tasks |-> IF HasTicks(t) THEN inForce[t] \cup {o}
                                                  ELSE inForce[t]]
  /\ adjusts' = adjusts + 1
  /\ UNCHANGED <<ticks, shared, L, pc, locals, bases>>
CallStep(t) ==
  \/ Call(t) \/ LoadSignature(t) \/ LoadCurrent(t)
  \/ \E f \in Fields : CopyField(t, f)
  \/ CheckSignature(t) \/ ReadCounter(t) \/ ReadSystemTime(t)
  \/ EnterGetBaseTime(t) \/ LockAndCheck(t) \/ TakeSample(t) \/ StoreTicks(t)
  \/ StoreClock(t) \/ SwitchBuffer(t) \/ BumpSignature(t) \/ Return(t)

Next == Tick \/ Adjust \/ \E t \in Tasks : CallStep(t)

Spec == Init /\ [][Next]_vars

-----------------------------------------------------------------------------
(* Properties.                                                             *)

\* Types, and the mutual exclusion of Get_Base_Time.
TypeOK ==
  /\ ticks \in 0..MaxTicks
  /\ offset \in Offsets
  /\ adjusts \in 0..MaxAdjusts
  /\ buffer \in [Buffers -> Clock_Data]
  /\ Current \in Buffers
  /\ Signature \in 1..MaxSignature
  /\ L \in Tasks \cup {NoTask}
  /\ pc \in [Tasks -> PCs]
  /\ calls \in [Tasks -> 0..MaxCalls]
  /\ Data \in [Tasks -> Clock_Data]
  /\ Sig1 \in [Tasks -> 0..MaxSignature]
  /\ Sig \in [Tasks -> 0..MaxSignature]
  /\ tries \in [Tasks -> 0..MaxTries]
  /\ samples \in [Tasks -> 0..MaxSamples]
  /\ Current_Ticks \in [Tasks -> 0..MaxTicks]
  /\ Loc_Ticks \in [Tasks -> 0..MaxTicks]
  /\ from \in [Tasks -> Buffers]
  /\ todo \in [Tasks -> SUBSET Fields]
  /\ inForce \in [Tasks -> SUBSET Offsets]
  /\ \A t \in Tasks : pc[t] \in Inside <=> L = t

(***************************************************************************)
(* The buffer that is Current holds a base whose three fields were taken   *)
(* together, and goes on holding it until another one is Current: what     *)
(* Get_Base_Time writes is never seen half written through Current.        *)
(***************************************************************************)
PublishedBase ==
  /\ buffer[Current] \in bases
  /\ \A b \in bases : /\ b.Base_Clock = b.Base_Time
                      /\ b.Base_Time - b.Base_Ticks \in Offsets

(***************************************************************************)
(* "Try ten times to get a coherent set of base data.  For this we just    *)
(* check that the signature hasn't changed" (s-osprim.adb:129-131): a call *)
(* that has not given up computes with a base that was Current once, not   *)
(* with fields of two, although a reader may be stopped between any two    *)
(* loads for as long as two updates, the second into the buffer it is      *)
(* copying.                                                                *)
(***************************************************************************)
HasBase(t) == pc[t] = "counting" \/ HasTicks(t)

CoherentCopy ==
  \A t \in Tasks : HasBase(t) /\ tries[t] < MaxTries => Data[t] \in bases

\* The time at some moment of the call since it read the counter, by an offset
\* then in force, to within Max_Shift.
Accurate(t) ==
  \E o \in inForce[t], m \in Current_Ticks[t]..ticks :
    Abs(Clock(t) - (m + o)) <= MaxShift

(***************************************************************************)
(* "we can safely return as the current base data (time, clock, ticks)     *)
(* have already been updated" and "If we have a shift of more than         *)
(* Max_Shift seconds we resynchronize the Clock" (s-osprim.adb:223-225,    *)
(* 157-160): every call returns the system's time.                         *)
(***************************************************************************)
ClockAccurate ==
  \A t \in Tasks :
    pc[t] \in {"done", "overtaken"} /\ tries[t] < MaxTries => Accurate(t)

\* The same of the calls that were not overtaken by another's new base.
AccurateUnlessOvertaken ==
  \A t \in Tasks : pc[t] = "done" /\ tries[t] < MaxTries => Accurate(t)
=============================================================================
