------------------------ MODULE ExceptionPropagation ------------------------
(***************************************************************************)
(* The propagation of an exception through the stack of one thread on      *)
(* Windows structured exception handling: the personality routine of       *)
(* src/cpp/raise-gcc.c, the unwinder of src/cpp/unwind-seh.c and the       *)
(* mapping of hardware faults of src/cpp/seh_init.c.                       *)
(*                                                                         *)
(* The thread alternates between running the program (mode "program"), the *)
(* system's search for a handler from the top of the stack down ("dispatch"*)
(* after RaiseException or a fault) and the system's unwinding down to a   *)
(* target frame ("unwind", RtlUnwindEx). The system visits a frame at a    *)
(* time; one action is the visit of one frame, the call of its language    *)
(* handler included.                                                       *)
(*                                                                         *)
(* External, modelled from how these files use them: RaiseException,       *)
(* RtlUnwindEx and the dispatcher of the system; the compiled code of the  *)
(* program, whose landing pads run the cleanups of a chain in order until  *)
(* the filter in rdx selects a handler, and resume otherwise; the C        *)
(* start-up code's handler of last resort (unwind-seh.c:335).              *)
(***************************************************************************)
EXTENDS Integers, Sequences, FiniteSets

CONSTANTS
  Funs,         \* the functions of the program
  Start,        \* Start[f]: the address of the first instruction of f
  Images,       \* the ways the compiler may have laid out the tables, as read by
                \* LanguageSpecificData: image[f] has the call sites and the choices
                \* of f; f has tables if it is in the domain
  Chain,        \* Chain[f][p]: the filters the landing pad at p tests, in order
  Ops,          \* Ops[f]: the instructions of f that matter, [at, pad, rec, op, arg]
  Roots,        \* the functions a thread may begin with
  Occurrences,  \* the exception objects, 1 .. n
  MaxDepth,     \* the bound on the stack
  ByOthers,     \* the identities that "when others" covers
  program_error, storage_error, constraint_error,
  Regions,      \* Regions[f]: what the tables of f were encoded from, [first, last, pad]
  TypeTable       \* TypeTable[f]: the exception choices of f, by filter

LongestChain == 4

ASSUME OccurrencesAssumption == Occurrences \subseteq Nat \ {0}

\* Code of landing pads belongs to a record of the chain but for the jump to the
\* next one and, at the address after the last, the call of _Unwind_Resume.
ASSUME ProgramAssumption ==
  /\ Roots \subseteq Funs /\ Start \in [Funs -> Int]
  /\ {program_error, storage_error, constraint_error} \subseteq Int
  /\ \A f \in Funs : \A o \in Ops[f] :
       /\ o.at \in Int
       /\ o.pad # 0 => o.rec # 0
       /\ o.op = "call" => o.arg \in Funs
       /\ o.op = "raise" => o.arg[1] \in {"GNAT", "C++", "other"} /\ o.arg[2] \in Int
       /\ o.op = "fault" => o.arg \notin {"THROW", "UNWIND", "FORCED"}

\* A chain that has no handler left to jump to is resumed outside all regions.
ASSUME RegionsAssumption ==
  \A f \in Funs : \A r \in Regions[f] :
    /\ r.first \in Int /\ r.last \in Int /\ r.pad \in Int
    /\ r.pad # 0 =>
         /\ r.pad \in DOMAIN Chain[f] /\ Chain[f][r.pad] \in Seq(Nat)
         /\ Len(Chain[f][r.pad]) \in 1 .. LongestChain
         /\ \A k \in DOMAIN Chain[f][r.pad] :
              Chain[f][r.pad][k] # 0 => Chain[f][r.pad][k] \in DOMAIN TypeTable[f]
         /\ \A s \in Regions[f] : r.pad + Len(Chain[f][r.pad]) + 1 \notin s.first .. s.last

\* A region as a call site; a chain of one cleanup has no action records.
Encodes(site, f, r) ==
  /\ site.start = r.first /\ site.end = r.last + 1 /\ site.landing_pad = r.pad
  /\ r.pad # 0 => \/ site.filters = Chain[f][r.pad]
                  \/ site.filters = <<>> /\ Chain[f][r.pad] = <<0>>

\* The tables hold the regions in the order of their addresses.
ASSUME LayoutAssumption ==
  \A tables \in Images : \A f \in Funs :
    IF f \notin DOMAIN tables THEN Regions[f] = {}
    ELSE LET sites == tables[f].sites
         IN  /\ tables[f].choices = TypeTable[f]
             /\ DOMAIN sites = 1 .. Len(sites)
             /\ \A i, j \in DOMAIN sites : i < j => sites[i].end <= sites[j].start
             /\ \A i \in DOMAIN sites : \E r \in Regions[f] : Encodes(sites[i], f, r)
             /\ \A r \in Regions[f] : \E i \in DOMAIN sites : Encodes(sites[i], f, r)

\* No instruction that faults is the first of a region, nor the first behind one.
FaultAssumption ==
  \A f \in Funs : \A o \in Ops[f] : o.op = "fault" =>
    \A r \in Regions[f] : o.at \in r.first .. r.last <=> o.at - 1 \in r.first .. r.last

\* The choices that are not exception identities.
ALL_OTHERS == 1
OTHERS == 2
UNHANDLED_OTHERS == 3
FOREIGN == 4

VARIABLES
  image,    \* the tables in the program's image; they never change
  mode,     \* what the thread is doing, or how it ended
  stack,    \* frames, the oldest first
  excs,     \* the exception objects in use
  current,  \* the object the thread's current exception buffer was copied from
  d,        \* the dispatch or the unwinding in progress
  origin,   \* history: the stack at the last raise of an object
  cleaned   \* history: the cleanups run since, in order

vars == <<image, mode, stack, excs, current, d, origin, cleaned>>

NoExc == [class |-> "none", id |-> 0, private |-> <<0, 0, 0>>]
Idle == [code |-> "none", exc |-> 0, pos |-> 0, target |-> 0,
         info |-> <<0, 0, 0>>, fault |-> FALSE]

Top == stack[Len(stack)]
NewFrame(f) == [fn |-> f, at |-> Start[f], pad |-> 0, rec |-> 0, rax |-> 0, rdx |-> 0]

Init ==
  /\ image \in Images
  /\ mode = "program"
  /\ \E f \in Roots : stack = <<NewFrame(f)>>
  /\ excs = [x \in Occurrences |-> NoExc]
  /\ current = 0
  /\ d = Idle
  /\ origin = [x \in Occurrences |-> <<>>]
  /\ cleaned = [x \in Occurrences |-> <<>>]

-----------------------------------------------------------------------------
(***************************************************************************)
(* The personality routine.                                                *)
(***************************************************************************)
Nothing == [kind |-> "nothing", landing_pad |-> 0, ttype_filter |-> 0]

\* The address after the call, or of the instruction that faulted.
ControlPc(pos) ==
  IF d.fault /\ pos = Len(stack) THEN stack[pos].at ELSE stack[pos].at + 1

\* Mutant: the return address is used as it is.
get_ip_from_context_NoDecrement(pos) == ControlPc(pos)

\* _Unwind_GetIPInfo never says that the address is that of the instruction.
get_ip_from_context(pos) == ControlPc(pos) - 1

is_handled_by(choice, e) ==
  CASE choice = ALL_OTHERS -> "handler"
    [] choice # ALL_OTHERS /\ e.class = "GNAT" ->
         CASE choice = UNHANDLED_OTHERS -> "unhandler"
           [] choice = e.id \/ (choice = OTHERS /\ e.id \in ByOthers) -> "handler"
           [] OTHER -> "nothing"
    [] choice # ALL_OTHERS /\ e.class # "GNAT" ->
         IF choice \in {OTHERS, FOREIGN} \/ (e.class = "C++" /\ choice = e.id)
         THEN "handler" ELSE "nothing"

NoSite == [start |-> 0, end |-> 0, landing_pad |-> 0, filters |-> <<>>]

\* Mutant: the end of a region belongs to it.
get_call_site_action_for_Inclusive(ip, sites) ==
  LET left == {i \in DOMAIN sites : ip <= sites[i].end}
      i == CHOOSE k \in left : \A j \in left : k <= j
  IN  IF left = {} \/ ip < sites[i].start THEN NoSite ELSE sites[i]

\* The table is sorted: the search stops at the first entry that ends after ip,
\* and there is nothing if that entry starts after ip.
get_call_site_action_for(ip, sites) ==
  LET left == {i \in DOMAIN sites : ip < sites[i].end}
      i == CHOOSE k \in left : \A j \in left : k <= j
  IN  IF left = {} \/ ip < sites[i].start THEN NoSite ELSE sites[i]

\* The records that handle e; a forced unwinding does not stop at handlers.
Handling(filters, choices, e, force) ==
  {i \in DOMAIN filters :
     filters[i] > 0 /\ ~force /\ is_handled_by(choices[filters[i]], e) # "nothing"}

\* Without handler, a cleanup if the chain has one or there is no chain.
CleanupIn(filters) == filters = <<>> \/ \E k \in DOMAIN filters : filters[k] = 0

\* Mutant: the last record that matches is taken.
ActionAt_Last(site, choices, e, force) ==
  LET found == Handling(site.filters, choices, e, force)
      i == CHOOSE k \in found : \A j \in found : k >= j
  IN  CASE site.landing_pad = 0 -> Nothing
        [] site.landing_pad # 0 /\ found # {} ->
             [kind |-> is_handled_by(choices[site.filters[i]], e),
              landing_pad |-> site.landing_pad, ttype_filter |-> site.filters[i]]
        [] OTHER -> [kind |-> IF CleanupIn(site.filters) THEN "cleanup" ELSE "nothing",
                     landing_pad |-> site.landing_pad, ttype_filter |-> 0]

\* The first record of the chain that handles e, or a cleanup.
ActionAt(site, choices, e, force) ==
  LET found == Handling(site.filters, choices, e, force)
      i == CHOOSE k \in found : \A j \in found : k <= j
  IN  CASE site.landing_pad = 0 -> Nothing
        [] site.landing_pad # 0 /\ found # {} ->
             [kind |-> is_handled_by(choices[site.filters[i]], e),
              landing_pad |-> site.landing_pad, ttype_filter |-> site.filters[i]]
        [] OTHER -> [kind |-> IF CleanupIn(site.filters) THEN "cleanup" ELSE "nothing",
                     landing_pad |-> site.landing_pad, ttype_filter |-> 0]

get_action_description_for(ip, e, force, tables) ==
  ActionAt(get_call_site_action_for(ip, tables.sites), tables.choices, e, force)

\* What the personality routine finds in the frame at pos for object x.
personality_body(pos, x, force) ==
  get_action_description_for(get_ip_from_context(pos), excs[x], force, image[stack[pos].fn])

\* In the cleanup phases, what the landing pad will find: address and filter.
setup_to_install(pos, action) == <<pos, action.landing_pad, action.ttype_filter>>

-----------------------------------------------------------------------------
(***************************************************************************)
(* The program.                                                            *)
(***************************************************************************)
\* The instructions of kind op that the top frame may reach next.
Reachable(op) ==
  {o \in Ops[Top.fn] : o.op = op /\ o.pad = Top.pad /\ o.rec = Top.rec /\ o.at > Top.at}

At(address) == [stack EXCEPT ![Len(stack)].at = address]
Free == {x \in Occurrences : excs[x] = NoExc}

\* RaiseException (code, ...) by the frame on top.
RaiseException(code, x, fault) ==
  d' = [Idle EXCEPT !.code = code, !.exc = x, !.pos = Len(stack), !.fault = fault]

Call ==
  /\ mode = "program" /\ Len(stack) < MaxDepth
  /\ \E o \in Reachable("call") : stack' = Append(At(o.at), NewFrame(o.arg))
  /\ UNCHANGED <<image, mode, excs, current, d, origin, cleaned>>

Leave ==
  IF Len(stack) = 1 THEN mode' = "exited" /\ UNCHANGED stack
  ELSE stack' = SubSeq(stack, 1, Len(stack) - 1) /\ UNCHANGED mode

Return ==
  /\ mode = "program" /\ Top.pad = 0
  /\ Leave
  /\ UNCHANGED <<image, excs, current, d, origin, cleaned>>

\* An occurrence of another language leaves the current occurrence alone.
Unwind_RaiseException(x, class, id, at) ==
  /\ excs' = [excs EXCEPT ![x] = [class |-> class, id |-> id, private |-> <<0, 0, 0>>]]
  /\ current' = IF class = "GNAT" THEN x ELSE current
  /\ RaiseException("THROW", x, FALSE)
  /\ stack' = At(at)
  /\ origin' = [origin EXCEPT ![x] = stack']
  /\ cleaned' = [cleaned EXCEPT ![x] = <<>>]
  /\ mode' = "dispatch"
  /\ UNCHANGED image

Raise ==
  /\ mode = "program" /\ Free # {}
  /\ \E o \in Reachable("raise") :
       Unwind_RaiseException(CHOOSE x \in Free : TRUE, o.arg[1], o.arg[2], o.at)

\* A handler propagates its own occurrence again; only Ada ones are modelled.
Reraise ==
  /\ mode = "program" /\ Top.rax # 0 /\ excs[Top.rax].class = "GNAT"
  /\ \E o \in Reachable("reraise") :
       Unwind_RaiseException(Top.rax, excs[Top.rax].class, excs[Top.rax].id, o.at)

\* A hardware fault; there is no object before the first Ada frame is visited.
Fault ==
  /\ mode = "program" /\ Free # {}
  /\ \E o \in Reachable("fault") :
       /\ stack' = At(o.at)
       /\ RaiseException(o.arg, 0, TRUE)
  /\ mode' = "dispatch"
  /\ UNCHANGED <<image, excs, current, origin, cleaned>>

\* The records of the chain after rec that the landing pad acts on.
NextRecords(frame) ==
  LET chain == Chain[frame.fn][frame.pad]
  IN  {i \in frame.rec + 1 .. Len(chain) : chain[i] \in {0, frame.rdx}}
NextRecord(frame) == CHOOSE i \in NextRecords(frame) : \A j \in NextRecords(frame) : i <= j
InHandler(frame) ==
  frame.pad # 0 /\ frame.rec # 0 /\ Chain[frame.fn][frame.pad][frame.rec] # 0

\* The landing pad runs the next cleanup, or enters the handler.
EnterRecord ==
  /\ mode = "program" /\ Top.pad # 0 /\ ~InHandler(Top) /\ NextRecords(Top) # {}
  /\ stack' = [stack EXCEPT ![Len(stack)].rec = NextRecord(Top)]
  /\ cleaned' = IF InHandler(stack'[Len(stack)]) THEN cleaned
                ELSE [cleaned EXCEPT ![Top.rax] =
                        Append(@, <<Len(stack), Top.pad, NextRecord(Top)>>)]
  /\ UNCHANGED <<image, mode, excs, current, d, origin>>

\* The end of a handler frees its occurrence and leaves the function.
FinishHandler ==
  /\ mode = "program" /\ InHandler(Top) /\ Reachable("terminate") = {}
  /\ excs' = [excs EXCEPT ![Top.rax] = NoExc]
  /\ Leave
  /\ UNCHANGED <<image, current, d, origin, cleaned>>

\* The handler for unhandled exceptions calls Unhandled_Except_Handler.
Terminate ==
  /\ mode = "program" /\ InHandler(Top) /\ Reachable("terminate") # {}
  /\ current' = Top.rax
  /\ mode' = "terminated"
  /\ UNCHANGED <<image, stack, excs, d, origin, cleaned>>

\* Unwinds to the frame phase 1 cached, or to the end of the stack if to none.
Unwind_Resume ==
  /\ mode = "program" /\ Top.pad # 0 /\ ~InHandler(Top) /\ NextRecords(Top) = {}
  /\ mode' = "unwind"
  /\ LET private == excs[Top.rax].private
     IN  d' = [Idle EXCEPT !.code = "THROW", !.exc = Top.rax, !.pos = Len(stack),
                           !.target = private[1], !.info = private]
  /\ stack' = At(Top.pad + Len(Chain[Top.fn][Top.pad]) + 1)
  /\ UNCHANGED <<image, excs, current, origin, cleaned>>

-----------------------------------------------------------------------------
(***************************************************************************)
(* The visit of a frame: __gnat_personality_seh0, _GCC_specific_handler.   *)
(***************************************************************************)
Visited == stack[d.pos]
Visiting(m) == mode = m /\ d.pos > 0
GCC(code) == code \in {"THROW", "UNWIND", "FORCED"}

ContinueSearch == d' = [d EXCEPT !.pos = @ - 1]

\* The frame of a function without tables has no language handler.
SkipFrame ==
  /\ mode \in {"dispatch", "unwind"} /\ d.pos > 0
  /\ Visited.fn \notin DOMAIN image
  /\ ContinueSearch
  /\ UNCHANGED <<image, mode, stack, excs, current, origin, cleaned>>

\* The identity of a hardware fault; MISALIGNED is an access violation at an
\* address that is no multiple of four, 0 is NULL.
map_SEH(code) ==
  CASE code \in {"ACCESS_VIOLATION", "STACK_OVERFLOW"} -> storage_error
    [] code \in {"MISALIGNED_ACCESS_VIOLATION", "FLT_STACK_CHECK", "INVALID_DISPOSITION",
                 "NONCONTINUABLE_EXCEPTION", "PRIV_INSTRUCTION", "SINGLE_STEP"} -> program_error
    [] code \in {"ARRAY_BOUNDS_EXCEEDED", "DATATYPE_MISALIGNMENT", "FLT_DENORMAL_OPERAND",
                 "FLT_DIVIDE_BY_ZERO", "FLT_INVALID_OPERATION", "FLT_OVERFLOW", "FLT_UNDERFLOW",
                 "INT_DIVIDE_BY_ZERO", "INT_OVERFLOW"} -> constraint_error
    [] OTHER -> 0

\* The object a fault becomes; NULL leaves the code alone and the search on.
Translate ==
  /\ Visiting("dispatch") /\ Visited.fn \in DOMAIN image /\ ~GCC(d.code)
  /\ IF map_SEH(d.code) = 0
     THEN ContinueSearch /\ UNCHANGED <<excs, origin, cleaned>>
     ELSE LET x == CHOOSE x \in Free : TRUE
          IN  /\ excs' = [excs EXCEPT ![x] = [class |-> "GNAT", id |-> map_SEH(d.code),
                                              private |-> <<0, 0, 0>>]]
              /\ d' = [d EXCEPT !.code = "THROW", !.exc = x]
              /\ origin' = [origin EXCEPT ![x] = stack]
              /\ cleaned' = [cleaned EXCEPT ![x] = <<>>]
  /\ UNCHANGED <<image, mode, stack, current>>

\* A personality routine called in a cleanup phase installs what it found.
Setup_Current_Excep == current' = d.exc

\* RtlUnwindEx (frame, ip, ...): the target and the values it will get.
RtlUnwindEx(info) ==
  /\ mode' = "unwind"
  /\ d' = [d EXCEPT !.pos = Len(stack), !.target = info[1], !.info = info]

(***************************************************************************)
(* The search. Where it finds a handler, the personality routine is called *)
(* again for what phase 2 would install, and unwinding starts at once.     *)
(***************************************************************************)
Phase1 ==
  /\ Visiting("dispatch") /\ Visited.fn \in DOMAIN image /\ d.code = "THROW"
  /\ LET action == personality_body(d.pos, d.exc, FALSE)
         info == setup_to_install(d.pos, action)
     IN  IF action.kind \in {"nothing", "cleanup"}
         THEN ContinueSearch /\ UNCHANGED <<mode, excs, current>>
         ELSE /\ Setup_Current_Excep
              /\ excs' = [excs EXCEPT ![d.exc].private = info]
              /\ RtlUnwindEx(info)
  /\ UNCHANGED <<image, stack, origin, cleaned>>

\* Mutant: the current occurrence is left as it is in a cleanup.
Phase2_NoSetup(force) ==
  LET action == personality_body(d.pos, d.exc, force)
  IN  IF action.kind = "nothing"
      THEN ContinueSearch /\ UNCHANGED <<mode, current>>
      ELSE /\ UNCHANGED current
           /\ mode' = "dispatch"
           /\ d' = [d EXCEPT !.code = "UNWIND", !.pos = Len(stack), !.target = 0,
                             !.info = setup_to_install(d.pos, action)]

\* Anything found cancels the unwinding by an exception aimed at this frame.
Phase2(force) ==
  LET action == personality_body(d.pos, d.exc, force)
  IN  IF action.kind = "nothing"
      THEN ContinueSearch /\ UNCHANGED <<mode, current>>
      ELSE /\ Setup_Current_Excep
           /\ mode' = "dispatch"
           /\ d' = [d EXCEPT !.code = "UNWIND", !.pos = Len(stack), !.target = 0,
                             !.info = setup_to_install(d.pos, action)]

Cleanup ==
  /\ Visiting("unwind") /\ Visited.fn \in DOMAIN image /\ d.code = "THROW" /\ d.pos # d.target
  /\ Phase2(FALSE)
  /\ UNCHANGED <<image, stack, excs, origin, cleaned>>

\* The stop function, not at the end of the stack, only lets the search go on.
Forced ==
  /\ Visiting("dispatch") /\ Visited.fn \in DOMAIN image /\ d.code = "FORCED"
  /\ Phase2(TRUE)
  /\ UNCHANGED <<image, stack, excs, origin, cleaned>>

\* The colliding exception: unwind again, to the frame it was aimed at.
Collide ==
  /\ Visiting("dispatch") /\ Visited.fn \in DOMAIN image /\ d.code = "UNWIND"
  /\ IF d.info[1] = d.pos THEN RtlUnwindEx(d.info) ELSE ContinueSearch /\ UNCHANGED mode
  /\ UNCHANGED <<image, stack, excs, current, origin, cleaned>>

PassUnwound ==
  /\ Visiting("unwind") /\ Visited.fn \in DOMAIN image /\ d.code = "UNWIND" /\ d.pos # d.target
  /\ ContinueSearch
  /\ UNCHANGED <<image, mode, stack, excs, current, origin, cleaned>>

\* The target frame: the frames above are gone, ip, rax and rdx are installed.
TargetUnwind ==
  /\ Visiting("unwind") /\ Visited.fn \in DOMAIN image /\ d.pos = d.target
  /\ stack' = [SubSeq(stack, 1, d.pos) EXCEPT
                 ![d.pos] = [@ EXCEPT !.at = d.info[2], !.pad = d.info[2], !.rec = 0,
                                      !.rax = d.exc, !.rdx = d.info[3]]]
  /\ mode' = "program"
  /\ d' = Idle
  /\ UNCHANGED <<image, excs, current, origin, cleaned>>

-----------------------------------------------------------------------------
(***************************************************************************)
(* The end of the stack.                                                   *)
(***************************************************************************)
AtEnd == mode \in {"dispatch", "unwind"} /\ d.pos = 0

\* RaiseException returns to Propagate_GCC_Exception, which forces unwinding.
Unwind_ForcedUnwind ==
  /\ AtEnd /\ mode = "dispatch" /\ d.code = "THROW" /\ ~d.fault
  /\ excs[d.exc].class = "GNAT"
  /\ excs' = [excs EXCEPT ![d.exc].private = <<0, 0, 0>>]
  /\ RaiseException("FORCED", d.exc, FALSE)
  /\ UNCHANGED <<image, mode, stack, current, origin, cleaned>>

\* No cleanup was left: the stop function is told that the stack ends.
EndOfStack ==
  /\ AtEnd /\ mode = "dispatch" /\ d.code = "FORCED"
  /\ current' = d.exc
  /\ mode' = "terminated"
  /\ UNCHANGED <<image, stack, excs, d, origin, cleaned>>

\* The start-up code's handler lets a fault turned into an exception retry.
ContinueFault ==
  /\ AtEnd /\ mode = "dispatch" /\ d.code = "THROW" /\ d.fault
  /\ mode' = "continued"
  /\ UNCHANGED <<image, stack, excs, current, d, origin, cleaned>>

\* The system ends the process: no target was met, or nobody took the code.
Abort ==
  /\ AtEnd
  /\ \/ mode = "unwind"
     \/ ~GCC(d.code)
     \/ d.code = "THROW" /\ ~d.fault /\ excs[d.exc].class # "GNAT"
  /\ mode' = "aborted"
  /\ UNCHANGED <<image, stack, excs, current, d, origin, cleaned>>

Program == Call \/ Return \/ Raise \/ Reraise \/ Fault \/ EnterRecord \/ FinishHandler
             \/ Terminate \/ Unwind_Resume
Visit == SkipFrame \/ Translate \/ Phase1 \/ Cleanup \/ Forced \/ Collide \/ PassUnwound
           \/ TargetUnwind
Finish == Unwind_ForcedUnwind \/ EndOfStack \/ ContinueFault \/ Abort

Next == Program \/ Visit \/ Finish

\* The thread runs, and the system's walk of the stack goes on.
Spec == Init /\ [][Next]_vars /\ WF_vars(Next)

-----------------------------------------------------------------------------
(***************************************************************************)
(* What the language promises, said of the tables before they are encoded. *)
(***************************************************************************)
Matches(choice, e) ==
  \/ choice = ALL_OTHERS
  \/ choice = e.id /\ e.class \in {"GNAT", "C++"}
  \/ choice = OTHERS /\ (e.class = "GNAT" => e.id \in ByOthers)
  \/ choice = UNHANDLED_OTHERS /\ e.class = "GNAT"
  \/ choice = FOREIGN /\ e.class # "GNAT"

PadsOf(frame) == {r.pad : r \in {s \in Regions[frame.fn] : frame.at \in s.first .. s.last}} \ {0}

\* The handlers for x in the frame at depth i of the stack that raised it.
HandlersAt(x, i) ==
  LET frame == origin[x][i]
      chain(p) == Chain[frame.fn][p]
  IN  {h \in {i} \X PadsOf(frame) \X (1 .. LongestChain) :
         /\ h[3] \in DOMAIN chain(h[2]) /\ chain(h[2])[h[3]] > 0
         /\ Matches(TypeTable[frame.fn][chain(h[2])[h[3]]], excs[x])}

Handlers(x) == UNION {HandlersAt(x, i) : i \in DOMAIN origin[x]}

\* The innermost handler: of the deepest frame, the first of its chain.
Innermost(x) ==
  CHOOSE h \in Handlers(x) :
    \A g \in Handlers(x) : g[1] < h[1] \/ (g[1] = h[1] /\ g[3] >= h[3])

\* The cleanups on the way to the innermost handler, or to the bottom.
CleanupsDue(x) ==
  LET frame(i) == origin[x][i]
      records(i) == {c \in {i} \X PadsOf(frame(i)) \X (1 .. LongestChain) :
                       /\ c[3] \in DOMAIN Chain[frame(i).fn][c[2]]
                       /\ Chain[frame(i).fn][c[2]][c[3]] = 0}
  IN  {c \in UNION {records(i) : i \in DOMAIN origin[x]} :
         Handlers(x) = {} \/ c[1] > Innermost(x)[1]
           \/ (c[1] = Innermost(x)[1] /\ c[3] < Innermost(x)[3])}

InUse(x) == excs[x] # NoExc
Running(i) == stack[i].rax # 0 /\ InUse(stack[i].rax) /\ stack[i].rax # d.exc

(***************************************************************************)
(* A handler runs only for the occurrence raised in its region that no     *)
(* inner handler takes: what get_action_description_for finds from the     *)
(* bytes, what phase 1 caches in private_ and what the landing pad reads   *)
(* from rdx after the cleanups agree.                                      *)
(***************************************************************************)
HandlerIsInnermost ==
  \A i \in DOMAIN stack :
    Running(i) /\ InHandler(stack[i])
      => /\ Handlers(stack[i].rax) # {}
         /\ Innermost(stack[i].rax) = <<i, stack[i].pad, stack[i].rec>>

(***************************************************************************)
(* Between the raise and the handler the cleanups of the frames in between *)
(* run once each, from the innermost to the outermost, though every one of *)
(* them cancels the unwinding by a colliding exception and resumes it.     *)
(***************************************************************************)
CleanupsOnceInOrder ==
  \A x \in Occurrences : InUse(x) =>
    /\ \A m \in DOMAIN cleaned[x] : cleaned[x][m] \in CleanupsDue(x)
    /\ \A m, n \in DOMAIN cleaned[x] : m < n =>
         \/ cleaned[x][m][1] > cleaned[x][n][1]
         \/ cleaned[x][m][1] = cleaned[x][n][1] /\ cleaned[x][m][3] < cleaned[x][n][3]
    /\ (\E i \in DOMAIN stack : Running(i) /\ stack[i].rax = x /\ InHandler(stack[i]))
         => Len(cleaned[x]) = Cardinality(CleanupsDue(x))

AtPad(i) == mode = "program" /\ i = Len(stack) /\ stack[i].pad # 0 /\ stack[i].rec = 0

(***************************************************************************)
(* A landing pad finds, when it is entered, its own occurrence in the      *)
(* current exception buffer, although cleanups before it raised and handled*)
(* others: always in a frame on the way to the handler, for whose pad the  *)
(* buffer is written in phase 2; in the handler's frame, for whose pad it  *)
(* was written in phase 1, as long as no cleanup has run since the raise.  *)
(* Nothing is said of later records of the same pad: between them nobody   *)
(* writes the buffer back.                                                 *)
(***************************************************************************)
PadSeesItsOccurrence ==
  \A i \in DOMAIN stack :
    AtPad(i) /\ (stack[i].rdx = 0 \/ cleaned[stack[i].rax] = <<>>)
      => current = stack[i].rax

(***************************************************************************)
(* The same of the pad of the handler's frame, the cleanups before the     *)
(* handler included, whatever has run: "Write current exception so that it *)
(* can be retrieved from Ada. It was already done during phase 1, but one  *)
(* or several exceptions may have been raised in cleanup handlers in       *)
(* between" (raise-gcc.c:1048). Here the call that writes it is made in    *)
(* phase 1 (unwind-seh.c:302-313).                                         *)
(***************************************************************************)
HandlerSeesItsOccurrence ==
  \A i \in DOMAIN stack :
    AtPad(i) /\ stack[i].rdx # 0 /\ excs[stack[i].rax].class = "GNAT"
      => current = stack[i].rax

(***************************************************************************)
(* An Ada exception that no handler takes ends in Unhandled_Except_Handler *)
(* once its cleanups have run: the hook of the forced unwinding "will gain *)
(* control again" (raise-gcc.c:1132).                                      *)
(***************************************************************************)
UnhandledIsReported ==
  mode = "aborted" /\ d.exc # 0 => excs[d.exc].class # "GNAT"

(***************************************************************************)
(* An exception in flight for which there is a handler reaches one, through*)
(* every cleanup, resumption and collision on the way.                     *)
(***************************************************************************)
HandlerReached ==
  \A x \in Occurrences :
    (d.exc = x /\ Handlers(x) # {})
      ~> (\E i \in DOMAIN stack : stack[i].rax = x /\ InHandler(stack[i]))

TypeOK ==
  /\ mode \in {"program", "dispatch", "unwind", "exited", "terminated", "continued", "aborted"}
  /\ Len(stack) \in 1 .. MaxDepth
  /\ \A i \in DOMAIN stack : stack[i].fn \in Funs /\ stack[i].rax \in Occurrences \cup {0}
  /\ \A x \in Occurrences : excs[x].class \in {"none", "GNAT", "C++", "other"}
  /\ current \in Occurrences \cup {0}
  /\ d.pos \in 0 .. Len(stack) /\ d.target \in 0 .. Len(stack)
=============================================================================
