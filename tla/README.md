# A TLA+ verification of the Ada runtime for WinRT

The repository is the GNAT 8 Ada runtime with the target-dependent parts
rewritten for WinRT: `adainclude/` holds the runtime library (1268 Ada units),
`cpp/` its C support (13119 lines, of which the definitions here model about a
third), `build/` the target's `system.ads`. Two parts carry state and are hard
to get right. The *tasking kernel* is a dozen Ada packages, written against
Win32 critical sections and events, that make tasks sleep, wake, abort,
rendezvous and terminate. The *C support* propagates exceptions through the
frames of the system, keeps the list of child processes that several tasks wait
for, and gives the Ada library its directories, files, locales, environment,
arguments, paths and pipes. This project models both, one component per module,
checks the modules with TLC and proves their main properties with TLAPS.

Three facts of the target decide how the tasking kernel behaves and are assumed
throughout:

* `Single_Lock = False` (`s-parame.ads:154`): every task has its own lock.
* `No_Abort = False`, but `Abort_Task` does nothing (`s-taprop.adb:1017-1021`):
  a task notices an abort only when it polls, in `Undefer_Abort`.
* A condition variable is a **manual-reset event**. Whoever is about to wait
  resets it before giving up the lock; a signal wakes every waiter and stays.

## Inventory

| component | state | operations | hard behaviour | what makes it correct |
|---|---|---|---|---|
| Suspension objects, `s-taprop.adb` | `State`, `Waiting`, lock `L`, event `CV` | `Set_True`, `Set_False`, `Suspend_Until_True` | abort between announcing a wait and waiting; a second waiter resets the event | no early return, one waiter, no stranded task, the contract of `s-taprop.ads` |
| Asynchronous delays, `s-taasde.adb` | the timer queue, `Next_Wakeup_Time`, `Timer_Attention`, each `Delay_Block` | `Enqueue_Duration`, `Cancel_Async_Delay`, the task `Timer_Server` | server gives up its lock between dequeuing and aborting; cancel races expiry; block memory reused | sorted queue, no missed deadline, an abort ends with the select it is recorded in |
| Abort machinery, `s-tasini.adb`, `s-tasuti.adb` | `Deferral_Level`, `Pending_ATC_Level`, `ATC_Nesting_Level`, `Aborting`, `Pending_Action`, `ATC_Hack` | `Defer/Undefer_Abort`, `Do_Pending_Action`, `Locked_Abort_To_Level`, `Exit_One_ATC_Level` | aborts recorded while deferred, nested levels, re-raising | an abort is delivered once, to the right level, and never lost |
| System clock, `s-osprim.adb` | two `Clock_Data` buffers, `Current`, `Signature` | `Clock`, `Get_Base_Time`, `Monotonic_Clock` | lock-free readers against a writer, clock adjusted at any time | a reading mixes no two base times and follows an adjustment |
| Sleeping and waking, `s-taprop.adb` | each task's lock and event | `Sleep`, `Timed_Sleep`, `Timed_Delay`, `Wakeup`, `Yield` | reset before unlock, time-outs that come early | no wakeup is lost |
| Locks with ceilings, `s-taprop.adb` | `Owner_Priority`, `Priority`, `Mutex` | `Write_Lock`, `Read_Lock`, `Unlock`, `Set_Ceiling` | `Owner_Priority` written outside the lock | violations reported to the caller that commits them |
| Entry queues, `s-tasque.adb` | circular lists of `Entry_Call_Record` | `Enqueue`, `Dequeue`, `Dequeue_Head`, `Requeue_Call_With_New_Prio`, `Select_*` | priorities change while queued; removal from the middle | a queue is a FIFO within a priority; a call is on one queue |
| Protected objects, `s-tpoben.adb`, `s-tpobop.adb`, `s-tposen.adb` | lock, queues, `Call_In_Progress`, each call's `State` | `Protected_Entry_Call`, `PO_Do_Or_Queue`, `PO_Service_Entries`, requeue, cancel | the caller's lock and the object's are taken in a fixed order, calls requeued while cancelled | each call is done or cancelled once, for good; no open entry keeps a caller |
| Entry calls, `s-taenca.adb` | `Entry_Call.State`, `Cancellation_Attempted` | `Wait_For_Completion`, `..._With_Timeout`, `Wait_Until_Abortable`, `Try_To_Cancel_Entry_Call` | the queue a call is on changes until its lock is held | a cancelled call leaves its queue; a completed one is not cancelled |
| Rendezvous, `s-tasren.adb` | `Open_Accepts`, `Chosen_Index`, the task's queues | `Call_Simple`, `Accept_Call`, `Selective_Wait`, `Complete_Rendezvous`, requeue | caller and acceptor lock each other's ATCB | a call is accepted once, its caller released once |
| Activation and termination, `s-tassta.adb`, `s-tasuti.adb` | `Awake_Count`, `Alive_Count`, `Wait_Count`, `Master_Within` | `Create_Task`, `Activate_Tasks`, `Make_Passive`, `Complete_Master`, `Terminate_Task` | terminate alternatives re-awakened, counts kept by many tasks | a master waits for exactly its dependents; terminate is taken together |
| Global task lock, `s-tasini.adb` | `Global_Task_Lock_Nesting` | `Task_Lock`, `Task_Unlock` | nesting, abort deferral | mutual exclusion; abort deferred inside |
| Task attributes, `s-tataat.adb`, `a-tasatt.adb` | attribute indices and values | `Next_Index`, `Set_Value`, finalization | freed while read | a value is freed once |
| Interrupts, `s-interr.adb` | handler and entry tables | attach, detach, bind | server tasks and user tasks | a handler in use is attached |
| Finalization masters and storage pools, `s-finmas.adb`, `s-stposu.adb` | doubly linked list of objects | attach, detach, finalize | objects allocated while the master finalizes | every object is finalized once |
| Secondary stack, `s-secsta.adb` | chunks, mark | `SS_Allocate`, `SS_Mark`, `SS_Release` | release to a mark in an earlier chunk | released space is never in use |
| Signals between threads: `g-semaph.adb`, `g-boubuf.adb`, `a-synbar.adb`, `a-rttiev.adb` | built on the above | | | |
| Foreign threads, `s-tporft.adb` | | | | |
| Containers (`a-co*`), strings, text I/O, numerics, GNAT library (`g-*`) | sequential library code | | tampering counts | |

The C support, with the packages that use it:

| component | state | operations | hard behaviour | what makes it correct |
|---|---|---|---|---|
| Exceptions, `raise-gcc.c`, `unwind-seh.c`, `seh_init.c`, `unwind-pe.h`, `a-exexpr.adb` | the frames, the occurrence and its `private_` words, the current exception buffer | raise, reraise, fault, `_Unwind_Resume`, forced unwinding, the personality routine and its tables | two phases mapped on the system's search and unwinding, cleanups that cancel and resume it, exceptions nested in cleanups, off-by-one addresses | the innermost handler, after each cleanup once |
| Child processes, `adaint.c`, `expect.c` | `HANDLES_LIST`, `PID_LIST`, `ProcListCS`, `ProcListEvt`, open handles | spawn, wait for any, wait for one | several waiters with copies of the list, handles closed and given again, an event that wakes one | no handle closed that is in use, each child reported once, waits end |
| Directory streams, `dirent.h`, `adaint.c` | stream, search handle, cached entry, heap | `opendir`, `readdir`, `rewinddir`, `closedir`, `scandir` | directory changes meanwhile, memory runs out, names without conversion | nothing leaked, every stable file given once |
| Files, `adaint.c`, `g-locfil.adb` | files, descriptors, `file_attributes` cache, attribute bits | open, lock files, unlink, rename, `__gnat_*_attr`, `__gnat_copy_attribs` | the cache is filled by two calls, files change in between, a step fails with handles open | one holder of a lock, answers of one stat, no handle left |
| Locales, `locales.c` | the locale of the process | language and country code | save, set and restore of a global, by tasks, from a pointer to the C library's storage | restored; the codes are those of the name and have the letters of a code |
| Environment, `env.c`, `argv.c`, `a-envvar.adb`, `a-colien.adb` | the process's block | `getenv`, `setenv`, `clearenv`, count, length, value | the block is copied and then walked | what had to be deleted is |
| Names of symbols, `adadecode.c` | a buffer, a static flag | `__gnat_decode`, `get_encoding` | strings cut and stretched in place | the inverse of the compiler's encoding |
| Start and end of the C run-time, `rtinit.c`, `rtfinal.c` | reference count, critical section, event, argument table | initialize, finalize | counted without a lock; the table grows under expansion | alive while referenced; arguments expanded in order |
| Search along a path, `adaint.c` | none | `__gnat_locate_*` | empty, quoted, unterminated entries | the first match in order |
| Waiting for output, `expect.c` | pipes, remaining time | `__gnat_expect_poll` | time-out against data and ends | no time-out with data there |
| Control-C, `ctrl_c.c`, `g-ctrl_c.adb` | `Ada_Handler`, `sigint_intercepted`, registration | install, uninstall, the system's call | the system's thread reads twice what tasks write | an installed handler is called |
| Sockets, terminals, streams, exit, tracebacks, signals (`socket.c`, `terminals.c`, `sysdep.c`, ...) | none of its own | | | |

Interaction is by calls and by shared ATCBs. Everything rests on the four
primitives of `s-taprop.adb` (lock, unlock, sleep, wakeup). The timer server,
entry completion and `abort` statements all end in `Locked_Abort_To_Level`; the
victim meets the abort in `Undefer_Abort`. Entry calls go through the queues
of `s-tasque.adb`, are completed by `Wakeup_Entry_Caller` and waited for in
`s-taenca.adb`. Of the C support, the run-time's start creates the critical
section and event of the list of processes; spawning and `__gnat_expect_poll`
serve `GNAT.Expect`; the other packages share only the process's state (its
files, environment and locale) with the system and with each other's callers.

## Modules

### SuspensionObject, SuspensionContract

`SuspensionObject` models `s-taprop.adb:1117-1268`. `State`, `Waiting`, `L` and
`CV` are the fields of `Suspension_Object`; `pc` and `op` say where each task is
and which operation it is in. The flags are written only inside `L` and each
protected section makes at most one event call, so a section is one action
(`Section`), separate from `Enter` (EnterCriticalSection). What lies outside
the lock is a step of its own: `Abort_Undefer`, which may raise `Abort_Signal`
and abandon the rest, and `WaitForSingleObject`. `SetEvent` on a manual-reset
event satisfies every wait in progress: `Woken` releases all blocked tasks.
`granted` is a history variable: the tasks whose suspension some `Set_True` has
ended. `AbortTask` models a whole-task abort as these tasks see it.

`SuspensionContract` is the comment of `s-taprop.ads:490-506` as a
specification: open or closed, at most one suspended task, released tasks.
The refinement mapping reads `open` off `State` and the suspended tasks off
`pc`, minus `granted`.

### AsyncDelays

`s-taasde.adb` as a whole, with `Locked_Abort_To_Level`, `Do_Pending_Action`,
`Exit_One_ATC_Level` and the `Timed_Delay` of a client. Each client runs
the expansion shown in `s-taasde.ads:46-90`, at most `MaxSelects` times, with
one `Delay_Block` that has the same address every time, as a block declared
in a loop has. A section under the server's or a client's lock is one action;
between `ServerMark` and `ServerAbort` the server holds the client's lock
(`ServerHolds`), and the two are separate because a client writes the fields
of its block without any lock. `StopsAt` is the insertion search: the first
block from the head that does not resume before `t` (equal times: last in,
first out). `now` is `Monotonic_Clock` in whole ticks; `MaxSensibleDelay` caps
a delay as `OSP.Max_Sensible_Delay` does.

`AbortEndsWithSelect` is about levels: an abort that can be raised is recorded
for the select that is open, and is gone when that is left. It does not say that
this select's delay has expired. Where the server dequeued the block of an
earlier select at the same address, the later one is aborted before its time:
that is `AbortIsTimeout` and `NoPrematureTimeout` under `AsyncDisagreements`,
which behaviours of the run `async_reuse` break too.

Left out: nested selects (and with them `ATC_Hack`, whose guard the invariant
`AbortEndsWithSelect` contradicts here), whole-task abort, early time-outs
of `WaitForSingleObject`.

### SystemClock

`s-osprim.adb:101-305`. `buffer` is the pair `First`, `Second`, `Current` and
`Signature` are the shared variables, and each load and each store of them is
an action: `LoadSignature`, `LoadCurrent` and one `CopyField` per field copy
the base; `StoreTicks`, `StoreClock`, `SwitchBuffer` and `BumpSignature` update
it, in the order of the source. A task that gives up after `MaxTries` copies
goes on with the last one, as the `for` loop of ten does. `ticks` is the
performance counter and `ticks + offset` the system's time, in units of
`Max_Shift`; `Adjust` sets the latter to any time of `Offsets`. `Get_Base_Time`
waits for the system's time to advance; its sample is one step (`TakeSample`),
for it stays inside `Lock` and reads no shared data. The time that `Clock`
returns is compared with the times the system showed since it was called
(`ClockAccurate`). `Monotonic_Clock` is the reading of the counter; its base
never changes.

### ProtectedEntries

The engine of protected entries, `s-tpobop.adb` with the caller's side in
`s-taenca.adb`. The variables are the caller's `Entry_Call_Record` (one per
caller, reused by its next call), the object's lock, queues and
`Call_In_Progress`, and of an ATCB the state, the pending abort level and the
event. Barriers are a set of open entries per object (`open`), entry bodies
nondeterministic: they set the barriers of their object and end or execute a
requeue statement of `Requeues`.

`PO_Do_Or_Queue`, `PO_Service_Entries` and `Requeue_Call` call each other and
run on whichever task has the object's lock. What is left of the calls in
progress is the task's `agenda`, a stack of frames with the innermost first:
`do` is a call of `PO_Do_Or_Queue`, `service` the loop of
`PO_Service_Entries`, `body` an entry body, `after` what follows it, `check`
the test of `Entry_Call.State` behind `Requeue_Call`. A lock counts its depth,
because a task may requeue back to an object it holds and Windows lets it.

`AfterCall`, `Relock`, `PollCancel`, `PollOver`, `PollSleep`, `Wake` and
`TimeOut` are `Wait_For_Completion` and its timed form. At "polling" the caller
holds its own ATCB lock over two actions, and in the time-out over three, which
excludes `AfterDone`, `DoCancel` and `AbortTask` on it (`ATCBFree`). It does not
exclude the server, which reads and writes `Entry_Call.State` under its object's
lock only. So each side's access is a step of its own: `TimeOut` gives the call
up, `TestState` reads its state and `MarkAbortable` writes it; `DoQueue` puts
the call on its queue, `ReadState` computes its `New_State` and `Enqueue` writes
that. A mark may be overwritten, and may revive a call that ended between test
and write. `LockServerAgain`, `CancelCall`
and `DoNotCancel` are the three outcomes of `Lock_Server` and the second test.
`E`, `Called_PO` and `With_Abort` are written by the server while the caller
reads them without its lock, as in the code; `pragma Atomic` makes each access
one step.

### EntryQueue

`s-tasque.adb`. `q` holds the links and priorities of the records and the ends
of each queue, `E` the entry a call is for. The list operations `Enqueue`,
`Dequeue`, `Dequeue_Head` map one `q` to the next, pointer by pointer, so that
`Requeue_Call_With_New_Prio` is composed of them as in the code. The loop of
`Enqueue` is stated by where it goes: `Reached` is the least set of calls that
has the head and, after a call whose priority is not below the new one, the next;
`FirstLower` is the call at which it stops. An operation under the server's lock
is one action, except `Broadcast_Program_Error`, which is a step for every call
it dequeues and tells (`Send_To_Head`) and for every queue it finishes
(`Next_Queue`): while `emptying` is not empty the server keeps its lock and
nothing else happens. Barriers are inputs: which are open and which raise an
exception (`Select_Protected_Entry_Call`); so are the open alternatives of a
selective wait (`Select_Task_Entry_Call`). `Is_Task` and `Priority_Queuing` are
fixed in the initial state. The history variable `ahead` has, for each waiting
call, those that were queued before it and still wait. `PolicyOrder` is computed
from it and the priorities without looking at a link, and `Rings` says that the
links of a queue are a ring of given calls that goes up a given order.
`ProtectedEntries` takes its queues to
be sequences; `ListedInOrder` says that under FIFO they are. When a barrier
raises an exception after a call was selected under the priority policy, that
call is told with the others and `Dequeue_Head` finds its queue empty: nothing
is lost (`NoneForgotten`), though `pragma Assert (Temp_Call = Entry_Call)` of
line 528 would fail if assertions were compiled in.

### ExceptionPropagation, LanguageSpecificData

One thread's stack of frames. The thread runs the program (mode `program`), the
system searches for a handler (`dispatch`) or unwinds to a target (`unwind`);
one action is the visit of one frame, with the language handler it calls:
`_GCC_specific_handler` in its phases (`Phase1`, `Phase2`, `Cleanup`, `Collide`,
`TargetUnwind`, `Forced`) around `personality_body`. `private_` keeps what phase
1 found, as in the code; a cleanup raises `STATUS_GCC_UNWIND`, which collides
with the unwinding under way, and `Unwind_Resume` takes it up again. `current`
is the buffer that `Setup_Current_Excep` writes. The personality routine does
not see the tables but the bytes of them: `LanguageSpecificData` reads headers,
call sites, action records and types as `unwind-pe.h` does, and
`MCExceptionPropagation` lays out a program's tables in three encodings. The
properties are stated of the tables before they are encoded.
`__gnat_adjust_context`, which would move the address of a fault, is never
called: `mf_func` stays `NULL` in `__gnat_personality_seh0`, hence the
model's faults at the first instruction of a region belong to the region before.
External: the dispatcher, `RtlUnwindEx`, the compiler's landing pads.

### ProcessList

`list` is `HANDLES_LIST` and `PID_LIST`; `own` and `got` are a call's locals.
What happens inside `ProcListCS` is one step, for nothing in it waits, except
where the code returns without leaving it: `CopyList` with more children than
`MAXIMUM_WAIT_OBJECTS`. Everything else, also the stretch between
`WaitForMultipleObjects`, `GetExitCodeProcess` and the removal, is a step of its
own. A handle is the name of an object; `ReuseHandles` says whether the system
gives a closed one out again. `ProcListEvt` resets itself when it wakes a
waiter, and `SignalListChanged` on a set event changes nothing.

### The C support packages

Each of these is a module that nothing else shares variables with.
`SupportPackages` instantiates eight of them and `MCRuntimeSupport` the ninth
(`NameDecoding`), and an initial state chooses which of them runs (`part`), so that one run checks
them side by side; the theorems are about `SupportPackages`.

* `DirectoryStream`: `dirp` is the `_WDIR` (with its `DIR`), `heap` and `search`
  the allocated blocks and search handles, `scan` the locals of `scandir`. Each
  allocation may fail. `ChangeDirectory` is everybody else. `qsort` may leave
  entries that compare equal in any order (`Sortings`); two of the names do.
* `FileSystem`: a call is as many steps as it makes system calls; `attr` is the
  cache (`file_attributes`), `since` the states of the file since it was reset.
  `__gnat_stat` makes two (`stat`, `stat_exists`): when `GetFileAttributesEx`
  fails, which it may for a file that is there, and `GetFileAttributes` does not,
  it takes the file for a regular one of length 0 (`Pretended`); when both fail,
  the error of the first is kept (`EACCES` stands for all but `ENOENT`).
  `AnswersOfOneStat` is what the code does give: answers that belong together;
  that they are true at some moment is the disagreement `AnswersOfOneMoment`.
  `CopyOpenFrom` ... `CopySetBits` are the steps of `__gnat_copy_attribs`.
* `Locales`: names are sequences of characters, the two tables parameters.
  `Saved_Locale` and `lc_all` are pointers into storage of the C library:
  `PointedTo` is what one reads through such a pointer, the name that was
  returned or the one that was set since. The letters "a", "b" and "A", "B" stand
  for the lowercase and the uppercase ones.
* `Environment`: a variable is its position in the block; a value is a length.
  `__gnat_clearenv` walks a copy, deleting one variable per step, and where the
  copy lists nothing it reads past its end (`ClearPast`).
* `NameDecoding`: `__gnat_decode` as the composition of its strips, each on the
  buffer with its NUL; `Symbol` is the external encoder. The static
  `verbose_info` makes a second symbol different from the first.
* `RuntimeStartup`: `count` is `rt_init_count`, loaded and stored in one step
  and tested in the next; `ProcList` the critical section and event;
  `append_arg` and the loop over `FindNextFile` fill `gnat_argv`. `Expanded`
  compares it with the set of what the command line stands for: each argument or
  match is at the place that the number of those up to it says.
* `PathSearch`: one test of the predicate is one step, its result free; `tried`
  is what was tested. `Wanted` are the names to look for, each with the place in
  the path where the directory begins, found from the positions of the separators
  without the code's pointer; `InOrder` compares the two as `Expanded` does.
* `PipePoll`: `Peek` looks at one pipe, `Sleep` takes `delay`; processes write
  and end between any two steps.
* `ControlC`: loads and stores of `sigint_intercepted` and `Ada_Handler` are
  steps; `event` is the system's thread.

## Runs

Deadlock is not checked where the system may really stop: tasks make a
bounded number of calls, a program exits, and a call may wait for a barrier or
for a `Set_True` that nobody owes it.

| run | question | bounds |
|---|---|---|
| `suspension_two_waiters` | one waiter, closed while it waits; refinement of the contract, which nobody leaves early | 2 waiters, 2 setters of which 1 may be aborted, unbounded calls: two waiters meet, and a third would get `Program_Error` as the second does |
| `suspension_one_waiter` | a released task is not stranded and returns; refinement with fairness | 1 waiter that also sets, 2 setters |
| `async_reuse` | no missed deadline, no lost wakeup, no abort outlasts the select it is recorded in, though the second select's block has the first one's address | 2 clients, 2 selects each, times to 2 |
| `async_liveness` | no early time-out; an expired delay is served and ends a sleep | 2 clients, 1 select each, times to 2 |
| `clock_two_tasks` | the lock-free copy is coherent, readings are right unless overtaken | 2 tasks, 2 calls each, 2 adjustments: both buffers are replaced within one copy |
| `entries_with_abort` | calls that move with abort, made with abort deferred or not: no caller leaves one that is not over, and what ended one is final, while a time-out's read, test and write of its state interleave with the server's | 2 objects, all modes, 2 callers of which 1 may be aborted, 1 requeue per call, with abort to the other object or without within its own (with abort within its own `OverIsFinal` is false, `EntriesTimedOut`; for `CallerStays` the proof has every kind of requeue) |
| `entries_requeue` | calls that move without abort: service complete, no wakeup lost, they stay queued; what is given up ends | 2 objects, 2 timed callers of which 1 may be aborted, 1 requeue per call |
| `entry_queues` | listed in the order of the policy, the right call served, none lost | 4 calls, 2 entries, 2 priorities, both policies, task or object: insertion at both ends and between equals |
| `exceptions_main` | the innermost handler, each cleanup once and in order, its occurrence in the buffer when it is on the way to the handler's frame, and the handler is reached | 5 functions, 1 without tables, 2 occurrences at once, depth 5, 3 encodings of every table: exceptions nested in cleanups, faults, reraising, several choices in a region |
| `processes_two_tasks` | listed handles open, each child reported once, waits end | 2 tasks of which 1 spawns, both wait for any and 1 for a named child, 2 children alive or being created, handles not given again |
| `runtime_support` | the properties of the C support packages, one per row of the inventory and more | see below |
| `processes_stranded` (violation) | a third waiter is left on its copy of the list | 3 tasks, 1 child |

The two-object runs give an object one entry, since selection among entries is
the business of `entry_queues`. Tasks make one call each in the runs of
`ProtectedEntries`: `NoOpenEntryLeft` does not survive a second one
(`EntriesReused` below), and the other properties speak of one call's life.

The parts of `runtime_support`: one stream and one `scandir` on a directory of 4
names in every state of convertibility, one change, every allocation failing or
not; two tasks at four files in four scenarios (two that lock; one that asks
while the other opens, unlinks, renames and writes; two that copy attributes;
one that sets bits while the other copies); every locale name with up to four
letters per part and all optional parts; two tasks at four variables; every
symbol of up to three parts with every ending; command lines of up to two
arguments, quoted or wild, with a table that grows by 2, so that it is full
before, within and after the matches of a wildcard; every path of up to four
characters over a letter, the separators and the quote; two pipes with four
time-outs; and Control-C with four calls of one task. Paths with an entry
of two quotes only and arguments of one quote are left out: the code goes before
the beginning of its string there, which the model has no contents for.

Some invariants are defined for proofs or for reading and are not in a run's
list, which names only what code could break: `TypeOK` of each module,
`NoEarlyReturn` (proved; the contract's refinement contains it),
`QueueWellFormed`, `PublishedBase`, `RaisedInAbortablePart`, `QueuedOnce` and,
for one task, `LiveWhileReferenced` (all proved).

### Disagreements found

Each row is a configuration and a property that a comment or an assertion of the
source states, and TLC shows an execution of the code that breaks it.
`ProcessesStranded` is a run of `PROJECT.json`, which quotes the comment; the
others are run by hand, `tlc -config X.cfg` on the module's MC module, and the
comment above the property quotes what it breaks. Where a configuration names
several, TLC stops at the first violated: to see one, leave only its line.

| configuration | property | what happens |
|---|---|---|
| `ProcessesStranded` | `WaitEnds` | the event of the list wakes one waiter for each change and resets itself: of three tasks one goes on waiting for a list whose processes were all reported |
| `ProcessesDisagreements` | `LockReleased` | with too many children `win32_wait` returns `EINVAL` from inside the critical section (`adaint.c:1981`) |
| | `ReportedOnce` | a wait goes on with a handle that another wait closed and the system gave to a new child: that child is reported with the other's status or twice |
| `ExceptionDisagreements` | `HandlerSeesItsOccurrence` | a cleanup that raises and handles another exception leaves it in the buffer of the handler entered next, for the handler's write was made in phase 1 |
| | `UnhandledIsReported` | an Ada exception that nobody handles starts a forced unwinding; after its first cleanup `_Unwind_Resume` goes on without the hook, and at the end of the stack the system ends the process without `Unhandled_Except_Handler` (`raise-gcc.c:1130-1132`) |
| | `HandlerIsInnermost` | a fault at the first instruction of a region is looked up one byte before it |
| `SuspensionDisagreements` | `ReleasedNotStranded` | a second `Suspend_Until_True` resets the event before a task just resumed has reached its wait: it blocks although released |
| | `ProgramErrorJustified` | a task aborted between `Waiting := True` and its wait leaves the flag: the next task gets `Program_Error` with nobody waiting |
| `AsyncDisagreements` | `NoPrematureTimeout` | the server marks a block it dequeued in an earlier select, at the same address: a time-out before its time |
| | `AbortIsTimeout` | the same server aborts the later select, whose delay has not expired: it was its client that the server found by the block |
| | `ExitLevelAssertion` | aborting a cancelled delay records level 19 and breaks the assertion of `Exit_One_ATC_Level` |
| `ClockDisagreements` | `ClockAccurate` | a task whose base was replaced by another between its check and its lock returns the time by the old one |
| | `ClockAccurate` | with one task and `NearOffsets`: setting the time back by twice the base's age goes unnoticed, for a sign is dropped |
| `EntriesTimedOut` | `NoLostCompletion` | a call that timed out during its body and is requeued with abort on its object is cancelled, its caller not woken, for ever |
| | `NoOpenEntryLeft` | the same requeue leaves the service loop with a call queued on an open entry |
| | `NoLostCancellation` | a timed-out call becomes abortable by a requeue with abort, and nobody wakes its caller to cancel it |
| | `TimeOutTakesEffect` | the server writes `Never_Abortable` over the mark of the time-out, for it read the state before: the caller waits as if it had no time-out |
| | `OverIsFinal` | a call made with abort deferred is cancelled by a requeue with abort on its object, between the test and the write of its time-out: the write makes it `Now_Abortable` again |
| `EntriesReused` | `NoOpenEntryLeft` | so does a call requeued elsewhere whose record its caller uses again, in a conditional call that is cancelled; this needs no requeue with abort |
| `EntriesDisagreements` | `StaysQueued` | a timed call that is never abortable, requeued without abort, is cancelled by its time-out |
| | `ConditionalQueued` | the assertion on conditional calls in `Update_For_Queue_To_PO` fails after a requeue without abort |
| `EntriesCircular` | `NoCircularWait` | objects that requeue to each other: each of two tasks holds one and waits for the other |
| `RuntimeSupportDisagreements` | `ExecutableIsRegular` | the answer is `regular && executable`, and a `regular` that was never asked for is `ATTR_UNSET`, which counts as yes: a directory whose name ends in `.exe` is an executable file |
| | `TimeOfTheSameStat` | a stat overwrites the time that an earlier question filled: two answers of different moments |
| | `AnswersOfOneMoment` | the file is missing at the first call of a stat and a directory at the second (or the first call failed for another reason): it exists, is not a directory and has length 0, which is true at no moment |
| | `LocaleRestored` | one task: `setlocale (LC_ALL, "")` may overwrite the name that `Saved_Locale` points to, and the call then "restores" the environment's locale (with two tasks, the second may also save the setting of the first) |
| | `CodesWellFormed` | a language of three characters or a territory of two is passed through, also when they are not lowercase or uppercase letters |
| | `ClearDeletesAll` | `__gnat_clearenv` skips the first variable of its copy, which lacks the last one of the block |
| | `ExistsIfThere` | `__gnat_getenv` returns its buffer whether or not the variable is there: `Ada.Environment_Variables.Exists` always says yes |
| | `ValueFits` | the count or length of a variable and its value are two calls, between which another task changes it |
| | `NestedInverted` | `.nnnn` behind another ending: that one is not stripped any more |
| | `VerboseSurrounded` | the static `verbose_info` keeps a parenthesis open for the next symbol |
| | `QuotesRemoved` | an argument that begins with a quote and does not end with one loses its last character |
| | `LiveWhileReferenced` | two tasks: the second returns from `__gnat_runtime_initialize` before the first has created the critical section |
| | `QuotesIgnored` | a file name in quotes is looked for with them along the path and in the current directory: the name without them is used for an absolute one only |
| | `CallsAHandler` | Control-C between the two reads of `sigint_intercepted` and an uninstallation calls `NULL` |

Met while reading, without a property: `__gnat_map_SEH` reports a division by
zero of floating point as a denormal operand in its message;
`__gnat_set_file_time_name` opens its file for reading and sets the time through
that handle, which fails; `Unlock_File` does not look whether its `unlink`
succeeded.

## Fairness

Threads of the system are scheduled, so every step a task can take on its own
is weakly fair: `Step` of `SuspensionObject`, `Server` and `RunTimeStep` of
`AsyncDelays`, `ServerStep`, `ReturnProcedure`, `CallerStep` and
`TimeOut` of `ProtectedEntries`, `Step` of `ProcessList`, and `Tick` where time
has to pass. Weak fairness of a step that waits for a lock gets it the lock only
if the others stop taking it. In `AsyncLiveness`, `EntriesRequeue` and
`ProcessesTwoWaiters` they do, for calls and children are bounded; in
`SuspensionOneWaiter` they need not, and the properties are about a task that is
past its lock. Entry bodies end (`ServerStep` contains them); a body that loops
keeps its object, which is the program's affair. Children end (`Exit` is fair),
for a wait for one that does not is meant to last. `ExceptionPropagation` is one
thread, whose next step is always taken. No fairness makes a program call,
abort, set or adjust anything; the C support packages need none, for their
properties are of safety.

## Proofs

All for any number of tasks, clients, times, handles, processes, files and
streams, and any program of functions with any tables; `TLC` checks each on its
instance first.

* `SuspensionObject_proofs`. `IInv` joins the type invariant, "not both `State`
  and `Waiting`", "at most one suspended task is not yet released, and while
  there is one `Waiting` holds unless it was aborted", and "only suspended
  tasks are released". `NoEarlyReturn` and `OneWaiterAndClosed` follow; neither
  is inductive, since what `Set_True` finds in `Waiting` must be tied to who
  waits. With one waiting task (`WaitersOnly`) nobody resets the event between
  release and wait: `ReleasedNotStranded`. `ContractImplemented` is the
  refinement of the contract, by cases on `Next`, with `ASSUME Abortable = {}`:
  an aborted waiter breaks the contract (`SuspensionDisagreements`).
* `AsyncDelays_proofs`. `AInv` carries the abort protocol: which level is open
  at which `pc`, and that the block the server has dequeued is a client's, not
  the header. `QInv` carries the queue: the links are inverse to each other and
  there is a numbering of the nodes that grows along `Succ` up to the header
  (`Ranks`), which makes "sorted and circular" a statement about neighbours,
  without induction over the list. `NoMissedDeadline` needs `WakeupCovers`,
  which accounts for the stretch between the server's look at the head of the
  queue and its sleep. `NoPrematureTimeout` and `AbortIsTimeout` are proved of behaviours in which no
  select uses a `Delay_Block` at the address of one that the server has dequeued
  and not marked yet (`OnlyReuseIsPremature`, `OnlyReuseAbortsEarly`), so that this is the only
  way to a time-out, and to an abort, before its time; `NoTimeoutIsPremature`
  draws the conclusion for a client whose blocks have addresses of their own.
* `SystemClock_proofs`. `SampleTrue` says that the buffer an update fills is
  not the current one and what it has so far is of one moment; `CopyIntact`
  that a copy whose signature is still the current one agrees with the base it
  points to. `CoherentCopy` follows. The invariant counts on the order switch
  then bump: a reader that got the new signature has the new pointer.
  `AccurateUnlessOvertaken` takes one more invariant, `SampleInForce`: as long
  as a call is not overtaken, its copy is of the base in force or the system's
  time has not been adjusted since. `OnlySetBackIsFalse` leaves one way to a
  false time, the dropped sign of s-osprim.adb:150, and `FarSetBacksNoticed`
  says which adjustments it cannot hide, in numbers.
* `ProcessList_proofs`. `ListedHandlesOpen` is not inductive: which handles are
  closed depends on who owns the others. `Inv` adds `OwnPrivate` (a handle held
  by a spawn or a `__gnat_waitpid` under way is open, not listed and no other
  task's), `SpawnedPid` (it names the process whose identifier the call holds),
  `NamesCreated` (an open handle names a created process) and the types. That
  only the finder of an entry closes its handle then carries it through waits
  that come back with a stale handle, also when handles are given again.
  `ReportedOnce` holds for handles that are not given again (`~ReuseHandles`;
  `ProcessesDisagreements` has the other case). Its invariant `RInv` follows a
  process from its creation: it is in the list once, or about to be added, or
  claimed by the one wait that took its entry off (`Accounts`), while copies of
  the list that other waits still hold name it too but find no entry any more;
  `WaitOf` says of each wait what its copy and its object may still be.
* `ProtectedEntries_proofs`. `Places` is the inductive invariant: a call is in
  one queue, once, that of the object and entry its record names, or with the
  one task whose agenda begins with it, and then its caller is where it waits
  and the call is not over. It needs the shape of agendas (`Stack`: only the
  first frame has a call, and under a frame is the one that unlocks its object)
  and that only a call or a cancellation executes one (`OwnAgenda`).
  `CallerStays` and `QueuedOnce` follow, and `OnlyMarksRevive`: no step but
  `MarkAbortable`, the write after a time-out, changes a call that is over.
  `OverIsFinal` is false because of that step (`EntriesTimedOut`), and
  `OverStaysOver` proves it where the step cannot meet such a call: where no
  call is made with abort deferred it never comes (`NothingMarked`: the test
  finds `Was_Abortable`), and where no requeue with abort is to the object
  itself nothing ends a call between test and write (`MarksOpen`: an end other
  than its caller's takes the lock that the caller holds). `LocksHeld` counts the
  frames that unlock an object and compares them with its lock's depth; from it
  a task owns the objects its agenda is about, which the type invariant and
  all that is said of bodies (`AfterBody`) rest on. Three more results have an
  assumption on the constants, each the negation of one of the
  disagreements found: `BarriersChecked` has none and says that only the exit
  of `PO_Service_Entries` after a requeue leaves an open entry behind, and
  `NoOpenEntryIsLeft` excludes that exit (no requeues, or no call that can be
  cancelled); `NoCompletionLost` excludes requeues with abort to the same object
  (`NoneWithin`), which cancel without waking; `CallsStayQueued` excludes calls
  made with abort deferred (`NeverDeferred`), which a time-out makes abortable.
  Its invariant, `Undeferred`, says that a call without abort, and one whose
  body executes, is `Was_Abortable` (`Protected`), also between the reads and the
  writes of its state (`UpdateProtects`, `NothingMarked`).

* `EntryQueue_proofs`. `ListedInOrder` is nearly inductive: `IInv` adds the
  types, that the waiting calls are in a line of arrival (`Arrivals`) and that
  the queues before the one being emptied are empty (`EmptiedInTurn`). The work
  is in the operators. `PolicyIsStrict`: priority, then arrival, is a strict
  order of the waiting calls. `LoopEnds`: on a ring that goes up this order, the
  loop of `Enqueue` stops at the first call of lower priority, or comes around if
  there is none; it is argued on sets that the loop's step does not leave and on
  the foremost call of a set (`Foremost`), so no induction along the ring is
  needed.
  `EnqueueRing` and `DequeueRing` are about the pointers: the new links are a
  ring of one call more or less in the same order, also at either end and for
  the only call. A change of priority is `TakenOut` and then `PutLast`.
  `ServesInOrder` and `NobodyForgotten` follow with `ChosenIsFirst`, the selection among entries.
* `ExceptionPropagation_proofs`. `IInv` has one part per mode. A frame that runs
  a cleanup or handler owns its occurrence (`Owned`), one that is not the top
  waits with its record (`Suspended`), and `DispatchInv` says where the system
  stands: searching, with no handler in the frames passed; unwinding to the frame
  that the search found, whose address `private_` still has; or colliding with
  an earlier unwinding, whose target it takes over. The lemmas before it say
  what the personality routine finds in *any* table that is laid out as the
  compiler does (`LayoutAssumption`): the call site of a program counter and its
  first action that matches. `HandlerIsInnermost` follows, and `PadSeesItsOccurrence`, which is
  about pads entered with selector 0 on the way to the handler; of the handler's
  own frame, for which phase 1 wrote the buffer, it says something only as long
  as no cleanup has run since the raise, for `HandlerSeesItsOccurrence` is false
  after that; of further records for the same pad it says nothing. `CleanupsOnceInOrder` is about the past: `HistInv` ties the frames on
  the stack to those that the occurrence was raised under (`Kin`), and the
  cleanups that have run to the ones due in the frames that unwinding has passed
  (`RanAt`, `RanInFlight`), and a bijection then counts them. The two
  theorems about regions have the hypothesis `FaultAssumption`, which leaves out
  a fault in the first instruction of a region or behind it: there the code is
  wrong (`HandlerIsInnermost` under `ExceptionDisagreements`). Liveness
  (`HandlerReached`) stays with TLC.
* `RuntimeSupport_proofs` is about `SupportPackages`: each property is proved of
  its package and then of the packages side by side (`PartsRun`: a behaviour of
  `Packages` is one of the package that its `part` names). For
  `DirectoryStream`, `DInv` has five parts: `HandlesOwned`, an open search
  handle is one stream's and stands where that stream does; `Progress`, for each
  stream the files given come in ascending order up to its place and every
  stable file is given or comes later (the cached first entry is the smallest);
  `ScanInv`, the table of `scandir` has the files given that the filter keeps,
  each in a block of its own, and after the end in order; and `HeapInv`, the
  heap is what the streams and `scandir` hold. `NothingLeaked`, `GivenOnce` and
  `ScanReturns` follow. That `malloc` finds a free number is the
  pigeonhole principle over the names, and sorting is any permutation that
  respects the order (`Sortings`), hence no statement about `qsort`'s algorithm.
  `ClearInv` of `Environment`: what a `__gnat_clearenv` has still to delete is
  behind its place in its copy. `PollInv` of `PipePoll` is the remaining delay.
  `InterruptsHandled` is proved for one task that installs handlers; with two,
  the registration and the flag can disagree. `LocaleInv` of `Locales` is where
  the one task stands and that the process has the environment's locale while it
  parses the name (two tasks break it; that the locale is restored is not true
  and not claimed); `CodesInv` says what the last code was computed from. What is computed is
  a matter of sequences, without a recursion: `Laid` says what stands at each
  place of a name, `CutAt` what a search cuts from a sequence, and `PartsFound`
  that the code finds the language and the territory from which the name was
  made, also when the name is given twice (`Unrepeated`: no part of a name given
  once repeats). It needs `NameAssumption`, what a part of a name may be, and
  `TableAssumption`, that rows for the same name agree; parts that are passed
  through though they are no code (`IllFormed`) are left to `CodesWellFormed`.
  For `FileSystem`, `FilesInv` is the types, what each call has named
  (`FilesNamed`: the handles that a copy of attributes holds are those of its
  files), `NobodyLockedOut`, and that there is one holder of the lock and its
  file exists (`OneHasLock`); a call is classed by what it may do to the sharing
  of a file (`Harmless`), which serves most actions at once. `CacheInv` is
  separate: the four answers that a stat stores are unset or those of one file of
  `Views`, those kept in `since` and what a stat makes of a failure (`CacheOf`);
  `Halfway` says what the step between the two system calls may rely on.
  `StartInv` of `RuntimeStartup` says for the one task at which argument and
  match it stands, that the table holds what the command line stands for up to
  there, each at its place, and that it has room; an appended element is
  accounted for by adding one to the number of those before it. With one task
  the critical section is there as long as it refers to the run-time
  (`LivesWhileReferenced`); of two, one returns too early, which
  `RuntimeSupportDisagreements` shows.
  `SearchInv` of `PathSearch` is `SearchShape` and, unless a name is quoted,
  `SearchStands`: the code's pointer is at the beginning of an entry, and the
  names tested are those wanted before it (`Reached`). `OpenedEntry` and
  `NextEntry` say that cutting off the entry moves the pointer to the next
  beginning, none between, and `DirectoryNamed` that the code names the directory
  that the entry means, with or without quotes, empty, or ending in a separator.

`ASSUME`d of the constants are only what their use implies (disjointness,
ranges, the layout of tables by the compiler); each is named and evaluated by
TLC. What the C support packages assume of theirs `MCRuntimeSupport` assumes of
its instances. The hypotheses of single theorems (`FaultAssumption`,
`~ReuseHandles`, one user, one select, one task that asks for the locale,
`NoneWithin`, `NeverDeferred`, no late reuse of a block, no set-back that goes
unnoticed) are each the negation of a disagreement listed above, and each is met
by the constants of a run.

Only model-checked: the liveness properties (`WaitEnds`, `HandlerReached` and
the others stated with `~>` or `<>`) and the refinement with fairness, for liveness is beyond the
provers; `DecodeInverts` of `NameDecoding`; and all of `LanguageSpecificData`,
what reading a table returns. The last two are compositions of conversions over
sequences of any length (the strips of a symbol's encodings, variable-length
numbers), whose result for every input takes an induction over the input, which
the provers cannot instantiate. Where a walk could be stated by what it reaches
or by counting, as for the rings of `EntryQueue`, the arguments and the paths, it
is proved.

## What is not modelled

Ceilings, priorities but for those of queues, exceptions in entry bodies,
`Max_Entry_Queue_Length`, asynchronous and task entry calls, nested asynchronous
selects, whole-task abort in `AsyncDelays`, early time-outs of the system, the
`Single_Lock` variant (the target does not use it). Of the C support: the
contents of files, `DW_EH_PE_aligned` and `DW_EH_PE_indirect`, the variants for
other targets and for setjmp/longjmp that this build does not compile, the code
page and encodings of file names, `_Unwind_Backtrace`. `socket.c`, `sysdep.c`,
`cstreams.c` and the small files are one system call per function, and what is
compiled of `terminals.c` are stubs. Formatting, debugging traces and, but for
`scandir` and `opendir`, the failure of allocations are left out throughout. The
sequential library code is outside the scope: its hazards are those that a unit
test reaches.

## Plan

In this order; the first two extend what exists.

1. *Entry calls, completed.* `ProtectedEntries` with asynchronous calls
   (`Wait_Until_Abortable`, `Try_To_Cancel_Entry_Call`, aborts of the abortable
   part by `Wakeup_Entry_Caller`), with exceptions of entry bodies and
   `Broadcast_Program_Error`. An abstract `EntryContract`: a call is queued,
   executed or over, and over for good.
2. *`TaskSleep`*: `Sleep`, `Timed_Sleep`, `Timed_Delay`, `Wakeup` with time-outs
   that come early; `CeilingLock`: `Owner_Priority` outside the lock.
3. *`NestedAborts`*: asynchronous selects in one another, `ATC_Hack`,
   `Abort_Tasks`, `Aborting` and the re-raising at each level.
4. *`Interrupts`*: the C handler, the server task and the table of
   `s-interr.adb`; counts incremented on both sides without a lock.
5. *`MasterCompletion`*: `Awake_Count`, `Alive_Count` and `Wait_Count` in
   `Make_Passive`, `Complete_Master`, `Terminate_Task` and the wakeup of a task
   at a terminate alternative; safety is that a master waits for exactly its
   dependents, proved by counting.
6. *`Rendezvous`*: `Call_Synchronous`, `Accept_Call`, `Selective_Wait`,
   `Task_Do_Or_Queue`, requeue, with the order of two ATCB locks.
7. *`TaskLock`*, *`FinalizationMaster`*, *`SecondaryStack`*: nesting and abort
   deferral; attach against finalize; release to a mark.
