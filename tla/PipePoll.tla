------------------------------ MODULE PipePoll -------------------------------
(***************************************************************************)
(* Waiting for the output of processes: __gnat_expect_poll of              *)
(* src/cpp/expect.c, which GNAT.Expect calls. It looks at the pipes in     *)
(* order, sleeps, and looks again, while the processes write to the pipes  *)
(* and end. Times are milliseconds that only Sleep takes.                  *)
(***************************************************************************)
EXTENDS Integers

CONSTANTS
  num_fd,    \* the pipes are 1 .. num_fd
  Timeouts,  \* the timeouts asked for; a negative one is infinite
  MaxSlept   \* the bound on the time slept

MAX_DELAY == 100

VARIABLES
  avail,     \* avail[i]: whether pipe i has bytes to be read
  open,      \* open[i]: whether its other end is open
  asked, timeout, delay,
  i,         \* the pipe that is looked at next, num_fd + 1 after the last
  slept,     \* history: the time spent in Sleep
  ready,     \* history: the pipes that had bytes or were broken as this look began
  answer     \* the result: [value, pipe], where value is "none" before there is one

vars == <<avail, open, asked, timeout, delay, i, slept, ready, answer>>

Pipes == 1 .. num_fd
Ready == {p \in Pipes : avail[p] \/ ~open[p]}
NoAnswer == [value |-> "none", pipe |-> 0]

Init ==
  /\ avail \in [Pipes -> BOOLEAN] /\ open = [p \in Pipes |-> TRUE]
  /\ asked \in Timeouts /\ timeout = asked /\ delay = 5
  /\ i = 1 /\ slept = 0 /\ ready = Ready /\ answer = NoAnswer

\* The processes.
Write(p) ==
  /\ answer = NoAnswer /\ open[p] /\ ~avail[p]
  /\ avail' = [avail EXCEPT ![p] = TRUE]
  /\ UNCHANGED <<open, asked, timeout, delay, i, slept, ready, answer>>

End(p) ==
  /\ answer = NoAnswer /\ open[p]
  /\ open' = [open EXCEPT ![p] = FALSE]
  /\ UNCHANGED <<avail, asked, timeout, delay, i, slept, ready, answer>>

\* PeekNamedPipe: a pipe that is broken has still what was written to it.
Fails(p) == ~open[p] /\ ~avail[p]

Peek ==
  /\ answer = NoAnswer /\ i \in Pipes
  /\ answer' = CASE Fails(i) -> [value |-> "dead", pipe |-> i]
                 [] ~Fails(i) /\ avail[i] -> [value |-> "set", pipe |-> i]
                 [] ~Fails(i) /\ ~avail[i] -> NoAnswer
  /\ i' = i + 1
  /\ UNCHANGED <<avail, open, asked, timeout, delay, slept, ready>>

infinite == asked < 0

\* Mutant: out of time before the last look.
TimedOut_Early ==
  /\ answer = NoAnswer /\ i = num_fd + 1 /\ ~infinite /\ timeout <= delay
  /\ answer' = [value |-> "timeout", pipe |-> 0]
  /\ UNCHANGED <<avail, open, asked, timeout, delay, i, slept, ready>>

\* All have been looked at, and the time is over.
TimedOut ==
  /\ answer = NoAnswer /\ i = num_fd + 1 /\ ~infinite /\ timeout <= 0
  /\ answer' = [value |-> "timeout", pipe |-> 0]
  /\ UNCHANGED <<avail, open, asked, timeout, delay, i, slept, ready>>

\* Each sleep is longer than the one before, up to a bound.
Sleep ==
  /\ answer = NoAnswer /\ i = num_fd + 1 /\ (infinite \/ timeout > 0)
  /\ slept < MaxSlept
  /\ slept' = slept + delay /\ timeout' = timeout - delay
  /\ delay' = IF delay < MAX_DELAY THEN delay + 10 ELSE delay
  /\ i' = 1 /\ ready' = Ready
  /\ UNCHANGED <<avail, open, asked, answer>>

Next == (\E p \in Pipes : Write(p) \/ End(p)) \/ Peek \/ TimedOut \/ Sleep

Spec == Init /\ [][Next]_vars

-----------------------------------------------------------------------------
(***************************************************************************)
(* The timeout is reported after that time at least and less than one      *)
(* delay more, and never while there was, as the last look began, a pipe   *)
(* that had bytes or was broken. A process is reported dead only when all  *)
(* it wrote has been read. No earlier pipe is passed over.                 *)
(***************************************************************************)
PollAnswers ==
  /\ answer.value = "timeout" =>
       /\ ready = {} /\ slept >= asked
       /\ asked >= 0 /\ slept < asked + MAX_DELAY + 10
  /\ answer.value \in {"set", "dead"} => \A p \in ready : answer.pipe <= p
  /\ answer.value = "dead" => ~avail[answer.pipe]
=============================================================================
