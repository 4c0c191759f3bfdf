---------------------------- MODULE SupportPackages ---------------------------
(***************************************************************************)
(* The C support packages that the theorems of RuntimeSupport_proofs are   *)
(* about, side by side: DirectoryStream, FileSystem, Locales, Environment, *)
(* PipePoll, ControlC, RuntimeStartup and PathSearch. They share nothing:  *)
(* a behaviour is one of one of them, the part, and the variables of the   *)
(* others are 0.                                                           *)
(***************************************************************************)
EXTENDS Integers, Sequences

CONSTANTS
  Parts,  \* the packages that are run
  N, Convertible, HasShort, Attributes, Rank, Passing,    \* DirectoryStream
  Streams, Scan, Handles, MaxChanges,
  AllFiles, Special, Executable, LockFile, NoName, MaxTime, \* FileSystem
  Scenarios, Questions,
  Tasks,                                                  \* and Environment
  LocaleTasks, Original, LocaleParts, iso_639, iso_3166,  \* Locales
  NumVariables, Drives, MaxSize, Lengths, MaxSets,
  num_fd, Timeouts, MaxSlept,                             \* PipePoll
  Handling, Procs, Nobody, MaxCalls,                      \* ControlC
  StartTasks, Arguments, MaxArguments, MaxReferences,     \* RuntimeStartup
  EXPAND_ARGV_RATE,
  FileNames, Paths, Characters, Letters, Null             \* PathSearch

VARIABLES
  part,
  present, changes, search, heap, fault, dirp, scan, given, stable,
  may, file, now, fd, handle, attr, subject, filecall, holds, since, answers,
  locale, named, pc, asks, saved, lc_all, code,
  env, sets, envcall, told, deleted,
  avail, open, asked, timeout, delay, pipe, slept, ready, answer,
  Ada_Handler, sigint_intercepted, registered, at, calls, event,
  line, expansion, count, ProcList, gnat_argv, size, startplace, refs,
  names, turn, path, path_val, next, tried, located

directoryvars == <<present, changes, search, heap, fault, dirp, scan, given, stable>>
filevars == <<may, file, now, fd, handle, attr, subject, filecall, holds, since, answers>>
localevars == <<locale, named, pc, asks, saved, lc_all, code>>
envvars == <<env, sets, envcall, told, deleted>>
pollvars == <<avail, open, asked, timeout, delay, pipe, slept, ready, answer>>
controlvars == <<Ada_Handler, sigint_intercepted, registered, at, calls, event>>
startvars == <<line, expansion, count, ProcList, gnat_argv, size, startplace, refs>>
pathvars == <<names, turn, path, path_val, next, tried, located>>
packagevars ==
  <<part, directoryvars, filevars, localevars, envvars, pollvars, controlvars, startvars, pathvars>>

D == INSTANCE DirectoryStream
F == INSTANCE FileSystem WITH Names <- AllFiles, call <- filecall, told <- answers
L == INSTANCE Locales WITH Tasks <- LocaleTasks, Locales <- LocaleParts, env <- named
E == INSTANCE Environment WITH N <- NumVariables, call <- envcall
X == INSTANCE PipePoll WITH i <- pipe
C == INSTANCE ControlC WITH Users <- Handling, place <- at
R == INSTANCE RuntimeStartup WITH Tasks <- StartTasks, last <- size, place <- startplace
P == INSTANCE PathSearch

-----------------------------------------------------------------------------
NoDirectories ==
  /\ present = 0 /\ changes = 0 /\ search = 0 /\ heap = 0 /\ fault = 0 /\ dirp = 0
  /\ scan = 0 /\ given = 0 /\ stable = 0
NoFiles ==
  /\ may = 0 /\ file = 0 /\ now = 0 /\ fd = 0 /\ handle = 0 /\ attr = 0
  /\ subject = 0 /\ filecall = 0 /\ holds = 0 /\ since = 0 /\ answers = 0
NoLocales ==
  /\ locale = 0 /\ named = 0 /\ pc = 0 /\ asks = 0 /\ saved = 0 /\ lc_all = 0
  /\ code = 0
NoEnvironment ==
  /\ env = 0 /\ sets = 0 /\ envcall = 0 /\ told = 0 /\ deleted = 0
NoPipes ==
  /\ avail = 0 /\ open = 0 /\ asked = 0 /\ timeout = 0 /\ delay = 0 /\ pipe = 0
  /\ slept = 0 /\ ready = 0 /\ answer = 0
NoControl ==
  /\ Ada_Handler = 0 /\ sigint_intercepted = 0 /\ registered = 0 /\ at = 0 /\ calls = 0
  /\ event = 0
NoStartup ==
  /\ line = 0 /\ expansion = 0 /\ count = 0 /\ ProcList = 0 /\ gnat_argv = 0
  /\ size = 0 /\ startplace = 0 /\ refs = 0
NoPaths ==
  /\ names = 0 /\ turn = 0 /\ path = 0 /\ path_val = 0 /\ next = 0 /\ tried = 0 /\ located = 0

PackagesInit ==
  /\ part \in Parts
  /\ IF part = "directories" THEN D!Init ELSE NoDirectories
  /\ IF part = "files" THEN F!Init ELSE NoFiles
  /\ IF part = "locales" THEN L!Init ELSE NoLocales
  /\ IF part = "environment" THEN E!Init ELSE NoEnvironment
  /\ IF part = "pipes" THEN X!Init ELSE NoPipes
  /\ IF part = "control_c" THEN C!Init ELSE NoControl
  /\ IF part = "startup" THEN R!Init ELSE NoStartup
  /\ IF part = "paths" THEN P!Init ELSE NoPaths

Directories ==
  /\ part = "directories" /\ D!Next
  /\ UNCHANGED <<part, filevars, localevars, envvars, pollvars,
                 controlvars, startvars, pathvars>>
Files ==
  /\ part = "files" /\ F!Next
  /\ UNCHANGED <<part, directoryvars, localevars, envvars, pollvars,
                 controlvars, startvars, pathvars>>
Localization ==
  /\ part = "locales" /\ L!Next
  /\ UNCHANGED <<part, directoryvars, filevars, envvars, pollvars,
                 controlvars, startvars, pathvars>>
EnvironmentVariables ==
  /\ part = "environment" /\ E!Next
  /\ UNCHANGED <<part, directoryvars, filevars, localevars, pollvars,
                 controlvars, startvars, pathvars>>
Polling ==
  /\ part = "pipes" /\ X!Next
  /\ UNCHANGED <<part, directoryvars, filevars, localevars, envvars,
                 controlvars, startvars, pathvars>>
Interrupting ==
  /\ part = "control_c" /\ C!Next
  /\ UNCHANGED <<part, directoryvars, filevars, localevars, envvars,
                 pollvars, startvars, pathvars>>
Starting ==
  /\ part = "startup" /\ R!Next
  /\ UNCHANGED <<part, directoryvars, filevars, localevars, envvars,
                 pollvars, controlvars, pathvars>>
Locating ==
  /\ part = "paths" /\ P!Next
  /\ UNCHANGED <<part, directoryvars, filevars, localevars, envvars,
                 pollvars, controlvars, startvars>>

PackagesNext ==
  \/ Directories \/ Files \/ Localization \/ EnvironmentVariables \/ Polling
  \/ Interrupting \/ Starting \/ Locating

Packages == PackagesInit /\ [][PackagesNext]_packagevars

-----------------------------------------------------------------------------
\* The blocks and search handles of directory streams.
NothingLeaked == part = "directories" => D!NothingLeaked
\* What a stream gives from its opening or rewinding to the end.
GivenOnce == part = "directories" => D!GivenOnce
\* The table scandir returns.
ScanReturns == part = "directories" => D!ScanReturns

\* Lock files.
LockHeldByOne == part = "files" => F!LockHeldByOne
\* The cache of a file's attributes.
AnswersOfOneStat == part = "files" => F!AnswersOfOneStat
\* The handles of __gnat_copy_attribs.
NobodyLockedOut == part = "files" => F!NobodyLockedOut

\* The language and country of the environment's locale, with one task.
CodesOfTheParts == part = "locales" => L!CodesOfTheParts

\* Clearing the environment.
ClearDeletes == part = "environment" => E!ClearDeletes

\* What is found on the pipes, and Control-C with one task.
PollAnswers == part = "pipes" => X!PollAnswers
InterruptsHandled == part = "control_c" => C!InterruptsHandled

\* The table of arguments, and what the first request of several starts, with
\* one task.
ArgumentsExpanded == part = "startup" => R!ArgumentsExpanded
LiveWhileReferenced == part = "startup" => R!LiveWhileReferenced

\* The search for a file along a path.
FirstAlongPath == part = "paths" => P!FirstAlongPath

\* What the comments say and the code does not keep.
QuotesIgnored == part = "paths" => P!QuotesIgnored
QuotesRemoved == part = "startup" => R!QuotesRemoved
CallsAHandler == part = "control_c" => C!CallsAHandler
ExecutableIsRegular == part = "files" => F!ExecutableIsRegular
TimeOfTheSameStat == part = "files" => F!TimeOfTheSameStat
AnswersOfOneMoment == part = "files" => F!AnswersOfOneMoment
LocaleRestored == part = "locales" => L!LocaleRestored
CodesWellFormed == part = "locales" => L!CodesWellFormed
ClearDeletesAll == part = "environment" => E!ClearDeletesAll
ExistsIfThere == part = "environment" => E!ExistsIfThere
ValueFits == part = "environment" => E!ValueFits
=============================================================================
