----------------------------- MODULE FileSystem ------------------------------
(***************************************************************************)
(* The file calls of src/cpp/adaint.c that several tasks and processes     *)
(* make on the same files: the descriptors, lock files, unlink and rename, *)
(* the cache of a file's attributes, the attribute bits, and               *)
(* __gnat_copy_attribs. A call is as many steps as it makes system calls.  *)
(*                                                                         *)
(* The C library opens a file so that others may read and write it, but    *)
(* not delete it; a handle that __gnat_copy_attribs opens shares nothing.  *)
(* The files are known by their names. What a file holds is left out, but  *)
(* for its length.                                                         *)
(***************************************************************************)
EXTENDS Integers, FiniteSets

CONSTANTS
  Names,     \* the files
  Special,   \* those of them that are devices (con, nul)
  Executable,\* those whose names end in .exe
  Tasks,     \* who makes the calls
  LockFile,  \* the file that GNAT.Lock_Files is used with
  MaxTime,   \* the bound on the changes to the files
  Scenarios, \* who makes which calls: functions from Tasks to sets of calls
  Questions, \* what a task asks about a file
  NoName

\* What is assumed of the constants.
NameAssumption ==
  /\ LockFile \in Names /\ NoName \notin Names
  /\ Special \subseteq Names /\ Executable \subseteq Names
TimeAssumption == MaxTime \in Nat
QuestionAssumption ==
  Questions \subseteq {"exists", "regular", "directory", "file_length", "timestamp",
                       "readable", "writable", "executable"}

VARIABLES
  may,    \* the scenario
  file,   \* file[n]: NoFile or [kind, bits, time, length]
  now,    \* the time of the last change
  fd,     \* fd[t]: the name of the file t has open, or NoName
  handle, \* handle[t]: the file t has a handle for that shares nothing
  attr,   \* attr[t]: a file_attributes record for the file subject[t]
  subject,
  call,   \* call[t]: the call under way
  holds,  \* the tasks that __gnat_try_lock gave the lock
  since,  \* history: what subject[t] was since its attributes were reset
  told    \* history: the answers t has got since then

vars == <<may, file, now, fd, handle, attr, subject, call, holds, since, told>>

NoFile == [kind |-> "none", bits |-> {}, time |-> 0, length |-> 0]
NewFile == [kind |-> "file", bits |-> {}, time |-> now + 1, length |-> 0]

ATTR_UNSET == 127
TimeUnset == -2
Idle == [at |-> "idle", from |-> NoName, to |-> NoName, mode |-> 0, time |-> 0, bits |-> {},
         question |-> "none", error |-> "none"]

\* __gnat_reset_attributes
Unset ==
  [exists |-> ATTR_UNSET, error |-> "EINVAL", writable |-> ATTR_UNSET, readable |-> ATTR_UNSET,
   executable |-> ATTR_UNSET, regular |-> ATTR_UNSET, directory |-> ATTR_UNSET,
   timestamp |-> TimeUnset, file_length |-> -1]

Init ==
  /\ may \in Scenarios
  /\ file \in [Names -> {NoFile, [kind |-> "file", bits |-> {}, time |-> 0, length |-> 1],
                         [kind |-> "dir", bits |-> {}, time |-> 0, length |-> 0]}]
  /\ file[LockFile] = NoFile
  /\ \A n \in Special : file[n] = [kind |-> "file", bits |-> {}, time |-> 0, length |-> 1]
  /\ now = 0
  /\ fd = [t \in Tasks |-> NoName]
  /\ handle = [t \in Tasks |-> NoName]
  /\ attr = [t \in Tasks |-> Unset]
  /\ subject = [t \in Tasks |-> NoName]
  /\ call = [t \in Tasks |-> Idle]
  /\ holds = {}
  /\ since = [t \in Tasks |-> {}]
  /\ told = [t \in Tasks |-> {}]

-----------------------------------------------------------------------------
(***************************************************************************)
(* The system.                                                             *)
(***************************************************************************)
Exists(n) == file[n].kind # "none"
Unshared(n) == \A t \in Tasks : handle[t] # n
Unopened(n) == Unshared(n) /\ \A t \in Tasks : fd[t] # n

\* Every change is seen by those who watch the file.
Change(n, f) ==
  /\ now < MaxTime
  /\ now' = now + 1
  /\ file' = [file EXCEPT ![n] = f]
  /\ since' = [t \in Tasks |-> IF subject[t] = n THEN since[t] \cup {f} ELSE since[t]]

Keep == UNCHANGED <<file, now, since>>

Begin(t, c) == call[t].at = "idle" /\ c \in may[t]

\* Another process writes to a file, or hides it.
Elsewhere(t, n) ==
  /\ file[n].kind = "file" /\ n \notin Special
  /\ \/ /\ Begin(t, "write") /\ Unshared(n)
        /\ Change(n, [file[n] EXCEPT !.length = @ + 1, !.time = now + 1])
     \/ Begin(t, "hide") /\ Change(n, [file[n] EXCEPT !.bits = @ \cup {"HIDDEN"}])
  /\ UNCHANGED <<may, fd, handle, attr, subject, call, holds, told>>

-----------------------------------------------------------------------------
(***************************************************************************)
(* _topen with the flags of a call; -1 leaves the task without descriptor. *)
(***************************************************************************)
Flags ==
  [open_read |-> {}, open_rw |-> {"WRITE"}, open_create |-> {"WRITE", "CREAT", "TRUNC"},
   open_append |-> {"WRITE", "CREAT"}, open_new |-> {"WRITE", "CREAT", "EXCL"},
   create_output_file_new |-> {"WRITE", "CREAT", "TRUNC", "EXCL"},
   try_lock |-> {"CREAT", "EXCL"}]

\* Mutant: the file may exist.
CanOpen_NotNew(n, flags) ==
  /\ Unshared(n)
  /\ Exists(n) \/ "CREAT" \in flags
  /\ file[n].kind # "dir"
  /\ "WRITE" \in flags => "READONLY" \notin file[n].bits

CanOpen(n, flags) ==
  /\ Unshared(n)
  /\ IF Exists(n) THEN ~({"CREAT", "EXCL"} \subseteq flags) ELSE "CREAT" \in flags
  /\ file[n].kind # "dir"
  /\ "WRITE" \in flags => "READONLY" \notin file[n].bits

_topen(t, n, flags) ==
  IF CanOpen(n, flags)
  THEN /\ fd' = [fd EXCEPT ![t] = n]
       /\ IF Exists(n) /\ "TRUNC" \notin flags THEN Keep
          ELSE Change(n, IF Exists(n) THEN [file[n] EXCEPT !.length = 0, !.time = now + 1]
                         ELSE NewFile)
  ELSE Keep /\ UNCHANGED fd

open(t, n) ==
  /\ fd[t] = NoName /\ n # LockFile
  /\ \E c \in DOMAIN Flags \ {"try_lock"} : Begin(t, c) /\ _topen(t, n, Flags[c])
  /\ UNCHANGED <<may, handle, attr, subject, call, holds, told>>

close(t) ==
  /\ fd[t] # NoName /\ call[t].at \in {"idle", "locked"}
  /\ fd' = [fd EXCEPT ![t] = NoName]
  /\ call' = [call EXCEPT ![t] = Idle]
  /\ holds' = IF call[t].at = "locked" THEN holds \cup {t} ELSE holds
  /\ UNCHANGED <<may, file, now, handle, attr, subject, since, told>>

(***************************************************************************)
(* __gnat_try_lock opens a file that must be new, closes it and returns 1; *)
(* Unlock_File (g-locfil.adb) deletes it.                                  *)
(***************************************************************************)
try_lock(t) ==
  /\ Begin(t, "try_lock") /\ t \notin holds /\ fd[t] = NoName
  /\ _topen(t, LockFile, Flags["try_lock"])
  /\ call' = [call EXCEPT ![t].at = IF CanOpen(LockFile, Flags["try_lock"]) THEN "locked" ELSE "idle"]
  /\ UNCHANGED <<may, handle, attr, subject, holds, told>>

_tunlink(n) ==
  IF file[n].kind = "file" /\ n \notin Special /\ Unopened(n) /\ "READONLY" \notin file[n].bits
  THEN Change(n, NoFile) ELSE Keep

Unlock_File(t) ==
  /\ call[t].at = "idle" /\ t \in holds
  /\ _tunlink(LockFile)
  /\ holds' = holds \ {t}
  /\ UNCHANGED <<may, fd, handle, attr, subject, call, told>>

unlink(t, n) ==
  /\ Begin(t, "unlink") /\ n # LockFile
  /\ _tunlink(n)
  /\ UNCHANGED <<may, fd, handle, attr, subject, call, holds, told>>

\* The new name must not exist.
rename(t, n, m) ==
  /\ Begin(t, "rename") /\ LockFile \notin {n, m} /\ Special \cap {n, m} = {}
  /\ Exists(n) /\ Unopened(n) /\ ~Exists(m)
  /\ now < MaxTime
  /\ now' = now + 1
  /\ file' = [file EXCEPT ![n] = NoFile, ![m] = file[n]]
  /\ since' = [u \in Tasks |-> IF subject[u] \in {n, m} THEN since[u] \cup {file'[subject[u]]}
                               ELSE since[u]]
  /\ UNCHANGED <<may, fd, handle, attr, subject, call, holds, told>>

-----------------------------------------------------------------------------
(***************************************************************************)
(* The cache of the attributes. __gnat_stat reads them, and where it       *)
(* cannot, it asks by another call whether the file is there, and takes    *)
(* one that is for an ordinary file of no length. All the answers of a     *)
(* stat are stored at once.                                                *)
(***************************************************************************)
Pretended == [kind |-> "file", bits |-> {}, time |-> 0, length |-> 0]

\* What GetFileAttributesEx and GetFileAttributes may return; NoFile is a
\* failure. The first fails for every device, and both may for a file that is there.
GetFileAttributesEx(n) == IF n \in Special THEN {NoFile} ELSE {NoFile, file[n]}
AttributesOf(n) == IF n \in Special THEN {file[n]} ELSE {NoFile, file[n]}

\* EACCES stands for ENAMETOOLONG and ENOMEM too.
Errors(n) == IF Exists(n) THEN {"EACCES"} ELSE {"ENOENT", "EACCES"}

IsOne(b) == IF b THEN 1 ELSE 0

\* A missing file is no error, whatever else fails leaves exists = 0 and one.
stat_to_attr(a, s, error) ==
  [a EXCEPT !.error = IF error = "ENOENT" THEN "none" ELSE error,
            !.regular = IsOne(s.kind = "file"), !.directory = IsOne(s.kind = "dir"),
            !.exists = IsOne(s.kind # "none"),
            !.file_length = IF s.kind = "file" THEN s.length ELSE 0,
            !.timestamp = IF s.kind = "none" THEN -1 ELSE s.time]

\* The questions that a stat answers.
OfStat == {"exists", "regular", "directory", "file_length"}

\* Mutant: a question is put to the file again although the answer is there.
Missing_Always(a, q) == q \in OfStat

Missing(a, q) ==
  \/ q \in OfStat \ {"file_length"} /\ a[q] = ATTR_UNSET
  \/ q = "file_length" /\ a.file_length = -1

\* What the other questions leave in the attributes a of file n, with s what
\* their call returned: an answer that is there is kept.
Asked(n, a, q, s) ==
  CASE q = "timestamp" /\ a.timestamp = TimeUnset ->
         [a EXCEPT !.timestamp = IF s.kind = "none" THEN -1 ELSE s.time]
    [] q = "readable" /\ a.readable = ATTR_UNSET -> [a EXCEPT !.readable = IsOne(s.kind # "none")]
    [] q = "writable" /\ a.writable = ATTR_UNSET ->
         [a EXCEPT !.writable = IsOne(s.kind # "none" /\ "READONLY" \notin s.bits)]
    [] q = "executable" /\ a.executable = ATTR_UNSET ->
         [a EXCEPT !.executable = IsOne(s.kind # "none" /\ n \in Executable)]
    [] OTHER -> a

\* __gnat_is_executable_file_attr: regular && executable, where unset is true.
Answer(a, q) ==
  IF q = "executable" THEN IsOne(a.regular # 0 /\ a.executable # 0) ELSE a[q]

Tell(t, q, a) ==
  /\ attr' = [attr EXCEPT ![t] = a]
  /\ told' = [told EXCEPT ![t] = @ \cup {<<q, Answer(a, q)>>}]

reset_attributes(t, n) ==
  /\ Begin(t, "attributes")
  /\ attr' = [attr EXCEPT ![t] = Unset]
  /\ subject' = [subject EXCEPT ![t] = n]
  /\ since' = [since EXCEPT ![t] = {file[n]}]
  /\ told' = [told EXCEPT ![t] = {}]
  /\ UNCHANGED <<may, file, now, fd, handle, call, holds>>

\* A question that no stat has to be made for.
ask(t, q) ==
  /\ Begin(t, "attributes") /\ subject[t] # NoName /\ ~Missing(attr[t], q)
  /\ \E s \in IF q = "timestamp" THEN GetFileAttributesEx(subject[t]) ELSE AttributesOf(subject[t]) :
       Tell(t, q, Asked(subject[t], attr[t], q, s))
  /\ UNCHANGED <<may, file, now, fd, handle, subject, call, holds, since>>

\* The first call of a stat.
stat(t, q) ==
  /\ Begin(t, "attributes") /\ subject[t] # NoName /\ Missing(attr[t], q)
  /\ \E s \in GetFileAttributesEx(subject[t]) :
       IF s.kind # "none" THEN Tell(t, q, stat_to_attr(attr[t], s, "none")) /\ UNCHANGED call
       ELSE /\ \E e \in Errors(subject[t]) :
                 call' = [call EXCEPT ![t] = [Idle EXCEPT !.at = "stat", !.question = q, !.error = e]]
            /\ UNCHANGED <<attr, told>>
  /\ UNCHANGED <<may, file, now, fd, handle, subject, holds, since>>

\* The second call, and the errno value of the first where it fails too.
stat_exists(t) ==
  /\ call[t].at = "stat"
  /\ \E s \in AttributesOf(subject[t]) :
       Tell(t, call[t].question,
            IF s.kind # "none" THEN stat_to_attr(attr[t], Pretended, "none")
            ELSE stat_to_attr(attr[t], NoFile, call[t].error))
  /\ call' = [call EXCEPT ![t] = Idle]
  /\ UNCHANGED <<may, file, now, fd, handle, subject, holds, since>>

-----------------------------------------------------------------------------
(***************************************************************************)
(* __gnat_set_writable and __gnat_set_non_writable: the bits are read, and *)
(* written back with READONLY cleared or set.                              *)
(***************************************************************************)
GetFileAttributes(t, n) ==
  /\ \E c \in {"set_writable", "set_non_writable"} :
       /\ Begin(t, c)
       /\ call' = [call EXCEPT ![t] = [Idle EXCEPT !.at = c, !.to = n, !.bits = file[n].bits]]
  /\ n # LockFile /\ Exists(n)
  /\ UNCHANGED <<may, file, now, fd, handle, attr, subject, holds, since, told>>

SetBits(n, bits) == IF Exists(n) THEN Change(n, [file[n] EXCEPT !.bits = bits]) ELSE Keep

SetFileAttributes(t) ==
  /\ call[t].at \in {"set_writable", "set_non_writable"}
  /\ SetBits(call[t].to, IF call[t].at = "set_writable" THEN call[t].bits \ {"READONLY"}
                         ELSE call[t].bits \cup {"READONLY"})
  /\ call' = [call EXCEPT ![t] = Idle]
  /\ UNCHANGED <<may, fd, handle, attr, subject, holds, told>>

-----------------------------------------------------------------------------
(***************************************************************************)
(* __gnat_copy_attribs: mode 0 copies the times, 2 the bits, 1 both.       *)
(***************************************************************************)
copy_attribs(t, from, to) ==
  /\ Begin(t, "copy_attribs") /\ LockFile \notin {from, to}
  /\ \E mode \in 0 .. 2 :
       call' = [call EXCEPT ![t] = [Idle EXCEPT !.at = IF mode = 2 THEN "bits" ELSE "from",
                                                !.from = from, !.to = to, !.mode = mode]]
  /\ UNCHANGED <<may, file, now, fd, handle, attr, subject, holds, since, told>>

Go(t, label) == call' = [call EXCEPT ![t].at = label]
Return(t) == call' = [call EXCEPT ![t] = Idle]
CloseHandle(t) == handle' = [handle EXCEPT ![t] = NoName]

\* CreateFile2 with share mode 0; no file, no access or no sharing returns -1.
OpenAlone(t, n, writing, next) ==
  /\ IF file[n].kind = "file" /\ Unopened(n) /\ ~(writing /\ "READONLY" \in file[n].bits)
     THEN handle' = [handle EXCEPT ![t] = n] /\ Go(t, next)
     ELSE Return(t) /\ UNCHANGED handle
  /\ UNCHANGED <<may, file, now, fd, attr, subject, holds, since, told>>

CopyOpenFrom(t) == call[t].at = "from" /\ OpenAlone(t, call[t].from, FALSE, "gettime")
CopyOpenTo(t) == call[t].at = "to" /\ OpenAlone(t, call[t].to, TRUE, "settime")

\* Mutant: the handle stays open when the times cannot be read.
CopyGetTime_Open(t) ==
  /\ call[t].at = "gettime"
  /\ \/ CloseHandle(t) /\ call' = [call EXCEPT ![t].at = "to", ![t].time = file[call[t].from].time]
     \/ Return(t) /\ UNCHANGED handle
  /\ UNCHANGED <<may, file, now, fd, attr, subject, holds, since, told>>

CopyGetTime(t) ==
  /\ call[t].at = "gettime"
  /\ CloseHandle(t)
  /\ \/ call' = [call EXCEPT ![t].at = "to", ![t].time = file[call[t].from].time]
     \/ Return(t)
  /\ UNCHANGED <<may, file, now, fd, attr, subject, holds, since, told>>

CopySetTime(t) ==
  /\ call[t].at = "settime"
  /\ CloseHandle(t)
  /\ \/ /\ Change(call[t].to, [file[call[t].to] EXCEPT !.time = call[t].time])
        /\ IF call[t].mode = 0 THEN Return(t) ELSE Go(t, "bits")
     \/ Keep /\ Return(t)
  /\ UNCHANGED <<may, fd, attr, subject, holds, told>>

CopyGetBits(t) ==
  /\ call[t].at = "bits"
  /\ IF Exists(call[t].from)
     THEN call' = [call EXCEPT ![t].at = "setbits", ![t].bits = file[call[t].from].bits]
     ELSE Return(t)
  /\ UNCHANGED <<may, file, now, fd, handle, attr, subject, holds, since, told>>

CopySetBits(t) ==
  /\ call[t].at = "setbits"
  /\ SetBits(call[t].to, call[t].bits)
  /\ Return(t)
  /\ UNCHANGED <<may, fd, handle, attr, subject, holds, told>>

-----------------------------------------------------------------------------
Next ==
  \/ \E t \in Tasks :
       \/ close(t) \/ try_lock(t) \/ Unlock_File(t)
       \/ SetFileAttributes(t) \/ CopyOpenFrom(t) \/ CopyGetTime(t) \/ CopyOpenTo(t)
       \/ CopySetTime(t) \/ CopyGetBits(t) \/ CopySetBits(t)
       \/ stat_exists(t) \/ \E q \in Questions : ask(t, q) \/ stat(t, q)
       \/ \E n \in Names : \/ open(t, n) \/ unlink(t, n) \/ Elsewhere(t, n) \/ reset_attributes(t, n)
                           \/ GetFileAttributes(t, n)
                           \/ \E m \in Names : rename(t, n, m) \/ copy_attribs(t, n, m)

Spec == Init /\ [][Next]_vars

-----------------------------------------------------------------------------
TypeOK ==
  /\ \A n \in Names : /\ file[n].kind \in {"none", "file", "dir"}
                      /\ file[n].bits \subseteq {"READONLY", "HIDDEN"}
  /\ now \in 0 .. MaxTime
  /\ fd \in [Tasks -> Names \cup {NoName}]
  /\ handle \in [Tasks -> Names \cup {NoName}]
  /\ subject \in [Tasks -> Names \cup {NoName}]
  /\ holds \subseteq Tasks

(***************************************************************************)
(* A lock file gives the lock to one task at a time: from the opening of   *)
(* the file that must be new to Unlock_File nobody else gets it.           *)
(***************************************************************************)
LockHeldByOne ==
  LET inside == holds \cup {t \in Tasks : call[t].at = "locked"}
  IN  Cardinality(inside) <= 1 /\ (inside # {} => Exists(LockFile))

(***************************************************************************)
(* "extract as much information as possible from it, storing the result in *)
(* a cache for later reuse" (adaint.c:733): what a task is told about the  *)
(* existence, kind and length of a file comes from one stat, although the  *)
(* file changes between its calls. Its answers are together what the file  *)
(* was at one moment since the attributes were reset, or those of the      *)
(* pretended file, if there was one at a moment since then, or those of a  *)
(* missing file with an error.                                             *)
(***************************************************************************)
TrueOf(f, q, v) ==
  CASE q = "exists" -> v = IsOne(f.kind # "none")
    [] q = "regular" -> v = IsOne(f.kind = "file")
    [] q = "directory" -> v = IsOne(f.kind = "dir")
    [] q = "file_length" -> v = IF f.kind = "file" THEN f.length ELSE 0
    [] q = "timestamp" -> v = IF f.kind = "none" THEN -1 ELSE f.time
    [] OTHER -> TRUE

Views(files, a) ==
  files \cup (IF \E f \in files : f.kind # "none" THEN {Pretended} ELSE {})
        \cup (IF a.error = "EACCES" THEN {NoFile} ELSE {})

OneView(questions) ==
  \A t \in Tasks :
    subject[t] \in Names \ Special =>
      \E f \in Views(since[t], attr[t]) : \A a \in told[t] : a[1] \in questions => TrueOf(f, a[1], a[2])

AnswersOfOneStat == OneView(OfStat)

\* As above, with the time: a stat overwrites the time that was asked before.
TimeOfTheSameStat == OneView(OfStat \cup {"timestamp"})

(***************************************************************************)
(* "GetFileAttributes() which does not fail on special Windows files"      *)
(* (adaint.c:1143): only a device is pretended to be what it is not. But   *)
(* what is there at the second call of a stat may be a directory that was  *)
(* not there at the first: the answers are true at no moment.              *)
(***************************************************************************)
AnswersOfOneMoment ==
  \A t \in Tasks :
    subject[t] \in Names \ Special /\ attr[t].error # "EACCES" =>
      \E f \in since[t] : \A a \in told[t] : a[1] \in OfStat => TrueOf(f, a[1], a[2])

(***************************************************************************)
(* An executable is a regular file, whatever was asked before: the answer  *)
(* is regular && executable.                                               *)
(***************************************************************************)
ExecutableIsRegular ==
  \A t \in Tasks : <<"executable", 1>> \in told[t] => \E f \in since[t] : f.kind = "file"

(***************************************************************************)
(* No call leaves a handle that shares nothing: nobody could open, delete  *)
(* or rename the file any more. A task has one while it reads or sets the  *)
(* times, for the file it copies from or to, and two tasks never have one  *)
(* for the same file.                                                      *)
(***************************************************************************)
NobodyLockedOut ==
  \A t \in Tasks :
    /\ handle[t] # NoName <=> call[t].at \in {"gettime", "settime"}
    /\ handle[t] # NoName => \A u \in Tasks : fd[u] # handle[t] /\ (u # t => handle[u] # handle[t])
=============================================================================
