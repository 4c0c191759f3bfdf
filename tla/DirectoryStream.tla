--------------------------- MODULE DirectoryStream ---------------------------
(***************************************************************************)
(* Directory streams: opendir, readdir, rewinddir, closedir, scandir and   *)
(* their wide-character forms, of src/cpp/dirent.h, and the calls          *)
(* __gnat_opendir, __gnat_readdir and __gnat_closedir made of them, while  *)
(* other processes create and delete files, and memory may run out.        *)
(*                                                                         *)
(* The names of a directory are 1 .. N in the order in which the system    *)
(* enumerates them: a search goes on after the name it gave last. heap     *)
(* holds the blocks that were allocated and not freed, search the search   *)
(* handles; fault tells that one was freed or closed that was not open.    *)
(* A call runs in one step, scandir in one step for every system call.     *)
(***************************************************************************)
EXTENDS Integers, Sequences, FiniteSets, Functions

CONSTANTS
  N,              \* the names a directory may hold are 1 .. N
  Convertible,    \* the names that the ANSI code page can represent
  HasShort,       \* the names with an 8+3 form
  Attributes,     \* Attributes[n] \subseteq {"DEVICE", "DIRECTORY"}
  Rank,           \* the order of names for the compare function of scandir
  Passing,        \* the names that the filter function keeps
  Streams,        \* the streams of a program
  Scan,           \* the stream of scandir
  Handles,        \* search handles
  MaxChanges      \* the bound on the files created and deleted

Names == 1 .. N
Users == Streams \cup {Scan}

\* What is assumed of the constants.
NAssumption == N \in Nat
NameAssumption ==
  /\ Convertible \subseteq Names /\ HasShort \subseteq Names /\ Passing \subseteq Names
  /\ Attributes \in [Names -> SUBSET {"DEVICE", "DIRECTORY"}]
  /\ Rank \in [Names -> Int]
HandleAssumption == 0 \notin Handles
ScanAssumption == Scan \notin Streams

INVALID_HANDLE_VALUE == 0
Unused == -1

VARIABLES
  present,  \* the files of the directory
  changes,  \* how often it was changed
  search,   \* search[h]: the last name given, Unused if h is not open
  heap,     \* the blocks allocated
  fault,    \* whether something was freed or closed twice
  dirp,     \* dirp[s]: the stream
  scan,     \* the locals of scandir
  given,    \* history: the entries read since the stream was opened or rewound
  stable    \* history: the files that were there all that time

vars == <<present, changes, search, heap, fault, dirp, scan, given, stable>>

Entry == [file : Names, name : {"long", "short", "?"},
          d_type : {"DT_CHR", "DT_DIR", "DT_REG", "DT_UNKNOWN"}]

NoStream == [state |-> "none", wide |-> TRUE, handle |-> INVALID_HANDLE_VALUE,
             cached |-> 0, data |-> 0]
NoScan == [at |-> "idle", files |-> <<>>, allocated |-> 0, tmp |-> 0, result |-> 0]

Init ==
  /\ present \in SUBSET Names
  /\ changes = 0
  /\ search = [h \in Handles |-> Unused]
  /\ heap = {}
  /\ fault = FALSE
  /\ dirp = [s \in Users |-> NoStream]
  /\ scan = NoScan
  /\ given = [s \in Users |-> <<>>]
  /\ stable = [s \in Users |-> {}]

-----------------------------------------------------------------------------
(***************************************************************************)
(* The system.                                                             *)
(***************************************************************************)
After(n) == {m \in present : m > n}
Least(S) == CHOOSE m \in S : \A k \in S : m <= k
FreeHandle == CHOOSE h \in Handles : search[h] = Unused

Open(h) == h \in Handles /\ search[h] # Unused

ChangeDirectory ==
  /\ changes < MaxChanges
  /\ changes' = changes + 1
  /\ \E n \in Names : present' = IF n \in present THEN present \ {n} ELSE present \cup {n}
  /\ stable' = [s \in Users |-> stable[s] \cap present']
  /\ UNCHANGED <<search, heap, fault, dirp, scan, given>>

-----------------------------------------------------------------------------
(***************************************************************************)
(* The blocks of a stream: DIR for the multi-byte calls, _WDIR and the     *)
(* search pattern.                                                         *)
(***************************************************************************)
Blocks(s, wide) == {<<"_WDIR", s>>, <<"patt", s>>} \cup IF wide THEN {} ELSE {<<"DIR", s>>}

(***************************************************************************)
(* The entry for a file: its name, or the 8+3 name, or "?", so that a name *)
(* which cannot be converted does not stop the reading of the directory.   *)
(***************************************************************************)
d_type(n) ==
  CASE "DEVICE" \in Attributes[n] -> "DT_CHR"
    [] "DEVICE" \notin Attributes[n] /\ "DIRECTORY" \in Attributes[n] -> "DT_DIR"
    [] "DEVICE" \notin Attributes[n] /\ "DIRECTORY" \notin Attributes[n] -> "DT_REG"

EntryOf(n, wide) ==
  CASE wide \/ n \in Convertible ->
         [file |-> n, name |-> "long", d_type |-> d_type(n)]
    [] ~wide /\ n \in HasShort \ Convertible ->
         [file |-> n, name |-> "short", d_type |-> d_type(n)]
    [] ~wide /\ n \notin HasShort \cup Convertible ->
         [file |-> n, name |-> "?", d_type |-> "DT_UNKNOWN"]

\* Mutant: the first entry is not kept for the first read.
dirent_first_Lost(d) ==
  IF present = {}
  THEN [d EXCEPT !.handle = INVALID_HANDLE_VALUE, !.cached = 0]
  ELSE [d EXCEPT !.handle = FreeHandle, !.cached = 0, !.data = Least(present)]

\* Opens a search: the first entry waits in memory.
dirent_first(d) ==
  IF present = {}
  THEN [d EXCEPT !.handle = INVALID_HANDLE_VALUE, !.cached = 0]
  ELSE [d EXCEPT !.handle = FreeHandle, !.cached = 1, !.data = Least(present)]

\* Mutant: the handle is kept after it was closed.
dirent_next_Kept(d) ==
  IF d.cached # 0 THEN [d EXCEPT !.cached = 0]
  ELSE IF Open(d.handle) /\ After(search[d.handle]) # {}
  THEN [d EXCEPT !.data = Least(After(search[d.handle]))]
  ELSE [d EXCEPT !.data = 0]

\* The entry in memory, or the next of the search; the end closes the search.
dirent_next(d) ==
  IF d.cached # 0 THEN [d EXCEPT !.cached = 0]
  ELSE IF d.handle # INVALID_HANDLE_VALUE /\ After(search[d.handle]) # {}
  THEN [d EXCEPT !.data = Least(After(search[d.handle]))]
  ELSE [d EXCEPT !.handle = INVALID_HANDLE_VALUE, !.data = 0]

\* What the searches become when stream d turns into e.
Searches(d, e) ==
  [h \in Handles |-> IF h = e.handle /\ e.data # 0 THEN e.data
                     ELSE IF h = d.handle THEN Unused ELSE search[h]]

\* FindClose of a handle that stands in the stream and is not open.
ClosedTwice(s) == dirp[s].handle # INVALID_HANDLE_VALUE /\ ~Open(dirp[s].handle)

-----------------------------------------------------------------------------
(***************************************************************************)
(* opendir, _wopendir. fail is the allocation or the conversion that       *)
(* fails, if one does; what was allocated before goes again.               *)
(***************************************************************************)
Failures == {"none", "DIR", "name", "_WDIR", "patt"}

_wopendir(s, wide, fail) ==
  LET failed == fail # "none" \/ present = {}
      d == dirent_first([NoStream EXCEPT !.state = "open", !.wide = wide])
  IN  /\ dirp[s].state = "none"
      /\ wide => fail \notin {"DIR", "name"}
      /\ \E h \in Handles : search[h] = Unused
      /\ IF failed
         THEN UNCHANGED <<dirp, search, heap, given, stable>>
         ELSE /\ dirp' = [dirp EXCEPT ![s] = d]
              /\ search' = Searches(NoStream, d)
              /\ heap' = heap \cup Blocks(s, wide)
              /\ given' = [given EXCEPT ![s] = <<>>]
              /\ stable' = [stable EXCEPT ![s] = present]

opendir(s) ==
  /\ \E wide \in BOOLEAN, fail \in Failures : _wopendir(s, wide, fail)
  /\ UNCHANGED <<present, changes, fault, scan>>

\* readdir_r: the entry, or none at the end of the directory.
readdir_r(s) ==
  LET d == dirent_next(dirp[s])
  IN  /\ dirp' = [dirp EXCEPT ![s] = [d EXCEPT !.state = IF d.data = 0 THEN "ended" ELSE "open"]]
      /\ search' = Searches(dirp[s], d)
      /\ given' = IF d.data = 0 THEN given
                  ELSE [given EXCEPT ![s] = Append(@, EntryOf(d.data, d.wide))]

readdir(s) ==
  /\ dirp[s].state \in {"open", "ended"}
  /\ readdir_r(s)
  /\ UNCHANGED <<present, changes, heap, fault, scan, stable>>

\* _wrewinddir: the directory is looked up again by its absolute name.
rewinddir(s) ==
  LET d == dirent_first(dirp[s])
  IN  /\ dirp[s].state \in {"open", "ended"}
      /\ \E h \in Handles : search[h] = Unused
      /\ dirp' = [dirp EXCEPT ![s] = [d EXCEPT !.state = "open"]]
      /\ search' = Searches(dirp[s], d)
      /\ fault' = (fault \/ ClosedTwice(s))
      /\ given' = [given EXCEPT ![s] = <<>>]
      /\ stable' = [stable EXCEPT ![s] = present]
      /\ UNCHANGED <<present, changes, heap, scan>>

\* _wclosedir and the DIR structure around it.
closedir(s) ==
  /\ dirp[s].state \in {"open", "ended"}
  /\ search' = Searches(dirp[s], NoStream)
  /\ fault' = (fault \/ ClosedTwice(s))
  /\ dirp' = [dirp EXCEPT ![s] = NoStream]
  /\ heap' = heap \ Blocks(s, dirp[s].wide)
  /\ given' = [given EXCEPT ![s] = <<>>]
  /\ stable' = [stable EXCEPT ![s] = {}]
  /\ UNCHANGED <<present, changes, scan>>

-----------------------------------------------------------------------------
(***************************************************************************)
(* scandir. The table doubles; an entry is read into a temporary block     *)
(* that goes into the table when the filter keeps it, and is used again    *)
(* otherwise. tmp is 0 or the number of the block.                         *)
(***************************************************************************)
init_size == 1

ScanOpen ==
  /\ scan.at = "idle"
  /\ \E fail \in Failures : _wopendir(Scan, FALSE, fail)
  /\ scan' = IF dirp'[Scan].state = "open" THEN [scan EXCEPT !.at = "enlarge"]
             ELSE [scan EXCEPT !.at = "cleanup", !.result = -1]
  /\ UNCHANGED <<present, changes, fault>>

OutOfMemory == [scan EXCEPT !.at = "cleanup", !.result = -1]

ScanEnlarge ==
  /\ scan.at = "enlarge"
  /\ IF Len(scan.files) < scan.allocated
     THEN scan' = [scan EXCEPT !.at = "tmp"] /\ UNCHANGED heap
     ELSE \/ /\ scan' = [scan EXCEPT
                           !.at = "tmp",
                           !.allocated = IF Len(scan.files) < init_size THEN init_size
                                         ELSE Len(scan.files) * 2]
             /\ heap' = heap \cup {<<"files", Scan>>}
          \/ scan' = OutOfMemory /\ UNCHANGED heap
  /\ UNCHANGED <<present, changes, search, fault, dirp, given, stable>>

FreshTmp == CHOOSE k \in 1 .. N + 1 : <<"tmp", k>> \notin heap

ScanTmp ==
  /\ scan.at = "tmp"
  /\ IF scan.tmp # 0
     THEN scan' = [scan EXCEPT !.at = "read"] /\ UNCHANGED heap
     ELSE \/ /\ scan' = [scan EXCEPT !.at = "read", !.tmp = FreshTmp]
             /\ heap' = heap \cup {<<"tmp", FreshTmp>>}
          \/ scan' = OutOfMemory /\ UNCHANGED heap
  /\ UNCHANGED <<present, changes, search, fault, dirp, given, stable>>

\* Mutant: the temporary block stays in use when it has gone into the table.
Store_Shared(e) == [scan EXCEPT !.at = "enlarge", !.files = Append(@, [block |-> scan.tmp, e |-> e]),
                                !.result = @ + 1]

Store(e) == [scan EXCEPT !.at = "enlarge", !.files = Append(@, [block |-> scan.tmp, e |-> e]),
                         !.tmp = 0, !.result = @ + 1]

InOrder(a, b) == Rank[a.e.file] <= Rank[b.e.file]

\* qsort: entries that compare equal come in any order.
Sortings(seq) ==
  {s \in {[k \in DOMAIN seq |-> seq[p[k]]] : p \in Bijection(DOMAIN seq, DOMAIN seq)} :
     \A j, k \in DOMAIN s : j < k => InOrder(s[j], s[k])}

ScanRead ==
  /\ scan.at = "read"
  /\ readdir_r(Scan)
  /\ IF dirp'[Scan].data = 0
     THEN \E sorted \in Sortings(scan.files) :
            scan' = [scan EXCEPT !.at = "cleanup", !.files = sorted]
     ELSE LET e == EntryOf(dirp'[Scan].data, FALSE)
          IN  scan' = IF e.file \in Passing THEN Store(e) ELSE [scan EXCEPT !.at = "enlarge"]
  /\ UNCHANGED <<present, changes, heap, fault, stable>>

\* The blocks that are released at the end, one after the other.
Released ==
  (IF scan.tmp # 0 THEN <<<<"tmp", scan.tmp>>>> ELSE <<>>)
    \o (IF scan.result < 0
        THEN [k \in DOMAIN scan.files |-> <<"tmp", scan.files[k].block>>]
        ELSE <<>>)

ScanCleanup ==
  LET open == dirp[Scan].state # "none"
      released == Range(Released) \cup (IF scan.result < 0 THEN {<<"files", Scan>>} ELSE {})
                                 \cup (IF open THEN Blocks(Scan, FALSE) ELSE {})
      twice == ~IsInjective(Released) \/ ~(Range(Released) \subseteq heap)
  IN  /\ scan.at = "cleanup"
      /\ heap' = heap \ released
      /\ search' = IF open THEN Searches(dirp[Scan], NoStream) ELSE search
      /\ dirp' = [dirp EXCEPT ![Scan] = NoStream]
      /\ fault' = (fault \/ twice \/ ClosedTwice(Scan))
      /\ scan' = [scan EXCEPT !.at = "returned", !.tmp = 0,
                              !.files = IF scan.result < 0 THEN <<>> ELSE @]
      /\ UNCHANGED <<present, changes, given, stable>>

\* The caller frees what it got.
FreeList ==
  /\ scan.at = "returned"
  /\ heap' = heap \ ({<<"tmp", scan.files[k].block>> : k \in DOMAIN scan.files} \cup {<<"files", Scan>>})
  /\ scan' = NoScan
  /\ given' = [given EXCEPT ![Scan] = <<>>]
  /\ stable' = [stable EXCEPT ![Scan] = {}]
  /\ UNCHANGED <<present, changes, search, fault, dirp>>

-----------------------------------------------------------------------------
Next ==
  \/ \E s \in Streams : opendir(s) \/ readdir(s) \/ rewinddir(s) \/ closedir(s)
  \/ ScanOpen \/ ScanEnlarge \/ ScanTmp \/ ScanRead \/ ScanCleanup \/ FreeList
  \/ ChangeDirectory

Spec == Init /\ [][Next]_vars

-----------------------------------------------------------------------------
TypeOK ==
  /\ present \subseteq Names
  /\ search \in [Handles -> Names \cup {Unused}]
  /\ fault \in BOOLEAN
  /\ dirp \in [Users -> [state : {"none", "open", "ended"}, wide : BOOLEAN,
                         handle : Handles \cup {INVALID_HANDLE_VALUE},
                         cached : {0, 1}, data : 0 .. N]]
  /\ \A s \in Users : given[s] \in Seq(Entry) /\ stable[s] \subseteq Names

(***************************************************************************)
(* Search handles and blocks are closed once and by their owner: an open   *)
(* handle belongs to one stream, a stream's handle is open, and the heap   *)
(* holds nothing but the blocks of streams that are open, of a scandir     *)
(* under way, and of the table a caller has got and not freed. The end of  *)
(* a directory, rewinddir, closedir and every failure must agree on it.    *)
(***************************************************************************)
OwnedBlocks ==
  (UNION {IF dirp[s].state = "none" THEN {} ELSE Blocks(s, dirp[s].wide) : s \in Users})
    \cup (IF scan.tmp # 0 THEN {<<"tmp", scan.tmp>>} ELSE {})
    \cup {<<"tmp", scan.files[k].block>> : k \in DOMAIN scan.files}
    \cup (IF scan.allocated # 0 /\ ~(scan.at = "returned" /\ scan.result < 0)
          THEN {<<"files", Scan>>} ELSE {})

NothingLeaked ==
  /\ ~fault
  /\ heap = OwnedBlocks
  /\ \A h \in Handles : Open(h) <=> \E s \in Users : dirp[s].handle = h
  /\ \A s, r \in Users : dirp[s].handle = dirp[r].handle /\ s # r
                           => dirp[s].handle = INVALID_HANDLE_VALUE

(***************************************************************************)
(* From opendir or rewinddir to the end, a stream gives every file at most *)
(* once, and every file that was there all the time, whatever is created   *)
(* or deleted meanwhile, whether or not its name can be converted.         *)
(***************************************************************************)
Files(seq) == {seq[k].file : k \in DOMAIN seq}

GivenOnce ==
  \A s \in Users :
    /\ \A j, k \in DOMAIN given[s] : given[s][j].file = given[s][k].file => j = k
    /\ dirp[s].state = "ended" => stable[s] \subseteq Files(given[s])

(***************************************************************************)
(* scandir returns the number of entries in its table, in the order of its *)
(* compare function, each in a block of its own, with every file that the  *)
(* filter keeps and that was there all the time; or -1 and no table.       *)
(***************************************************************************)
ScanReturns ==
  scan.at = "returned" =>
    IF scan.result < 0 THEN scan.files = <<>>
    ELSE /\ scan.result = Len(scan.files) /\ scan.result <= scan.allocated
         /\ \A j, k \in DOMAIN scan.files :
              j < k => /\ scan.files[j].block # scan.files[k].block
                       /\ InOrder(scan.files[j], scan.files[k])
         /\ stable[Scan] \cap Passing \subseteq {scan.files[k].e.file : k \in DOMAIN scan.files}
=============================================================================
