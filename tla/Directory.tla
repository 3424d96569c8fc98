----------------------------- MODULE Directory ------------------------------
(***************************************************************************)
(* Directories, and the sorting and searching of arrays that scandir uses. *)
(***************************************************************************)
EXTENDS Integers, FiniteSets, SequencesExt, Samples

-----------------------------------------------------------------------------
(***************************************************************************)
(* qsort and bsearch of src/ansi/stdlib.cpp.  An element is a number and   *)
(* the comparison function looks at its tens, so that elements that        *)
(* compare equal can be told apart.                                        *)
(***************************************************************************)

CONSTANTS Tens,      \* the values compared
          MaxArray   \* bound: elements of an array

(* The array given to qsort: the units number its elements. *)
array == sample.array

SortInit == \E n \in 0..MaxArray : \E key \in [1..n -> Tens] :
              sample = [of |-> "sort", array |-> [i \in 1..n |-> 10 * key[i] + i]]

comp(x, y) == (x \div 10) - (y \div 10)

(* One pass over the neighbours. *)
Pass(arr) ==
  LET exchange(acc, j) == IF comp(acc[j], acc[j + 1]) > 0
                            THEN [acc EXCEPT ![j] = acc[j + 1], ![j + 1] = acc[j]]
                            ELSE acc
  IN  FoldLeft(exchange, arr, [j \in 1..(Len(arr) - 1) |-> j])

(* As many passes as elements, or until one that changes nothing. *)
qsort(arr) ==
  LET RECURSIVE passes(_, _)
      passes(acc, i) == IF i = Len(arr) THEN acc
                        ELSE LET next == Pass(acc)
                             IN  IF next = acc THEN acc ELSE passes(next, i + 1)
  IN  passes(arr, 0)

(* The end of the half before the middle. *)
LowerHalf(lower, middle) == lower + middle

(* The index of an element that compares equal, counted from 0, or -1. *)
bsearch(key, arr) ==
  LET RECURSIVE search(_, _)
      search(lower, upper) ==
        LET middle == (upper - lower) \div 2
            res == comp(key, arr[lower + middle + 1])
        IN  IF lower >= upper THEN -1
            ELSE IF res < 0 THEN search(lower, LowerHalf(lower, middle))
            ELSE IF res > 0 THEN search(lower + middle + 1, upper)
            ELSE lower + middle
  IN  search(0, Len(arr))

-----------------------------------------------------------------------------

(* qsort returns the elements it was given, in order, and leaves those     *)
(* that compare equal in the order they came in: with the units numbering  *)
(* the elements, the numbers increase.                                     *)
SortIsStable ==
  sample.of = "sort" =>
    LET sorted == qsort(array)
    IN  /\ Len(sorted) = Len(array) /\ ToSet(sorted) = ToSet(array)
        /\ \A i \in 1..(Len(sorted) - 1) : sorted[i] < sorted[i + 1]

(* In the array that qsort leaves, bsearch finds every key that is there   *)
(* and no other.                                                           *)
SearchFinds ==
  sample.of = "sort" =>
    LET sorted == qsort(array)
    IN  \A t \in Tens :
          LET found == bsearch(10 * t, sorted)
              there == \E i \in DOMAIN array : comp(array[i], 10 * t) = 0
          IN  IF there THEN found >= 0 /\ comp(sorted[found + 1], 10 * t) = 0
                       ELSE found = -1

-----------------------------------------------------------------------------
(***************************************************************************)
(* Directory streams of src/posix/dirent.cpp: a buffer that sys_read_dir   *)
(* fills with some of the entries that follow, readdir (and readdir_r) and *)
(* readdir64 taking entries from it, rewinddir, and scandir with its       *)
(* filter, its sort and the errno it tells success by.  Where a long has   *)
(* 32 bits (narrow), readdir does not give entries whose numbers are too   *)
(* large.                                                                  *)
(***************************************************************************)

CONSTANTS
  DirEntries,    \* the entries of the directory, in the kernel's order
  WideEntries,   \* those whose inode number exceeds 32 bits
  Unwanted,      \* those the filter of scandir refuses
  BufferEntries, \* entries the buffer can hold
  MaxDirFails    \* bound: failures of sys_read_dir and sys_lseek

VARIABLES
  narrow,     \* whether long has 32 bits
  dir,        \* the stream: entries in the buffer not yet taken, kernel offset,
              \* and (history) the offset at the last rewinddir
  given,      \* history: entries given since the start
  scan,       \* scandir: where it is, the entries it has, errno, and whether
              \* there is a filter and a comparison function
  dir_fails,  \* failures so far
  scan_noise  \* history: the filter changed errno, or memory ran out

dirVars == <<narrow, dir, given, scan, dir_fails, scan_noise>>

DirInit ==
  /\ narrow \in BOOLEAN
  /\ dir = [buf |-> <<>>, offset |-> 0, from |-> 0]
  /\ given = <<>>
  /\ scan = [pc |-> "none", res |-> <<>>, errno |-> FALSE,
             filter |-> FALSE, sort |-> FALSE]
  /\ dir_fails = 0 /\ scan_noise = FALSE

RestOfDir == SubSeq(DirEntries, dir.offset + 1, Len(DirEntries))

(* The buffers sys_read_dir may deliver: at least one entry, if any is left. *)
Fills == IF RestOfDir = <<>> THEN {<<>>}
         ELSE {SubSeq(RestOfDir, 1, n) : n \in 1..BufferEntries \cap DOMAIN RestOfDir}

Taken_(buf) == Tail(buf)

(* One call of readdir (wide: of readdir64) with fill as what sys_read_dir *)
(* delivers when the buffer is used up; what it gives is in got.           *)
Read(fill, wide, got) ==
  LET buf == IF dir.buf = <<>> THEN fill ELSE dir.buf
      offset == IF dir.buf = <<>> THEN dir.offset + Len(fill) ELSE dir.offset
  IN IF buf = <<>> THEN /\ got = <<>>
                        /\ dir' = [dir EXCEPT !.buf = <<>>, !.offset = offset]
     ELSE IF narrow /\ ~wide /\ Head(buf) \in WideEntries
       THEN /\ got = <<>>
            /\ dir' = [dir EXCEPT !.buf = buf, !.offset = offset]
     ELSE /\ got = <<Head(buf)>>
          /\ dir' = [dir EXCEPT !.buf = Taken_(buf), !.offset = offset]

readdir(fill, wide) ==
  /\ scan.pc = "none" /\ fill \in Fills
  /\ \E got \in {<<>>} \cup {<<DirEntries[i]>> : i \in DOMAIN DirEntries} :
       Read(fill, wide, got) /\ given' = given \o got
  /\ UNCHANGED <<narrow, scan, dir_fails, scan_noise>>

(* That sys_lseek failed goes unnoticed: the buffer is emptied all the     *)
(* same.                                                                   *)
rewinddir(seeks) ==
  /\ scan.pc = "none" /\ (seeks \/ dir_fails < MaxDirFails)
  /\ LET start == IF seeks THEN 0 ELSE dir.offset
     IN  dir' = [buf |-> <<>>, offset |-> start, from |-> start]
  /\ dir_fails' = IF seeks THEN dir_fails ELSE dir_fails + 1
  /\ given' = <<>>
  /\ UNCHANGED <<narrow, scan, scan_noise>>

(* sys_read_dir fails: the stream is as it was. *)
readdir_fails ==
  /\ dir.buf = <<>> /\ dir_fails < MaxDirFails
  /\ dir_fails' = dir_fails + 1
  /\ scan' = IF scan.pc = "none" THEN scan
             ELSE [scan EXCEPT !.pc = "decide", !.errno = TRUE]
  /\ UNCHANGED <<narrow, dir, given, scan_noise>>

-----------------------------------------------------------------------------
(* scandir: opens its own stream, clears errno, and takes errno to tell    *)
(* whether the end was an error.                                           *)

ScanBegins(filter, sort) ==
  [pc |-> "read", res |-> <<>>, errno |-> FALSE, filter |-> filter, sort |-> sort]

scandir(filter, sort) ==
  /\ scan.pc = "none" /\ given = <<>> /\ dir = [buf |-> <<>>, offset |-> 0, from |-> 0]
  /\ scan' = ScanBegins(filter, sort)
  /\ UNCHANGED <<narrow, dir, given, dir_fails, scan_noise>>

(* The next entry; noise is a filter that changes errno. *)
scan_entry(fill, noise) ==
  /\ scan.pc = "read" /\ fill \in Fills /\ (noise => scan.filter)
  /\ \E got \in {<<>>} \cup {<<DirEntries[i]>> : i \in DOMAIN DirEntries} :
       /\ Read(fill, FALSE, got)
       /\ given' = given \o got
       /\ IF got = <<>>
            THEN /\ scan' = [scan EXCEPT !.pc = "decide",
                               !.errno = @ \/ dir'.buf # <<>>]
                 /\ UNCHANGED scan_noise
            ELSE /\ scan' = [scan EXCEPT
                      !.res = IF scan.filter /\ got[1] \in Unwanted THEN @ ELSE @ \o got,
                      !.errno = @ \/ noise]
                 /\ scan_noise' = (scan_noise \/ noise)
  /\ UNCHANGED <<narrow, dir_fails>>

(* There is no memory for an entry: malloc or realloc sets errno. *)
scan_no_memory(fill) ==
  /\ scan.pc = "read" /\ fill \in Fills
  /\ \E i \in DOMAIN DirEntries :
       /\ Read(fill, FALSE, <<DirEntries[i]>>)
       /\ given' = Append(given, DirEntries[i])
       /\ ~(scan.filter /\ DirEntries[i] \in Unwanted)
  /\ scan' = [scan EXCEPT !.pc = "decide", !.errno = TRUE]
  /\ scan_noise' = TRUE
  /\ UNCHANGED <<narrow, dir_fails>>

ScanFailed == scan.errno

(* The stream is closed, which may fail; the entries are freed or sorted. *)
scan_decide(closes) ==
  /\ scan.pc = "decide"
  /\ scan' = IF ScanFailed \/ ~closes THEN [scan EXCEPT !.pc = "failed", !.res = <<>>]
             ELSE [scan EXCEPT !.pc = "done", !.res = IF scan.sort THEN qsort(@) ELSE @]
  /\ scan_noise' = (scan_noise \/ ~closes)
  /\ UNCHANGED <<narrow, dir, given, dir_fails>>

DirNext ==
  \/ \E fill \in Fills : \/ \E wide \in BOOLEAN : readdir(fill, wide)
                         \/ \E noise \in BOOLEAN : scan_entry(fill, noise)
                         \/ scan_no_memory(fill)
  \/ readdir_fails
  \/ \E seeks \in BOOLEAN : rewinddir(seeks)
  \/ \E filter, sort \in BOOLEAN : scandir(filter, sort)
  \/ \E closes \in BOOLEAN : scan_decide(closes)

-----------------------------------------------------------------------------

(* However the kernel splits the directory, and through errors, the calls  *)
(* give every entry once and in order: what was given since the last       *)
(* rewinddir is a beginning of the directory, or, if sys_lseek failed in   *)
(* it, of what the kernel had not yet delivered.                           *)
EntriesOnce ==
  /\ given = SubSeq(DirEntries, dir.from + 1, dir.from + Len(given))
  /\ dir.from # 0 => dir_fails > 0

(* scandir that succeeds returns every entry its filter accepts, in the    *)
(* directory's order or sorted.                                            *)
ScanComplete ==
  scan.pc = "done" =>
    LET all == IF scan.filter THEN SelectSeq(DirEntries, LAMBDA e : e \notin Unwanted)
                              ELSE DirEntries
    IN  IF scan.sort THEN /\ ToSet(scan.res) = ToSet(all) /\ Len(scan.res) = Len(all)
                          /\ \A i \in 1..(Len(all) - 1) : scan.res[i] <= scan.res[i + 1]
                     ELSE scan.res = all

(* scandir fails only if reading, closing or an allocation failed, the     *)
(* directory has an entry too large for this system, or its filter changed *)
(* errno.                                                                  *)
ScanFailsOnly ==
  scan.pc = "failed" => \/ dir_fails > 0 \/ scan_noise
                        \/ narrow /\ ToSet(DirEntries) \cap WideEntries # {}

(* A directory is read entry by entry, each once and in order through      *)
(* errors and short reads; scandir returns all that its filter accepts,    *)
(* sorted by a stable sort in which bsearch finds every key.               *)
DirectoryRead == EntriesOnce /\ ScanComplete /\ ScanFailsOnly /\ SortIsStable /\ SearchFinds
=============================================================================
