----------------------------- MODULE Databases ------------------------------
(***************************************************************************)
(* What the lookup functions keep between calls: the user database of      *)
(* src/posix/pwd.cpp (the groups follow below), with its                   *)
(* file for getpwent, the static records whose strings share one area, and *)
(* the streams that lookups open; and the static entry of gethostbyname    *)
(* of src/posix/netdb.cpp with the memory it frees at every call.          *)
(***************************************************************************)
EXTENDS Integers, FiniteSets, SequencesExt, Samples

CONSTANTS
  PasswdFile,    \* its lines: a name, or Malformed
  Malformed,
  PwNames,       \* names looked up
  Records,       \* the static records: "nam", "uid", "ent"
  DbDescriptors, \* descriptors of the process
  MaxArea        \* bound: records filled

VARIABLES
  left_open,     \* streams of lookups that were never closed
  pw_file,       \* GLOBAL_FILE: -1 when closed, else the lines read
  area,          \* versions of PWD_STR_AREA
  record,        \* per static record: its user and the version it points into
  pw_last,       \* the record returned by the last call, what was asked, the
                 \* error, and whether the file could be read to its end
  enumerated,    \* history: the users getpwent gave since the start
  found,         \* history: lookups that returned a record
  host,          \* gethostbyname's entry: h_name, h_aliases, h_addr_list
  host_failed,   \* history: a lookup failed when there was a list
  host_ub        \* history: memory that was freed was used again

dbVars == <<left_open, pw_file, area, record, pw_last, enumerated, found, host,
            host_failed, host_ub>>

NoRecord == [user |-> Malformed, version |-> 0]
Nobody_ == [rec |-> "none", asked |-> Malformed, ok |-> FALSE, err |-> "ENOENT", whole |-> TRUE]

DbInit ==
  /\ left_open = 0 /\ pw_file = [open |-> FALSE, line |-> 0]
  /\ area = 0 /\ record = [r \in Records |-> NoRecord]
  /\ pw_last = Nobody_ /\ enumerated = <<>> /\ found = 0
  /\ host = [name |-> "null", aliases |-> "null", list |-> "null"]
  /\ host_failed = FALSE /\ host_ub = FALSE

DescriptorsFree == left_open + (IF pw_file.open THEN 1 ELSE 0) < DbDescriptors
pwAll == <<left_open, pw_file, area, record, pw_last, enumerated, found>>
hostAll == <<host, host_failed, host_ub>>

-----------------------------------------------------------------------------
(* Mutant: the pointers are taken before the area grows. *)
FillUserEarly(r, u) ==
  /\ area' = area + 1
  /\ record' = [record EXCEPT ![r] = [user |-> u, version |-> area]]

(* fill_user: the strings of all records are in the one area, which is     *)
(* made anew.                                                              *)
fill_user(r, u) ==
  /\ area' = area + 1
  /\ record' = [record EXCEPT ![r] = [user |-> u, version |-> area + 1]]

(* The users that a lookup sees when reading stops after line n, and how a *)
(* lookup that has not found its user ends: a file that does not open or   *)
(* cannot be read is EIO.                                                  *)
UsersSeen(n) == IF DescriptorsFree THEN ToSet(SubSeq(PasswdFile, 1, n)) ELSE {}
Missed(u, n, err) ==
  [rec |-> "none", asked |-> u, ok |-> FALSE, whole |-> n = Len(PasswdFile),
   err |-> IF DescriptorsFree /\ n = Len(PasswdFile) THEN err ELSE "EIO"]

(* getpwnam, getpwuid.  Nothing closes the stream of a lookup that finds   *)
(* its user.                                                               *)
getpw(r, u, n) ==
  /\ area < MaxArea
  /\ IF u \in UsersSeen(n)
       THEN /\ fill_user(r, u)
            /\ left_open' = left_open + 1
            /\ found' = found + 1
            /\ pw_last' = [rec |-> r, asked |-> u, ok |-> TRUE, err |-> "none", whole |-> TRUE]
       ELSE /\ pw_last' = Missed(u, n, "ENOENT")
            /\ UNCHANGED <<area, record, left_open, found>>
  /\ UNCHANGED <<pw_file, enumerated, hostAll>>

(* getpwnam_r, getpwuid_r: found and copied, or found and too large for    *)
(* the caller's buffer, which does close the stream.  Not to find the user *)
(* is no error.                                                            *)
getpw_r(u, fits, n) ==
  /\ IF u \in UsersSeen(n) /\ fits
       THEN left_open' = left_open + 1 /\ found' = found + 1
       ELSE UNCHANGED <<left_open, found>>
  /\ pw_last' = IF u \notin UsersSeen(n) THEN Missed(u, n, "none")
                ELSE [rec |-> "none", asked |-> u, ok |-> TRUE, whole |-> TRUE,
                      err |-> IF fits THEN "none" ELSE "ERANGE"]
  /\ UNCHANGED <<pw_file, area, record, enumerated, hostAll>>

setpwent ==
  /\ pw_file.open \/ DescriptorsFree
  /\ pw_file' = [open |-> TRUE, line |-> 0]
  /\ enumerated' = <<>>
  /\ UNCHANGED <<left_open, area, record, pw_last, found, hostAll>>

(* The next line that is an entry. *)
EntriesAfter(n) == {i \in n + 1..Len(PasswdFile) : PasswdFile[i] # Malformed}

(* A file that does not open and one that cannot be read give nothing. *)
getpwent(readable) ==
  /\ area < MaxArea
  /\ IF ~(pw_file.open \/ DescriptorsFree) \/ ~readable \/ EntriesAfter(pw_file.line) = {}
       THEN /\ pw_file' = [open |-> pw_file.open \/ DescriptorsFree,
                           line |-> IF readable /\ (pw_file.open \/ DescriptorsFree)
                                    THEN Len(PasswdFile) ELSE pw_file.line]
            /\ pw_last' = Nobody_
            /\ UNCHANGED <<area, record, enumerated>>
       ELSE LET i == CHOOSE i \in EntriesAfter(pw_file.line) :
                       \A j \in EntriesAfter(pw_file.line) : i <= j
            IN /\ pw_file' = [open |-> TRUE, line |-> i]
               /\ fill_user("ent", PasswdFile[i])
               /\ pw_last' = [rec |-> "ent", asked |-> PasswdFile[i], ok |-> TRUE,
                              err |-> "none", whole |-> TRUE]
               /\ enumerated' = Append(enumerated, PasswdFile[i])
  /\ UNCHANGED <<left_open, found, hostAll>>

endpwent ==
  /\ pw_file.open
  /\ pw_file' = [open |-> FALSE, line |-> 0]
  /\ enumerated' = <<>>
  /\ UNCHANGED <<left_open, area, record, pw_last, found, hostAll>>

-----------------------------------------------------------------------------
(* gethostbyname *)

(* The entry of the last call is freed first; the address list is not set  *)
(* to null.                                                                *)
Forgotten == [name |-> "null", aliases |-> "null",
              list |-> IF host.list = "null" THEN "null" ELSE "freed"]

UsedFreed == host_ub' = (host_ub \/ host.list = "freed")

(* A numeric address has no alias; a name has one when it is not canonical. *)
host_found(aliased) ==
  /\ host' = [name |-> "live", aliases |-> IF aliased THEN "live" ELSE "null",
              list |-> "live"]
  /\ UsedFreed
  /\ UNCHANGED <<pwAll, host_failed>>

host_not_found ==
  /\ host' = Forgotten
  /\ host_failed' = (host_failed \/ host.list # "null")
  /\ UsedFreed
  /\ UNCHANGED pwAll

DbNext ==
  \/ \E u \in PwNames, n \in {1, Len(PasswdFile)} :
       \/ \E r \in Records \ {"ent"} : getpw(r, u, n)
       \/ \E fits \in BOOLEAN : getpw_r(u, fits, n)
  \/ setpwent \/ endpwent
  \/ \E readable \in BOOLEAN : getpwent(readable)
  \/ \E aliased \in BOOLEAN : host_found(aliased)
  \/ host_not_found

-----------------------------------------------------------------------------

(* A lookup of a user that the file has succeeds, unless the file cannot   *)
(* be read that far or the streams left open by earlier successful lookups *)
(* have used up the descriptors; then it fails, with EIO, and does not say *)
(* that there is no such user.                                             *)
UserFound ==
  pw_last.asked \in ToSet(PasswdFile) \ {Malformed} /\ ~pw_last.ok =>
    /\ pw_last.err = "EIO"
    /\ pw_last.whole => found + 1 >= DbDescriptors

(* The strings of the record returned last are in the area as it is: they  *)
(* are valid until the next lookup, of whichever function.                 *)
LastRecordValid ==
  pw_last.rec # "none" => /\ record[pw_last.rec].version = area
                          /\ record[pw_last.rec].user = pw_last.asked

(* getpwent gives every entry once, in the order of the file, whatever     *)
(* lookups come in between, and starts over after setpwent and endpwent.   *)
EnumeratesAll ==
  LET entries == SelectSeq(PasswdFile, LAMBDA u : u # Malformed)
  IN enumerated = SubSeq(entries, 1, Len(enumerated))

(* gethostbyname uses memory that it freed only after a lookup that failed *)
(* while there was an address list.                                        *)
HostFreedOnce == host_ub => host_failed

-----------------------------------------------------------------------------
(***************************************************************************)
(* The group database, src/posix/grp.cpp.  A line of the file is the       *)
(* sequence of its segments, the member list already a sequence of names   *)
(* (one empty name when it is empty: a search for ',' always yields one).  *)
(* Strings are sequences of bytes; a pointer is a place in a text and    *)
(* the version of the text it was taken from, which every append moves.    *)
(***************************************************************************)

CONSTANTS
  GroupFile,        \* the lines of /etc/group
  NoNumber,         \* a group id that is no number
  GroupKeys,        \* names ("nam") and ids ("gid") looked up
  GroupUsers,       \* users whose groups are listed
  AreaSizes,        \* sizes of a caller's buffer
  ListSizes,        \* sizes of a caller's array of group ids
  PtrSize,          \* sizeof(char*)
  GroupDescriptors, \* descriptors of the process
  MaxFills          \* bound: records filled

VARIABLES
  gr_left_open,     \* streams of lookups that were never closed
  gr_file,          \* GLOBAL_FILE: whether it is open, and the lines read
  gr_area,          \* GRP_STR_AREA
  gr_ptrs,          \* GRP_PTR_AREA
  gr_record,        \* the static records of getgrnam, getgrgid, getgrent
  gr_last,          \* the last call: its record and what it found
  gr_fills          \* history: records filled

grVars == <<gr_left_open, gr_file, gr_area, gr_ptrs, gr_record, gr_last, gr_fills>>

(* Bytes: letters, the terminator, what the caller had there, and those of *)
(* a pointer to a place of the area (-1: the null pointer).                *)
Nul == 0
Null == [at |-> -1, version |-> -1]
Unwritten == -1
PointerByte(at) == 1000 + at
GroupRecords == {"nam", "gid", "ent"}
NothingFound == [rec |-> "none", line |-> 0, missed |-> FALSE]

GrInit ==
  /\ gr_left_open = 0 /\ gr_file = [open |-> FALSE, line |-> 0]
  /\ gr_area = [text |-> <<>>, version |-> 0] /\ gr_ptrs = <<>>
  /\ gr_record = [r \in GroupRecords |-> [name |-> Null, passwd |-> Null, gid |-> 0]]
  /\ gr_last = NothingFound /\ gr_fills = 0

-----------------------------------------------------------------------------
(* parse_entry: three segments that end at a ':' and one that does not. *)
parse_entry(line) == Len(line) = 4 /\ line[3] # NoNumber
View(i) == [name |-> GroupFile[i][1], password |-> GroupFile[i][2],
            gid |-> GroupFile[i][3], member_list |-> GroupFile[i][4]]
Entries == {i \in 1..Len(GroupFile) : parse_entry(GroupFile[i])}

GrString(s) == Append(s, Nul)
GrStrings(names) == FlattenSeq([i \in 1..Len(names) |-> GrString(names[i])])

(* Where member i begins, the members starting at `from'. *)
MemberAt(view, from, i) == from + Len(GrStrings(SubSeq(view.member_list, 1, i - 1)))

(* The offsets become pointers when the area is complete. *)
PointerVersion(view, i) == gr_area.version + 2 + Len(view.member_list)

fill_group(r, view) ==
  LET strings == GrString(view.name) \o GrString(view.password)
      count == Len(view.member_list)
      whole == gr_area.version + 2 + count
  IN /\ gr_area' = [text |-> strings \o GrStrings(view.member_list), version |-> whole]
     /\ gr_ptrs' = Append([i \in 1..count |->
                             [at |-> MemberAt(view, Len(strings), i),
                              version |-> PointerVersion(view, i)]], Null)
     /\ gr_record' = [gr_record EXCEPT ![r] =
                        [name |-> [at |-> 0, version |-> whole],
                         passwd |-> [at |-> Len(GrString(view.name)), version |-> whole],
                         gid |-> view.gid]]
     /\ gr_fills' = gr_fills + 1

-----------------------------------------------------------------------------
(* The caller's memory, as long as the largest buffer and some more. *)
Memory == 0..40
GrWritten(mem, at, bytes) ==
  [i \in Memory |-> IF i \in at..at + Len(bytes) - 1 THEN bytes[i - at + 1] ELSE mem[i]]
PointerTo(at) == [k \in 1..PtrSize |-> PointerByte(at)]

TotalSize(view) ==
  Len(view.name) + 1 + Len(view.password) + 1
    + Len(GrStrings(view.member_list)) + PtrSize * Len(view.member_list) + PtrSize

(* fill_group_in_area: the pointers first, then the strings.  The name is  *)
(* copied to the beginning of the area, where the pointers are written     *)
(* afterwards, and not to gr_name, where only its terminator is.           *)
fill_group_in_area(view, size) ==
  LET count  == Len(view.member_list)
      name   == (count + 1) * PtrSize
      passwd == name + Len(view.name) + 1
      first  == passwd + Len(view.password) + 1
      named  == GrWritten(GrWritten([i \in Memory |-> Unwritten], 0, view.name),
                        passwd - 1, <<Nul>>)
      member(mem, i) ==
        GrWritten(GrWritten(mem, MemberAt(view, first, i), GrString(view.member_list[i])),
                PtrSize * (i - 1), PointerTo(MemberAt(view, first, i)))
  IN IF size < TotalSize(view)
       THEN [err |-> "ERANGE"]
       ELSE [err |-> "none",
             mem |-> GrWritten(FoldLeft(member, GrWritten(named, passwd, GrString(view.password)),
                                      [i \in 1..count |-> i]),
                             PtrSize * count, PointerTo(-1)),
             gr_name |-> name, gr_passwd |-> passwd, gr_gid |-> view.gid, gr_mem |-> 0]

-----------------------------------------------------------------------------
DescriptorFree == gr_left_open + (IF gr_file.open THEN 1 ELSE 0) < GroupDescriptors

open_global_file == gr_file.open \/ DescriptorFree

(* The lines that a lookup sees when reading stops after line n, and the   *)
(* first of them that is wanted.                                           *)
Wanted(r, key, n) ==
  {i \in Entries : i <= n /\ key = IF r = "nam" THEN View(i).name ELSE View(i).gid}
FirstOf(S) == CHOOSE i \in S : \A j \in S : i <= j

(* getgrnam, getgrgid.  A stream that found its group is not closed. *)
getgr(r, key, n) ==
  /\ gr_fills < MaxFills
  /\ LET lines == IF DescriptorFree THEN Wanted(r, key, n) ELSE {}
     IN IF lines # {}
          THEN /\ fill_group(r, View(FirstOf(lines)))
               /\ gr_left_open' = gr_left_open + 1
               /\ gr_last' = [rec |-> r, line |-> FirstOf(lines), missed |-> FALSE]
          ELSE /\ gr_last' = [NothingFound EXCEPT
                                !.missed = n = Len(GroupFile) /\ Wanted(r, key, n) # {}]
               /\ UNCHANGED <<gr_left_open, gr_area, gr_ptrs, gr_record, gr_fills>>
  /\ UNCHANGED gr_file

(* The streams left open by a lookup that found its group. *)
AreaStream(err) == IF err = "none" THEN gr_left_open + 1 ELSE gr_left_open

(* getgrnam_r, getgrgid_r; whether the buffer is large enough is fits. *)
getgr_r(r, key, n, fits) ==
  /\ gr_fills < MaxFills
  /\ LET lines == IF DescriptorFree THEN Wanted(r, key, n) ELSE {}
         err == IF fits THEN "none" ELSE "ERANGE"
     IN IF lines # {}
          THEN /\ gr_left_open' = AreaStream(err)
               /\ gr_fills' = IF fits THEN gr_fills + 1 ELSE gr_fills
               /\ gr_last' = NothingFound
          ELSE /\ gr_last' = [NothingFound EXCEPT
                                !.missed = n = Len(GroupFile) /\ Wanted(r, key, n) # {}]
               /\ UNCHANGED <<gr_left_open, gr_fills>>
  /\ UNCHANGED <<gr_file, gr_area, gr_ptrs, gr_record>>

setgrent ==
  /\ open_global_file
  /\ gr_file' = [open |-> TRUE, line |-> 0]
  /\ gr_last' = NothingFound
  /\ UNCHANGED <<gr_left_open, gr_area, gr_ptrs, gr_record, gr_fills>>

(* getgrent: the next entry, unless the file cannot be read.  The file is  *)
(* the one it opened, so a lookup in between does not move it.             *)
getgrent(readable) ==
  /\ gr_fills < MaxFills
  /\ LET rest == {i \in Entries : open_global_file /\ readable /\ i > gr_file.line}
     IN IF rest # {}
          THEN /\ fill_group("ent", View(FirstOf(rest)))
               /\ gr_file' = [open |-> TRUE, line |-> FirstOf(rest)]
               /\ gr_last' = [rec |-> "ent", line |-> FirstOf(rest), missed |-> FALSE]
          ELSE /\ gr_file' = [open |-> open_global_file,
                              line |-> IF open_global_file /\ readable THEN Len(GroupFile)
                                       ELSE gr_file.line]
               /\ gr_last' = NothingFound
               /\ UNCHANGED <<gr_area, gr_ptrs, gr_record, gr_fills>>
  /\ UNCHANGED gr_left_open

endgrent ==
  /\ gr_file.open
  /\ gr_file' = [open |-> FALSE, line |-> 0]
  /\ gr_last' = NothingFound
  /\ UNCHANGED <<gr_left_open, gr_area, gr_ptrs, gr_record, gr_fills>>

-----------------------------------------------------------------------------
(* A group id is stored while there is room, and counted in any case. *)
GrStored(acc, gid, max) ==
  [acc EXCEPT !.groups = IF acc.total < max THEN Append(@, gid) ELSE @,
              !.ret = IF acc.total < max THEN @ ELSE -1,
              !.total = @ + 1]

Contained(acc, gid, group, max) == acc.contained \/ gid = group

(* getgrouplist, whose stream is closed on every path. *)
getgrouplist(user, group, max) ==
  LET line(acc, i) ==
        IF i \in Entries /\ \E k \in 1..Len(View(i).member_list) :
                              View(i).member_list[k] = user
          THEN [GrStored(acc, View(i).gid, max) EXCEPT
                  !.contained = Contained(acc, View(i).gid, group, max)]
          ELSE acc
      read == FoldLeft(line, [groups |-> <<>>, total |-> 0, ret |-> 0, contained |-> FALSE],
                       [i \in 1..Len(GroupFile) |-> i])
  IN IF read.contained THEN read ELSE GrStored(read, group, max)

GrNext ==
  \/ \E r \in {"nam", "gid"}, n \in {1, Len(GroupFile)} : \E key \in GroupKeys[r] :
       \/ getgr(r, key, n)
       \/ \E fits \in BOOLEAN : getgr_r(r, key, n, fits)
  \/ setgrent \/ endgrent
  \/ \E readable \in BOOLEAN : getgrent(readable)

(* The calls whose results are only in the caller's memory. *)
AreaInit ==
  \E i \in Entries, size \in AreaSizes : sample = [of |-> "area", line |-> i, size |-> size]
ListInit ==
  \E user \in GroupUsers, group \in {1, 2, 3}, max \in ListSizes :
    sample = [of |-> "grouplist", user |-> user, group |-> group, max |-> max]

-----------------------------------------------------------------------------
(* What a string of the area reads as: the letters up to a terminator, or  *)
(* nothing that means anything when the pointer is to an older text.       *)
Reads(text, at) ==
  LET ends == {k \in at + 1..Len(text) : text[k] = Nul}
  IN IF ends = {} THEN <<Unwritten>> ELSE SubSeq(text, at + 1, FirstOf(ends) - 1)
ReadsAt(p) == IF p.version = gr_area.version THEN Reads(gr_area.text, p.at) ELSE <<Unwritten>>

(* The record of the last successful getgrnam, getgrgid or getgrent reads  *)
(* as its line of the file, the members up to the null pointer included,   *)
(* however the area of the strings moved while fill_group filled it.       *)
GroupReads ==
  gr_last.rec # "none" =>
    LET rec == gr_record[gr_last.rec]
        view == View(gr_last.line)
        count == Len(gr_ptrs) - 1
    IN /\ ReadsAt(rec.name) = view.name
       /\ ReadsAt(rec.passwd) = view.password
       /\ rec.gid = view.gid
       /\ gr_ptrs[count + 1] = Null
       /\ [i \in 1..count |-> ReadsAt(gr_ptrs[i])] = view.member_list

(* A record in the caller's buffer: the password and every member read     *)
(* back through the pointers, the list of members ends with a null         *)
(* pointer, and no byte after the buffer was written.  (The name does not  *)
(* read back: see fill_group_in_area.)                                     *)
AreaReads ==
  sample.of = "area" =>
    LET view == View(sample.line)
        out == fill_group_in_area(view, sample.size)
        text == [k \in 1..sample.size |-> out.mem[k - 1]]
        pointer(i) == out.mem[out.gr_mem + PtrSize * (i - 1)]
    IN out.err = "none" =>
         /\ \A i \in Memory : i >= sample.size => out.mem[i] = Unwritten
         /\ Reads(text, out.gr_passwd) = view.password
         /\ \A i \in 1..Len(view.member_list) :
              \E at \in Memory : /\ pointer(i) = PointerByte(at)
                                 /\ Reads(text, at) = view.member_list[i]
         /\ pointer(Len(view.member_list) + 1) = PointerByte(-1)

(* A lookup misses a group that the file has only when the streams that    *)
(* earlier successful lookups left open have used up the descriptors.      *)
GroupFound == gr_last.missed => gr_fills + 1 >= GroupDescriptors

(* getgrouplist gives the groups that list the user and the primary group, *)
(* which is not given twice; the count is the whole one, -1 says that it   *)
(* did not fit, and what was stored is the beginning.                      *)
GroupListWhole ==
  sample.of = "grouplist" =>
    LET out == getgrouplist(sample.user, sample.group, sample.max)
        lines == {i \in Entries : sample.user \in ToSet(View(i).member_list)}
        gids == {View(i).gid : i \in lines}
        count == Cardinality(lines) + (IF sample.group \in gids THEN 0 ELSE 1)
    IN /\ out.total = count
       /\ out.ret = (IF count > sample.max THEN -1 ELSE 0)
       /\ Len(out.groups) = IF count > sample.max THEN sample.max ELSE count
       /\ ToSet(out.groups) \subseteq gids \cup {sample.group}
       /\ out.ret = 0 => gids \cup {sample.group} \subseteq ToSet(out.groups)

(* Users and groups: who is in the file is found while there are           *)
(* descriptors, the record returned last reads as its line, enumerations   *)
(* are complete, and the entry of gethostbyname is freed once.             *)
RecordsFound ==
  /\ UserFound /\ LastRecordValid /\ EnumeratesAll /\ HostFreedOnce
  /\ GroupReads /\ AreaReads /\ GroupFound /\ GroupListWhole
=============================================================================
