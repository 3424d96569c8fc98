----------------------------- MODULE FileStream -----------------------------
(***************************************************************************)
(* A stream of src/ansi/stdio.cpp: the pushed-back characters and the      *)
(* descriptor behind it, its flags, positioning, the reading calls of      *)
(* src/internal/stdio_unlocked.cpp and src/posix/stdio.cpp, and its        *)
(* descriptor among those of the process.  The stream's mutex is held by   *)
(* every call, so calls follow each other; a call that reads item by item  *)
(* takes one step per item.  A read may come back short or fail.  Streams  *)
(* are not buffered, so writing adds nothing to the state.                 *)
(***************************************************************************)
EXTENDS Integers, FiniteSets, SequencesExt

CONSTANTS
  Content,       \* the file's characters
  Newline,       \* the delimiter
  UngetSize,     \* characters of the pushback buffer (0x1000)
  Fds,           \* descriptors of the process
  MaxItems       \* bound: items of a fread, characters of a fgets

VARIABLES
  fs,        \* the stream: fd, buffer, ungetc_ptr, ungetc_size, flags, state
  pos,       \* the kernel's offset
  op,        \* the reading call under way: kind, item size, items, the
             \* items got and the characters taken from the stream
  owner,     \* per descriptor: who opened it
  saved,     \* the last position fgetpos gave, and the character next then
  dirty,     \* history: fseek or fseeko left pushed-back characters behind
  dropped,   \* history: a call took characters and did not hand them over
  orphaned,  \* history: freopen failed after closing the descriptor
  stream_ub  \* history: kinds of undefined behaviour met

streamVars == <<fs, pos, op, owner, saved, dirty, dropped,
                orphaned, stream_ub>>

NoOp == [kind |-> "none", size |-> 0, count |-> 0, got |-> 0, taken |-> 0]
Lowest(S) == CHOOSE f \in S : \A g \in S : f <= g
FreeFds == {f \in Fds : owner[f] = "none"}

StreamInit ==
  /\ fs = [fd |-> Lowest(Fds), buf |-> <<>>, ptr |-> 0, size |-> 0,
           eof |-> FALSE, err |-> FALSE, state |-> "open"]
  /\ pos = 0 /\ op = NoOp
  /\ owner = [f \in Fds |-> IF f = Lowest(Fds) THEN "stream" ELSE "none"]
  /\ saved = [pos |-> -1, next |-> -1]
  /\ dirty = FALSE /\ dropped = FALSE
  /\ orphaned = FALSE /\ stream_ub = {}

(* Nothing is followed beyond undefined behaviour. *)
Usable == fs.state = "open" /\ op = NoOp /\ stream_ub = {}
hist == <<dirty, dropped, orphaned, stream_ub>>

-----------------------------------------------------------------------------
(* fd_file_read *)

Rest == Len(Content) - pos

(* The outcomes of sys_read: what was asked for or what is left, less of   *)
(* it, or an error (-1).  A read of nothing gives nothing.                 *)
SysRead(n) == IF n = 0 \/ Rest = 0 THEN {0, -1}
              ELSE 1..(IF n < Rest THEN n ELSE Rest) \cup {-1}

Popped(n) == IF n < fs.size THEN n ELSE fs.size

ReadCount(n, c) == IF c < 0 THEN -1 ELSE c + Popped(n)

(* Reading n characters, of which the kernel answers c. *)
fd_file_read(n, c) ==
  /\ c \in SysRead(n - Popped(n))
  /\ fs' = [fs EXCEPT !.ptr = @ - Popped(n), !.size = @ - Popped(n),
                      !.buf = SubSeq(@, 1, fs.ptr - Popped(n)),
                      !.eof = @ \/ (c >= 0 /\ c < n - Popped(n)),
                      !.err = @ \/ c < 0]
  /\ pos' = IF c < 0 THEN pos ELSE pos + c
  /\ stream_ub' = IF Popped(n) > fs.ptr THEN stream_ub \cup {"below"} ELSE stream_ub

(* The character a read of one would give, when the pushback is sound. *)
NextChar == IF fs.size > 0 THEN IF fs.ptr \in DOMAIN fs.buf THEN fs.buf[fs.ptr] ELSE -1
            ELSE IF Rest > 0 THEN Content[pos + 1] ELSE -1

-----------------------------------------------------------------------------
(* fread, fgetc, fgets, getdelim: begun, then an item at a time *)

(* fgetc is fread of one character; fgets stops one short of its count. *)
read_begin(kind, size, count) ==
  /\ Usable
  /\ op' = [kind |-> kind, size |-> size, count |-> count, got |-> 0, taken |-> 0]
  /\ UNCHANGED <<fs, pos, owner, saved, hist>>

(* Whether the call ends after an item of r characters whose last is ch. *)
Ends(r, ch) == \/ r < op.size
               \/ op.kind # "getdelim" /\ op.got + 1 = op.count
               \/ op.kind # "fread" /\ ch = Newline

(* What the call hands over when it ends: whole items.  At the end of the  *)
(* file fgets hands over what it has, getdelim reports only the failure.   *)
HandedOver(r) ==
  IF r = op.size THEN (op.got + 1) * op.size
  ELSE IF op.kind = "getdelim" THEN 0 ELSE op.got * op.size

Taken(c) == op.taken + Popped(op.size) + (IF c < 0 THEN 0 ELSE c)

read_item(c) ==
  LET r == ReadCount(op.size, c)
      ch == NextChar
  IN /\ op # NoOp /\ op.got < op.count /\ stream_ub = {}
     /\ fd_file_read(op.size, c)
     /\ IF Ends(r, ch)
          THEN op' = NoOp /\ dropped' = (dropped \/ Taken(c) # HandedOver(r))
          ELSE op' = [op EXCEPT !.got = @ + 1, !.taken = Taken(c)] /\ UNCHANGED dropped
     /\ UNCHANGED <<owner, saved, dirty, orphaned>>

(* A count of one leaves fgets nothing to read. *)
fgets_nothing ==
  /\ op.kind = "fgets" /\ op.count = 0
  /\ op' = NoOp
  /\ UNCHANGED <<fs, pos, owner, saved, hist>>

(* EOF when the buffer is full. *)
ungetc(ch) ==
  /\ Usable /\ fs.size < UngetSize
  /\ fs' = [fs EXCEPT !.buf = Append(@, ch), !.ptr = @ + 1, !.size = @ + 1]
  /\ UNCHANGED <<pos, op, owner, saved, hist>>

-----------------------------------------------------------------------------
(* Positioning.  A seek to where is SEEK_SET; it may fail. *)

Fresh == dropped' = FALSE

(* fseek drops the pointer of the pushback, not its size; fseeko neither. *)
fseek(where) ==
  /\ Usable
  /\ pos' = where
  /\ fs' = [fs EXCEPT !.buf = <<>>, !.ptr = 0]
  /\ dirty' = (dirty \/ fs.size > 0)
  /\ Fresh
  /\ UNCHANGED <<op, owner, saved, orphaned, stream_ub>>

fseeko(where) ==
  /\ Usable
  /\ pos' = where
  /\ dirty' = (dirty \/ fs.size > 0)
  /\ Fresh
  /\ UNCHANGED <<fs, op, owner, saved, orphaned, stream_ub>>

(* Mutant: the pushed-back characters survive. *)
DroppedNot(f) == [f EXCEPT !.buf = <<>>, !.ptr = 0]

Dropped(f) == [f EXCEPT !.buf = <<>>, !.ptr = 0, !.size = 0]

(* The seek may fail; the rest happens all the same. *)
rewind ==
  /\ Usable
  /\ pos' \in {0, pos}
  /\ fs' = [Dropped(fs) EXCEPT !.eof = FALSE, !.err = FALSE]
  /\ dirty' = FALSE
  /\ Fresh
  /\ UNCHANGED <<op, owner, saved, orphaned, stream_ub>>

fgetpos ==
  /\ Usable
  /\ saved' = [pos |-> pos, next |-> IF fs.size = 0 THEN NextChar ELSE -2]
  /\ UNCHANGED <<fs, pos, op, owner, hist>>

(* After fgetpos. *)
fsetpos ==
  /\ Usable /\ saved.pos >= 0
  /\ pos' = saved.pos
  /\ fs' = Dropped(fs)
  /\ dirty' = FALSE
  /\ Fresh
  /\ UNCHANGED <<op, owner, saved, orphaned, stream_ub>>

(* The seek of fseek, fsetpos, fgetpos or ftell fails. *)
seek_fails ==
  /\ Usable
  /\ fs' = [fs EXCEPT !.err = TRUE]
  /\ UNCHANGED <<pos, op, owner, saved, hist>>

(* clearerr leaves the end-of-file flag alone. *)
clearerr ==
  /\ Usable
  /\ fs' = [fs EXCEPT !.err = FALSE]
  /\ Fresh
  /\ UNCHANGED <<pos, op, owner, saved, dirty, orphaned, stream_ub>>

-----------------------------------------------------------------------------
(* The descriptor *)

other_opens(f) ==
  /\ FreeFds # {} /\ f = Lowest(FreeFds)
  /\ owner' = [owner EXCEPT ![f] = "other"]
  /\ UNCHANGED <<fs, pos, op, saved, hist>>

(* sys_close succeeds on any open descriptor, and fails on a closed one. *)
Closed == [owner EXCEPT ![fs.fd] = "none"]

(* fclose: an error of close frees the stream with its guard still to      *)
(* release the mutex inside it.                                            *)
fclose ==
  /\ Usable
  /\ owner' = Closed
  /\ fs' = [fs EXCEPT !.state = "freed"]
  /\ stream_ub' = IF owner[fs.fd] = "none" THEN stream_ub \cup {"unlock_freed"}
                  ELSE stream_ub
  /\ UNCHANGED <<pos, op, saved, dirty, dropped, orphaned>>

(* freopen closes first.  A mode it cannot parse or a file it cannot open  *)
(* leaves the stream with the number of the descriptor it closed.          *)
freopen ==
  /\ Usable /\ owner[fs.fd] # "none"
  /\ LET f == Lowest({g \in Fds : owner[g] = "none" \/ g = fs.fd})
     IN /\ owner' = [Closed EXCEPT ![f] = "stream"]
        /\ fs' = [fs EXCEPT !.fd = f]
  /\ pos' = 0
  /\ Fresh /\ dirty' = (dirty \/ fs.size > 0)
  /\ orphaned' = (orphaned /\ owner[fs.fd] # "stream")
  /\ UNCHANGED <<op, saved, stream_ub>>

freopen_fails ==
  /\ Usable /\ owner[fs.fd] # "none"
  /\ owner' = Closed
  /\ orphaned' = TRUE
  /\ UNCHANGED <<fs, pos, op, saved, dirty, dropped, stream_ub>>

(* freopen of a stream whose close fails frees it, under its own guard. *)
freopen_close_fails ==
  /\ Usable /\ owner[fs.fd] = "none"
  /\ fs' = [fs EXCEPT !.state = "freed"]
  /\ stream_ub' = stream_ub \cup {"unlock_freed"}
  /\ UNCHANGED <<pos, op, owner, saved, dirty, dropped, orphaned>>

StreamNext ==
  \/ \E size \in 1..2, count \in 1..MaxItems : read_begin("fread", size, count)
  \/ \E count \in 0..MaxItems : read_begin("fgets", 1, count)
  \/ read_begin("getdelim", 1, 2 * Len(Content) + UngetSize)
  \/ \E c \in -1..2 : read_item(c)
  \/ fgets_nothing
  \/ \E ch \in ToSet(Content) : ungetc(ch)
  \/ \E where \in 0..Len(Content) : fseek(where) \/ fseeko(where)
  \/ rewind \/ fgetpos \/ fsetpos \/ seek_fails \/ clearerr
  \/ \E f \in Fds : other_opens(f)
  \/ fclose \/ freopen \/ freopen_fails \/ freopen_close_fails

-----------------------------------------------------------------------------

(* The pushback buffer is used between its bounds and its size counts what *)
(* is in it, as long as no seek of fseek or fseeko (or freopen) found      *)
(* characters in it: fseek keeps the size, and the reads after it take     *)
(* characters from before the buffer.                                      *)
PushbackSound ==
  ~dirty /\ ~("below" \in stream_ub) =>
    fs.ptr = fs.size /\ fs.size \in 0..UngetSize

(* Undefined behaviour on the pushback needs a seek with characters pushed *)
(* back; unlocking a freed mutex needs a descriptor that was closed behind *)
(* the stream's back, which only a freopen that failed does.               *)
UndefinedOnlyAfter ==
  [][/\ "below" \in stream_ub' \ stream_ub => dirty
     /\ "unlock_freed" \in stream_ub' \ stream_ub => orphaned]_streamVars

(* After fsetpos the next character is the one that would have been read  *)
(* at fgetpos, whatever was read, pushed back or sought in between,        *)
(* provided nothing was pushed back at fgetpos, which takes no account of  *)
(* it.                                                                     *)
PositionRestored == [][fsetpos /\ saved.next # -2 => NextChar' = saved.next]_streamVars

(* Every character taken from the stream is handed to the caller, unless   *)
(* the stream says that it met its end, or an error: a fread of items, and *)
(* getdelim at the end of a file without a last newline, drop what they    *)
(* have read, and an error drops the pushed-back characters.               *)
NothingDropped == op = NoOp => ~dropped \/ fs.eof \/ fs.err

(* A stream closes its own descriptor only, unless a freopen of it failed  *)
(* before: then its number may have been given to someone else's file,     *)
(* which fclose closes.                                                    *)
ClosesOwn ==
  [][\A f \in Fds : owner[f] = "other" /\ owner'[f] # "other" => orphaned]_streamVars

(* A stream hands on every character once and in place, through pushback,  *)
(* positions, errors and freopen, and closes its own descriptor only: the  *)
(* exceptions are those the code has.                                      *)
StreamIsSound ==
  [](PushbackSound /\ NothingDropped) /\ UndefinedOnlyAfter /\ PositionRestored /\ ClosesOwn
=============================================================================
