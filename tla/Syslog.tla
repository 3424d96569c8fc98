------------------------------- MODULE Syslog -------------------------------
(***************************************************************************)
(* The system log of src/posix/syslog.cpp.  openlog and closelog hold LOCK *)
(* but vsyslog does not: it reads LOG_FD again for every call it makes, so *)
(* each of its calls is a step here, and other threads come in between.    *)
(* So are the test of LOG_FD and the socket made after it, and close and   *)
(* the assignment behind it.  The descriptor of the log is one of the      *)
(* process' descriptors, which other code opens and closes, too.  A        *)
(* message is only counted; the console can always be opened, and          *)
(* LOG_PERROR is left out.                                                 *)
(***************************************************************************)
EXTENDS Integers, FiniteSets

CONSTANTS LogThreads, LogFds,
          MaxMessages,   \* bound: calls of vsyslog
          MaxCloses,     \* bound: calls of closelog
          MaxOtherOpens  \* bound: descriptors opened elsewhere

ASSUME LogFdsAssumption == LogFds \subseteq Nat

VARIABLES
  log_fd,        \* LOG_FD
  use_libc,      \* USE_LIBC_LOG
  log_cons,      \* OPTIONS & LOG_CONS
  log_open,      \* per descriptor: "none", "socket" (not connected), "log", "other"
  daemon,        \* whether somebody listens at /dev/log
  sl,            \* per thread: where it is
  logged,        \* history: per destination, messages that went there
  messages, closes, other_opens_,
  log_raced,     \* history: two threads were in open_log or closelog at a time
  closed_under,  \* history: the descriptor was closed while a message was under way
  was_down,      \* history: nobody listened at /dev/log at some time
  no_fd          \* history: there was no descriptor for the socket

logVars == <<log_fd, use_libc, log_cons, log_open, daemon, sl, logged, messages,
             closes, other_opens_, log_raced, closed_under, was_down, no_fd>>

LogInit ==
  /\ log_fd = -1 /\ use_libc = FALSE /\ log_cons \in BOOLEAN
  /\ log_open = [f \in LogFds |-> "none"]
  /\ daemon \in BOOLEAN
  /\ sl = [t \in LogThreads |-> "idle"]
  /\ logged = [d \in {"log", "libc", "console", "other", "lost"} |-> 0]
  /\ messages = 0 /\ closes = 0 /\ other_opens_ = 0
  /\ log_raced = FALSE /\ closed_under = FALSE /\ was_down = ~daemon /\ no_fd = FALSE

FreeLogFds == {f \in LogFds : log_open[f] = "none"}
LowestLog == CHOOSE f \in FreeLogFds : \A g \in FreeLogFds : f <= g
LogSockets == {f \in LogFds : log_open[f] \in {"socket", "log"}}
SlGo(t, pc) == sl' = [sl EXCEPT ![t] = pc]
Logged(d) == logged' = [logged EXCEPT ![d] = @ + 1]
logBounds == <<messages, closes, other_opens_>>

(* The message of t needs LOG_FD still. *)
UsesLog(t) == sl[t] \in {"check", "open", "connect", "giveup", "send", "again", "resend"}

(* t has closed the descriptor and not yet reset LOG_FD. *)
Closer(t) == sl[t] \in {"reset", "nd_reset", "closing"}

(* t is inside open_log or closelog, or has found that it must be. *)
Busy(t) == Closer(t) \/ sl[t] \in {"open", "connect", "giveup",
                                    "nd_open", "nd_connect", "nd_giveup"}

Enters(t) == log_raced' = (log_raced \/ \E u \in LogThreads \ {t} : Busy(u))

-----------------------------------------------------------------------------
(* open_log and the close of closelog *)

OpenSocket(t, opened, failed) ==
  IF FreeLogFds = {}
    THEN /\ log_fd' = -1 /\ no_fd' = TRUE /\ SlGo(t, failed)
         /\ UNCHANGED log_open
    ELSE /\ log_fd' = LowestLog
         /\ log_open' = [log_open EXCEPT ![LowestLog] = "socket"]
         /\ SlGo(t, opened) /\ UNCHANGED no_fd

(* connect takes LOG_FD as it is now. *)
Connect(t, connected, failed) ==
  IF log_fd >= 0 /\ log_open[log_fd] \in {"socket", "log"} /\ daemon
    THEN log_open' = [log_open EXCEPT ![log_fd] = "log"] /\ SlGo(t, connected)
    ELSE SlGo(t, failed) /\ UNCHANGED log_open

(* close(LOG_FD) *)
CloseFd(t, next) ==
  /\ log_open' = IF log_fd >= 0 THEN [log_open EXCEPT ![log_fd] = "none"] ELSE log_open
  /\ closed_under' = (closed_under \/ \E u \in LogThreads \ {t} : UsesLog(u))
  /\ SlGo(t, next)

-----------------------------------------------------------------------------
(* vsyslog *)

(* A log that could not be opened once is never tried again. *)
vsyslog(t) ==
  /\ sl[t] = "idle" /\ messages < MaxMessages
  /\ messages' = messages + 1
  /\ IF use_libc THEN Logged("libc") /\ UNCHANGED <<sl, closed_under>>
     ELSE /\ SlGo(t, "check") /\ UNCHANGED logged
          /\ closed_under' = (closed_under \/ \E u \in LogThreads \ {t} : Closer(u))
  /\ UNCHANGED <<log_fd, use_libc, log_cons, log_open, daemon, closes, other_opens_,
                 log_raced, was_down, no_fd>>

log_check(t) ==
  /\ sl[t] = "check"
  /\ IF log_fd < 0 THEN SlGo(t, "open") /\ Enters(t)
     ELSE SlGo(t, "send") /\ UNCHANGED log_raced
  /\ UNCHANGED <<log_fd, use_libc, log_cons, log_open, daemon, logged, logBounds,
                 closed_under, was_down, no_fd>>

log_socket(t) ==
  /\ sl[t] = "open"
  /\ OpenSocket(t, "connect", "send")
  /\ UNCHANGED <<use_libc, log_cons, daemon, logged, logBounds, log_raced, closed_under,
                 was_down>>

log_connect(t) ==
  /\ sl[t] = "connect"
  /\ Connect(t, "send", "giveup")
  /\ UNCHANGED <<log_fd, use_libc, log_cons, daemon, logged, logBounds, log_raced,
                 closed_under, was_down, no_fd>>

log_giveup(t) ==
  /\ sl[t] = "giveup"
  /\ CloseFd(t, "reset")
  /\ UNCHANGED <<log_fd, use_libc, log_cons, daemon, logged, logBounds, log_raced, was_down,
                 no_fd>>

log_reset(t) ==
  /\ sl[t] = "reset"
  /\ log_fd' = -1 /\ use_libc' = TRUE
  /\ SlGo(t, "send")
  /\ UNCHANGED <<log_cons, log_open, daemon, logged, logBounds, log_raced, closed_under,
                 was_down, no_fd>>

LogFailed(t) ==
  IF log_cons THEN SlGo(t, "console") /\ UNCHANGED logged
  ELSE SlGo(t, "idle") /\ Logged("lost")

(* send on whatever LOG_FD is now; a socket that is not connected, or not  *)
(* any more, is connected again, once.                                     *)
log_send(t) ==
  /\ sl[t] \in {"send", "resend"}
  /\ CASE log_fd >= 0 /\ log_open[log_fd] = "other" -> SlGo(t, "idle") /\ Logged("other")
       [] log_fd >= 0 /\ log_open[log_fd] = "log" -> SlGo(t, "idle") /\ Logged("log")
       [] log_fd >= 0 /\ log_open[log_fd] = "socket" /\ sl[t] = "send" ->
            SlGo(t, "again") /\ UNCHANGED logged
       [] OTHER -> LogFailed(t)
  /\ UNCHANGED <<log_fd, use_libc, log_cons, log_open, daemon, logBounds, log_raced,
                 closed_under, was_down, no_fd>>

(* A failure closes nothing here. *)
log_again(t) ==
  /\ sl[t] = "again"
  /\ IF log_fd >= 0 /\ log_open[log_fd] \in {"socket", "log"} /\ daemon
       THEN /\ log_open' = [log_open EXCEPT ![log_fd] = "log"]
            /\ SlGo(t, "resend") /\ UNCHANGED logged
       ELSE LogFailed(t) /\ UNCHANGED log_open
  /\ UNCHANGED <<log_fd, use_libc, log_cons, daemon, logBounds, log_raced, closed_under,
                 was_down, no_fd>>

log_console(t) ==
  /\ sl[t] = "console"
  /\ SlGo(t, "idle") /\ Logged("console")
  /\ UNCHANGED <<log_fd, use_libc, log_cons, log_open, daemon, logBounds, log_raced,
                 closed_under, was_down, no_fd>>

-----------------------------------------------------------------------------
(* openlog and closelog: LOCK keeps them from each other only *)

LogLocked ==
  \E u \in LogThreads :
    sl[u] \in {"nd_open", "nd_connect", "nd_giveup", "nd_reset", "closing"}

openlog(t, cons, ndelay) ==
  /\ sl[t] = "idle" /\ ~LogLocked
  /\ log_cons' = cons
  /\ IF ndelay /\ log_fd < 0 THEN SlGo(t, "nd_open") /\ Enters(t)
     ELSE UNCHANGED <<sl, log_raced>>
  /\ UNCHANGED <<log_fd, use_libc, log_open, daemon, logged, logBounds, closed_under,
                 was_down, no_fd>>

openlog_socket(t) ==
  /\ sl[t] = "nd_open"
  /\ OpenSocket(t, "nd_connect", "idle")
  /\ UNCHANGED <<use_libc, log_cons, daemon, logged, logBounds, log_raced, closed_under,
                 was_down>>

openlog_connect(t) ==
  /\ sl[t] = "nd_connect"
  /\ Connect(t, "idle", "nd_giveup")
  /\ UNCHANGED <<log_fd, use_libc, log_cons, daemon, logged, logBounds, log_raced,
                 closed_under, was_down, no_fd>>

openlog_giveup(t) ==
  /\ sl[t] = "nd_giveup"
  /\ CloseFd(t, "nd_reset")
  /\ UNCHANGED <<log_fd, use_libc, log_cons, daemon, logged, logBounds, log_raced, was_down,
                 no_fd>>

openlog_reset(t) ==
  /\ sl[t] = "nd_reset"
  /\ log_fd' = -1 /\ use_libc' = TRUE
  /\ SlGo(t, "idle")
  /\ UNCHANGED <<log_cons, log_open, daemon, logged, logBounds, log_raced, closed_under,
                 was_down, no_fd>>

closelog(t) ==
  /\ sl[t] = "idle" /\ ~LogLocked /\ log_fd # -1 /\ closes < MaxCloses
  /\ closes' = closes + 1
  /\ Enters(t) /\ CloseFd(t, "closing")
  /\ UNCHANGED <<log_fd, use_libc, log_cons, daemon, logged, messages, other_opens_,
                 was_down, no_fd>>

(* Mutant: LOG_FD keeps the number of the closed descriptor. *)
CloselogKeeps(t) ==
  /\ sl[t] = "closing"
  /\ SlGo(t, "idle")
  /\ UNCHANGED <<log_fd, use_libc, log_cons, log_open, daemon, logged, logBounds, log_raced,
                 closed_under, was_down, no_fd>>

closelog_reset(t) ==
  /\ sl[t] = "closing"
  /\ log_fd' = -1
  /\ SlGo(t, "idle")
  /\ UNCHANGED <<use_libc, log_cons, log_open, daemon, logged, logBounds, log_raced,
                 closed_under, was_down, no_fd>>

-----------------------------------------------------------------------------
(* The rest of the process and the system *)

other_opens_file ==
  /\ FreeLogFds # {} /\ other_opens_ < MaxOtherOpens
  /\ other_opens_' = other_opens_ + 1
  /\ log_open' = [log_open EXCEPT ![LowestLog] = "other"]
  /\ UNCHANGED <<log_fd, use_libc, log_cons, daemon, sl, logged, messages, closes, log_raced,
                 closed_under, was_down, no_fd>>

other_closes_file ==
  /\ \E f \in LogFds : /\ log_open[f] = "other"
                       /\ log_open' = [log_open EXCEPT ![f] = "none"]
  /\ UNCHANGED <<log_fd, use_libc, log_cons, daemon, sl, logged, logBounds, log_raced,
                 closed_under, was_down, no_fd>>

(* When the daemon ends, so do the connections to it. *)
daemon_changes ==
  /\ messages < MaxMessages
  /\ daemon' = ~daemon
  /\ log_open' = [f \in LogFds |-> IF daemon /\ log_open[f] = "log" THEN "socket"
                                   ELSE log_open[f]]
  /\ was_down' = TRUE
  /\ UNCHANGED <<log_fd, use_libc, log_cons, sl, logged, logBounds, log_raced, closed_under,
                 no_fd>>

LogNext ==
  \/ \E t \in LogThreads :
       \/ vsyslog(t) \/ log_check(t) \/ log_socket(t) \/ log_connect(t) \/ log_giveup(t)
       \/ log_reset(t) \/ log_send(t) \/ log_again(t) \/ log_console(t)
       \/ openlog_socket(t) \/ openlog_connect(t) \/ openlog_giveup(t) \/ openlog_reset(t)
       \/ closelog(t) \/ closelog_reset(t)
       \/ \E cons, ndelay \in BOOLEAN : openlog(t, cons, ndelay)
  \/ other_opens_file \/ other_closes_file \/ daemon_changes

LogSpec == LogInit /\ [][LogNext]_logVars

-----------------------------------------------------------------------------
LogQuiet == \A t \in LogThreads : sl[t] = "idle"

(* A message is sent into some other file of the process only when the     *)
(* descriptor was closed while a message was under way, or two threads     *)
(* were opening or closing the log at a time.                              *)
NoStrayMessage == logged["other"] > 0 => closed_under \/ log_raced

(* The process has one descriptor for the log, and LOG_FD names it, unless *)
(* two threads opened or closed the log at a time: then a socket may never *)
(* be closed.                                                              *)
OneLogDescriptor ==
  LogQuiet /\ ~log_raced => LogSockets = (IF log_fd < 0 THEN {} ELSE {log_fd})

(* A message goes elsewhere than to the log, or nowhere, only if the       *)
(* daemon was away at some time, there was no descriptor left, or one of   *)
(* the above happened.  In particular, a message that finds a socket that  *)
(* another thread has not connected yet gets through.                      *)
LogReached ==
  (\E d \in {"libc", "console", "lost"} : logged[d] > 0) =>
    was_down \/ no_fd \/ closed_under \/ log_raced

(* A message reaches the log and no other file, over one descriptor,       *)
(* unless the daemon was away, descriptors ran out, or the log was closed  *)
(* or opened twice under it.                                               *)
MessagesArrive == NoStrayMessage /\ OneLogDescriptor /\ LogReached
=============================================================================
