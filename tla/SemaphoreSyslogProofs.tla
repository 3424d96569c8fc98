------------------------ MODULE SemaphoreSyslogProofs -----------------------
(***************************************************************************)
(* Proofs about module Semaphore, for any set of threads, any largest      *)
(* value and any times.  Conservation of tokens needs that a thread only   *)
(* takes a token out of a word that has one (LocalInv at try_swap and in   *)
(* the wait loop) and that the word never shows a count and the flag at    *)
(* once (FlagOrCount), since the announcement of a waiter replaces a word  *)
(* without tokens.  That no sleeper is forgotten needs the same: only a    *)
(* post takes the flag away, and it goes on to wake everybody.             *)
(*                                                                         *)
(* And proofs about module Syslog, for any number of threads, descriptors  *)
(* and messages.  What a message finds of LOG_FD is still so when it is    *)
(* used because one thread at a time opens or closes while nobody races    *)
(* (AloneInv) and no message is under way when one closes (UnderInv).      *)
(***************************************************************************)
EXTENDS Semaphore, Syslog, WellFoundedInduction, TLAPS

(* A leaf is left to Zenon for thirty seconds, or to the prover it names.  *)
USE ZenonT(30)

(* The value a thread works from fits what it is about to do with it. *)
LocalInv ==
  \A t \in Threads :
    /\ local[t].waiters => local[t].count = 0
    /\ pc[t] = "post_exchange" => local[t].count < SEM_VALUE_MAX
    /\ pc[t] = "try_swap" => local[t].count > 0
    /\ pc[t] \in {"wait_futex", "asleep"} => local[t].count = 0

IndInv == TypeOK /\ LocalInv /\ FlagOrCount /\ TokensConserved /\ NoLostWakeup

-----------------------------------------------------------------------------
(* The words the operations store. *)

LEMMA CountIsWord ==
  ASSUME NEW n \in 0..SEM_VALUE_MAX
  PROVE  Count(n) \in Word /\ Count(n).count = n /\ ~Count(n).waiters
BY DEF Count, Word

LEMMA WaitersIsWord ==
  /\ SEMAPHORE_WAITERS \in Word
  /\ SEMAPHORE_WAITERS.count = 0 /\ SEMAPHORE_WAITERS.waiters
BY SMTT(30), SemValueMaxAssumption DEF SEMAPHORE_WAITERS, Word

LEMMA FlaggedWord ==
  ASSUME NEW w \in Word, w.waiters, w.count = 0
  PROVE  w = SEMAPHORE_WAITERS
BY DEF SEMAPHORE_WAITERS, Word

LEMMA TakenWord ==
  ASSUME NEW w \in Word, w.count > 0
  PROVE  /\ [w EXCEPT !.count = @ - 1] \in Word
         /\ [w EXCEPT !.count = @ - 1].count = w.count - 1
         /\ [w EXCEPT !.count = @ - 1].waiters = w.waiters
BY SMTT(30), SemValueMaxAssumption DEF Word

-----------------------------------------------------------------------------

LEMMA InitIndInv == Init => IndInv
<1> SUFFICES ASSUME Init PROVE IndInv
  OBVIOUS
<1>1. PICK value \in 0..SEM_VALUE_MAX : word = Count(value) /\ tokens = value
  BY DEF Init
<1>2. Count(0) \in Word /\ Count(0).count = 0 /\ ~Count(0).waiters
  BY SMTT(30), CountIsWord, SemValueMaxAssumption
<1>3. word \in Word /\ word.count = value /\ ~word.waiters
  BY <1>1, CountIsWord
<1>4. TypeOK
  <2>1. tokens \in Int /\ posts \in 0..MaxPosts
    BY SMTT(30), <1>1, SemValueMaxAssumption, MaxPostsAssumption DEF Init
  <2>2. pc \in [Threads -> Labels] /\ local \in [Threads -> Word] /\ timed \in [Threads -> BOOLEAN]
    BY <1>2 DEF Init, Labels
  <2> QED
    BY <1>3, <2>1, <2>2 DEF Init, TypeOK
<1>5. LocalInv
  BY <1>2 DEF Init, LocalInv
<1>6. FlagOrCount /\ TokensConserved /\ NoLostWakeup
  BY <1>1, <1>3 DEF Init, FlagOrCount, TokensConserved, NoLostWakeup, sem_getvalue
<1> QED
  BY <1>4, <1>5, <1>6 DEF IndInv

LEMMA NextIndInv == IndInv /\ [Next]_vars => IndInv'
<1> SUFFICES ASSUME IndInv, [Next]_vars PROVE IndInv'
  OBVIOUS
<1> USE SemValueMaxAssumption, MaxPostsAssumption
<1>0. Count(0) \in Word /\ Count(0).count = 0 /\ ~Count(0).waiters
  BY SMTT(30), CountIsWord
<1>types. /\ word.count \in 0..SEM_VALUE_MAX /\ tokens \in Int
          /\ \A t \in Threads : local[t] \in Word /\ local[t].count \in 0..SEM_VALUE_MAX
  BY DEF IndInv, TypeOK, Word
<1>1. ASSUME NEW t \in Threads, sem_post(t) PROVE IndInv'
  <2>1. TypeOK'
    BY SMTT(30), <1>1, <1>0, <1>types DEF IndInv, TypeOK, LocalInv, Labels, sem_post, Goto
  <2>2. LocalInv'
    BY SMTT(30), <1>1, <1>0, <1>types DEF IndInv, TypeOK, LocalInv, FlagOrCount, sem_post, Goto
  <2>3. FlagOrCount' /\ TokensConserved'
    BY <1>1, <1>0, <1>types DEF IndInv, TypeOK, LocalInv, FlagOrCount, TokensConserved, sem_getvalue, sem_post, Goto
  <2>4. NoLostWakeup'
    BY <1>1, <1>0, <1>types, FlaggedWord DEF IndInv, TypeOK, LocalInv, FlagOrCount, NoLostWakeup, sem_post, Goto
  <2> QED
    BY <2>1, <2>2, <2>3, <2>4 DEF IndInv
<1>2. ASSUME NEW t \in Threads, post_exchange(t) PROVE IndInv'
  <2>0. word' \in Word /\ word'.count = local[t].count + 1 /\ ~word'.waiters
    <3>1. local[t].count + 1 \in 0..SEM_VALUE_MAX
      BY SMTT(30), <1>2, <1>types DEF IndInv, LocalInv, post_exchange
    <3> QED
      BY <1>2, <3>1, CountIsWord DEF post_exchange
  <2>1. TypeOK'
    <3>1. word' \in Word /\ tokens' \in Int
      BY SMTT(30), <2>0, <1>2, <1>types DEF IndInv, TypeOK, post_exchange
    <3>2. pc' \in [Threads -> Labels]
      BY <1>2 DEF IndInv, TypeOK, Labels, post_exchange, Goto, Return
    <3>3. local' \in [Threads -> Word] /\ timed' \in [Threads -> BOOLEAN]
      BY <1>2, <1>0, <1>types DEF IndInv, TypeOK, post_exchange, Goto, Return
    <3>4. posts' \in 0..MaxPosts /\ raced' \in BOOLEAN /\ failed' \in BOOLEAN
      BY <1>2 DEF IndInv, TypeOK, post_exchange, Goto, Return
    <3> QED
      BY <3>1, <3>2, <3>3, <3>4 DEF TypeOK
  <2>2. LocalInv'
    BY SMTT(30), <2>0, <1>2, <1>0, <1>types DEF IndInv, TypeOK, LocalInv, FlagOrCount, post_exchange, Goto, Return
  <2>3. FlagOrCount' /\ TokensConserved'
    BY <2>0, <1>2, <1>0, <1>types
       DEF IndInv, TypeOK, LocalInv, FlagOrCount, TokensConserved, sem_getvalue, post_exchange, Goto, Return
  <2>4. NoLostWakeup'
    BY SMTT(30), <2>0, <1>2, <1>0, <1>types, FlaggedWord DEF IndInv, TypeOK, LocalInv, FlagOrCount, NoLostWakeup, post_exchange, Goto, Return
  <2> QED
    BY <2>1, <2>2, <2>3, <2>4 DEF IndInv
<1>3. ASSUME NEW t \in Threads, post_wake(t) PROVE IndInv'
  <2>1. TypeOK'
    BY <1>3, <1>0, <1>types DEF IndInv, TypeOK, LocalInv, Labels, post_wake, sys_futex_wake_all
  <2>2. LocalInv'
    BY <1>3, <1>0, <1>types DEF IndInv, TypeOK, LocalInv, FlagOrCount, post_wake, sys_futex_wake_all
  <2>3. FlagOrCount' /\ TokensConserved'
    BY <1>3, <1>0, <1>types DEF IndInv, TypeOK, LocalInv, FlagOrCount, TokensConserved, sem_getvalue, post_wake, sys_futex_wake_all
  <2>4. NoLostWakeup'
    BY <1>3, <1>0, <1>types, FlaggedWord DEF IndInv, TypeOK, LocalInv, FlagOrCount, NoLostWakeup, post_wake, sys_futex_wake_all
  <2> QED
    BY <2>1, <2>2, <2>3, <2>4 DEF IndInv
<1>4. ASSUME NEW t \in Threads, sem_wait(t) PROVE IndInv'
  <2>1. TypeOK'
    BY <1>4, <1>0, <1>types DEF IndInv, TypeOK, LocalInv, Labels, sem_wait, Goto
  <2>2. LocalInv'
    BY <1>4, <1>0, <1>types DEF IndInv, TypeOK, LocalInv, FlagOrCount, sem_wait, Goto
  <2>3. FlagOrCount' /\ TokensConserved'
    BY <1>4, <1>0, <1>types DEF IndInv, TypeOK, LocalInv, FlagOrCount, TokensConserved, sem_getvalue, sem_wait, Goto
  <2>4. NoLostWakeup'
    BY <1>4, <1>0, <1>types, FlaggedWord DEF IndInv, TypeOK, LocalInv, FlagOrCount, NoLostWakeup, sem_wait, Goto
  <2> QED
    BY <2>1, <2>2, <2>3, <2>4 DEF IndInv
<1>5. ASSUME NEW t \in Threads, sem_timedwait(t) PROVE IndInv'
  <2>1. TypeOK'
    BY <1>5, <1>0, <1>types DEF IndInv, TypeOK, LocalInv, Labels, sem_timedwait, Goto
  <2>2. LocalInv'
    BY <1>5, <1>0, <1>types DEF IndInv, TypeOK, LocalInv, FlagOrCount, sem_timedwait, Goto
  <2>3. FlagOrCount' /\ TokensConserved'
    BY <1>5, <1>0, <1>types DEF IndInv, TypeOK, LocalInv, FlagOrCount, TokensConserved, sem_getvalue, sem_timedwait, Goto
  <2>4. NoLostWakeup'
    BY <1>5, <1>0, <1>types, FlaggedWord DEF IndInv, TypeOK, LocalInv, FlagOrCount, NoLostWakeup, sem_timedwait, Goto
  <2> QED
    BY <2>1, <2>2, <2>3, <2>4 DEF IndInv
<1>6. ASSUME NEW t \in Threads, wait_mark(t) PROVE IndInv'
  <2>1. TypeOK'
    BY <1>6, <1>0, <1>types, WaitersIsWord DEF IndInv, TypeOK, LocalInv, Labels, wait_mark, Goto
  <2>2. LocalInv'
    BY SMTT(30), <1>6, <1>0, <1>types, WaitersIsWord DEF IndInv, TypeOK, LocalInv, FlagOrCount, wait_mark, Goto
  <2>3. FlagOrCount' /\ TokensConserved'
    BY <1>6, <1>0, <1>types, WaitersIsWord DEF IndInv, TypeOK, LocalInv, FlagOrCount, TokensConserved, sem_getvalue, wait_mark, Goto
  <2>4. NoLostWakeup'
    BY <1>6, <1>0, <1>types, WaitersIsWord, FlaggedWord DEF IndInv, TypeOK, LocalInv, FlagOrCount, NoLostWakeup, wait_mark, Goto
  <2> QED
    BY <2>1, <2>2, <2>3, <2>4 DEF IndInv
<1>7. ASSUME NEW t \in Threads, wait_take(t) PROVE IndInv'
  <2>0. \/ /\ word = local[t] /\ word' \in Word /\ tokens' = tokens - 1
           /\ word'.count = word.count - 1 /\ word'.waiters = word.waiters
        \/ UNCHANGED <<word, tokens>>
    BY <1>7, <1>types, TakenWord DEF IndInv, TypeOK, LocalInv, wait_take
  <2>1. TypeOK'
    <3>1. word' \in Word /\ tokens' \in Int
      BY SMTT(30), <2>0, <1>7, <1>types DEF IndInv, TypeOK, wait_take
    <3>2. pc' \in [Threads -> Labels]
      BY <1>7 DEF IndInv, TypeOK, Labels, wait_take, Goto, Return
    <3>3. local' \in [Threads -> Word] /\ timed' \in [Threads -> BOOLEAN]
      BY <1>7, <1>0, <1>types DEF IndInv, TypeOK, wait_take, Goto, Return
    <3>4. posts' \in 0..MaxPosts /\ raced' \in BOOLEAN /\ failed' \in BOOLEAN
      BY <1>7 DEF IndInv, TypeOK, wait_take, Goto, Return
    <3> QED
      BY <3>1, <3>2, <3>3, <3>4 DEF TypeOK
  <2>2. LocalInv'
    BY <2>0, <1>7, <1>0, <1>types DEF IndInv, TypeOK, LocalInv, FlagOrCount, wait_take, Goto, Return
  <2>3. FlagOrCount' /\ TokensConserved'
    BY SMTT(30), <2>0, <1>7, <1>0, <1>types DEF IndInv, TypeOK, LocalInv, FlagOrCount, TokensConserved, sem_getvalue, wait_take, Goto, Return
  <2>4. NoLostWakeup'
    BY SMTT(30), <2>0, <1>7, <1>0, <1>types, FlaggedWord DEF IndInv, TypeOK, LocalInv, FlagOrCount, NoLostWakeup, wait_take, Goto, Return
  <2> QED
    BY <2>1, <2>2, <2>3, <2>4 DEF IndInv
<1>8. ASSUME NEW t \in Threads, wait_futex(t) PROVE IndInv'
  <2>1. TypeOK'
    BY <1>8, <1>0, <1>types DEF IndInv, TypeOK, LocalInv, Labels, wait_futex, Sleep, sys_futex_wait
  <2>2. LocalInv'
    BY <1>8, <1>0, <1>types DEF IndInv, TypeOK, LocalInv, FlagOrCount, wait_futex, Sleep, sys_futex_wait
  <2>3. FlagOrCount' /\ TokensConserved'
    BY <1>8, <1>0, <1>types DEF IndInv, TypeOK, LocalInv, FlagOrCount, TokensConserved, sem_getvalue, wait_futex, Sleep, sys_futex_wait
  <2>4. NoLostWakeup'
    BY <1>8, <1>0, <1>types, FlaggedWord DEF IndInv, TypeOK, LocalInv, FlagOrCount, NoLostWakeup, wait_futex, Sleep, sys_futex_wait
  <2> QED
    BY <2>1, <2>2, <2>3, <2>4 DEF IndInv
<1>9. ASSUME NEW t \in Threads, timedwait_futex(t) PROVE IndInv'
  <2>1. TypeOK'
    BY <1>9, <1>0, <1>types
       DEF IndInv, TypeOK, LocalInv, Labels, timedwait_futex, Goto, Return, Sleep, sys_futex_wait
  <2>2. LocalInv'
    BY SMTT(30), <1>9, <1>0, <1>types DEF IndInv, TypeOK, LocalInv, FlagOrCount, timedwait_futex, Goto, Return, Sleep, sys_futex_wait
  <2>3. FlagOrCount' /\ TokensConserved'
    BY SMTT(30), <1>9, <1>0, <1>types DEF IndInv, TypeOK, LocalInv, FlagOrCount, TokensConserved, sem_getvalue, timedwait_futex, Goto, Return, Sleep, sys_futex_wait
  <2>4. NoLostWakeup'
    BY SMTT(30), <1>9, <1>0, <1>types, FlaggedWord DEF IndInv, TypeOK, LocalInv, FlagOrCount, NoLostWakeup, timedwait_futex, Goto, Return, Sleep, sys_futex_wait
  <2> QED
    BY <2>1, <2>2, <2>3, <2>4 DEF IndInv
<1>10. ASSUME NEW t \in Threads, wait_interrupted(t) PROVE IndInv'
  <2>1. TypeOK'
    BY <1>10, <1>0, <1>types DEF IndInv, TypeOK, LocalInv, Labels, wait_interrupted, Goto, Return
  <2>2. LocalInv'
    BY <1>10, <1>0, <1>types DEF IndInv, TypeOK, LocalInv, FlagOrCount, wait_interrupted, Goto, Return
  <2>3. FlagOrCount' /\ TokensConserved'
    BY <1>10, <1>0, <1>types DEF IndInv, TypeOK, LocalInv, FlagOrCount, TokensConserved, sem_getvalue, wait_interrupted, Goto, Return
  <2>4. NoLostWakeup'
    BY <1>10, <1>0, <1>types, FlaggedWord DEF IndInv, TypeOK, LocalInv, FlagOrCount, NoLostWakeup, wait_interrupted, Goto, Return
  <2> QED
    BY <2>1, <2>2, <2>3, <2>4 DEF IndInv
<1>11. ASSUME NEW t \in Threads, sem_trywait(t) PROVE IndInv'
  <2>1. TypeOK'
    BY <1>11, <1>0, <1>types DEF IndInv, TypeOK, LocalInv, Labels, sem_trywait, Goto
  <2>2. LocalInv'
    BY <1>11, <1>0, <1>types DEF IndInv, TypeOK, LocalInv, FlagOrCount, sem_trywait, Goto
  <2>3. FlagOrCount' /\ TokensConserved'
    BY <1>11, <1>0, <1>types DEF IndInv, TypeOK, LocalInv, FlagOrCount, TokensConserved, sem_getvalue, sem_trywait, Goto
  <2>4. NoLostWakeup'
    BY <1>11, <1>0, <1>types, FlaggedWord DEF IndInv, TypeOK, LocalInv, FlagOrCount, NoLostWakeup, sem_trywait, Goto
  <2> QED
    BY <2>1, <2>2, <2>3, <2>4 DEF IndInv
<1>12. ASSUME NEW t \in Threads, try_load(t) PROVE IndInv'
  <2>1. TypeOK'
    BY <1>12, <1>0, <1>types
       DEF IndInv, TypeOK, LocalInv, Labels, try_load, Goto, Return
  <2>2. LocalInv'
    BY SMTT(30), <1>12, <1>0, <1>types DEF IndInv, TypeOK, LocalInv, FlagOrCount, try_load, Goto, Return
  <2>3. FlagOrCount' /\ TokensConserved'
    BY <1>12, <1>0, <1>types DEF IndInv, TypeOK, LocalInv, FlagOrCount, TokensConserved, sem_getvalue, try_load, Goto, Return
  <2>4. NoLostWakeup'
    BY SMTT(30), <1>12, <1>0, <1>types, FlaggedWord DEF IndInv, TypeOK, LocalInv, FlagOrCount, NoLostWakeup, try_load, Goto, Return
  <2> QED
    BY <2>1, <2>2, <2>3, <2>4 DEF IndInv
<1>13. ASSUME NEW t \in Threads, try_swap(t) PROVE IndInv'
  <2>0. \/ /\ word = local[t] /\ word' \in Word /\ tokens' = tokens - 1
           /\ word'.count = word.count - 1 /\ word'.waiters = word.waiters
        \/ UNCHANGED <<word, tokens>>
    BY <1>13, <1>types, TakenWord DEF IndInv, TypeOK, LocalInv, try_swap
  <2>1. TypeOK'
    <3>1. word' \in Word /\ tokens' \in Int
      BY SMTT(30), <2>0, <1>13, <1>types DEF IndInv, TypeOK, try_swap
    <3>2. pc' \in [Threads -> Labels]
      BY <1>13 DEF IndInv, TypeOK, Labels, try_swap, Goto, Return
    <3>3. local' \in [Threads -> Word] /\ timed' \in [Threads -> BOOLEAN]
      BY <1>13, <1>0, <1>types DEF IndInv, TypeOK, try_swap, Goto, Return
    <3>4. posts' \in 0..MaxPosts /\ raced' \in BOOLEAN /\ failed' \in BOOLEAN
      BY <1>13 DEF IndInv, TypeOK, try_swap, Goto, Return
    <3> QED
      BY <3>1, <3>2, <3>3, <3>4 DEF TypeOK
  <2>2. LocalInv'
    BY SMTT(30), <2>0, <1>13, <1>0, <1>types DEF IndInv, TypeOK, LocalInv, FlagOrCount, try_swap, Goto, Return
  <2>3. FlagOrCount' /\ TokensConserved'
    BY SMTT(30), <2>0, <1>13, <1>0, <1>types DEF IndInv, TypeOK, LocalInv, FlagOrCount, TokensConserved, sem_getvalue, try_swap, Goto, Return
  <2>4. NoLostWakeup'
    BY SMTT(30), <2>0, <1>13, <1>0, <1>types, FlaggedWord DEF IndInv, TypeOK, LocalInv, FlagOrCount, NoLostWakeup, try_swap, Goto, Return
  <2> QED
    BY <2>1, <2>2, <2>3, <2>4 DEF IndInv
<1>14. ASSUME UNCHANGED vars PROVE IndInv'
  BY <1>14 DEF vars, IndInv, TypeOK, LocalInv, FlagOrCount, TokensConserved, NoLostWakeup, sem_getvalue
<1> QED
  BY <1>1, <1>2, <1>3, <1>4, <1>5, <1>6, <1>7, <1>8, <1>9, <1>10, <1>11, <1>12, <1>13, <1>14
     DEF Next, Call, Step, Aborted

LEMMA Inductive == Spec => []IndInv
  BY InitIndInv, NextIndInv, PTL DEF Spec

(* Tokens are neither lost nor made up until posts race. *)
THEOREM TokensSafe == Spec => []TokensConserved
<1>1. IndInv => TokensConserved
  BY DEF IndInv
<1> QED
  BY Inductive, <1>1, PTL

(* Nobody who went to sleep on the flag is forgotten, not even after a     *)
(* race of posts.                                                          *)
THEOREM WakeupSafe == Spec => []NoLostWakeup
<1>1. IndInv => NoLostWakeup
  BY DEF IndInv
<1> QED
  BY Inductive, <1>1, PTL

(* The word never shows SEMAPHORE_WAITERS and a count together. *)
THEOREM FlagExcludesCount == Spec => []FlagOrCount
<1>1. IndInv => FlagOrCount
  BY DEF IndInv
<1> QED
  BY Inductive, <1>1, PTL

-----------------------------------------------------------------------------
(* The system log *)

(* Where a thread can be, and where a message can go. *)
LogPlaces == {"idle", "check", "open", "connect", "giveup", "reset", "send", "again",
              "resend", "console", "nd_open", "nd_connect", "nd_giveup", "nd_reset", "closing"}

Destinations == {"log", "libc", "console", "other", "lost"}

(* The types of the variables of the log. *)
LogTypeOK ==
  /\ log_fd \in LogFds \cup {-1}
  /\ use_libc \in BOOLEAN /\ log_cons \in BOOLEAN /\ daemon \in BOOLEAN
  /\ log_open \in [LogFds -> {"none", "socket", "log", "other"}]
  /\ sl \in [LogThreads -> LogPlaces]
  /\ logged \in [Destinations -> Nat]
  /\ log_raced \in BOOLEAN /\ closed_under \in BOOLEAN /\ was_down \in BOOLEAN /\ no_fd \in BOOLEAN

(* A connected socket has somebody at the other end. *)
DaemonInv ==
  /\ \A f \in LogFds : log_open[f] = "log" => daemon
  /\ ~was_down => daemon

(* While nobody has raced, one thread at a time opens or closes, LOG_FD    *)
(* names the only socket, and what that thread found of LOG_FD still       *)
(* holds.                                                                  *)
AloneInv ==
  ~log_raced =>
    /\ \A t, u \in LogThreads : Busy(t) /\ Busy(u) => t = u
    /\ LogSockets = IF log_fd < 0 \/ \E c \in LogThreads : Closer(c) THEN {} ELSE {log_fd}
    /\ \A t \in LogThreads : /\ sl[t] \in {"connect", "nd_connect"} => log_fd >= 0
                             /\ sl[t] \in {"open", "nd_open"} => log_fd < 0

(* Nobody's message is under way between the close and the assignment      *)
(* behind it, unless that was noted.                                       *)
UnderInv ==
  ~log_raced /\ ~closed_under =>
    \A c, u \in LogThreads : Closer(c) /\ u # c => ~UsesLog(u)

(* A connect fails only when the daemon was away. *)
ReachInv ==
  ~log_raced /\ ~was_down =>
    /\ ~use_libc
    /\ \A t \in LogThreads : sl[t] \notin {"giveup", "reset", "nd_giveup", "nd_reset"}

(* A message under way has a descriptor to be sent on, and is sent again   *)
(* over a connected one.                                                   *)
SendInv ==
  ~log_raced /\ ~closed_under /\ ~was_down /\ ~no_fd =>
    \A t \in LogThreads :
      /\ sl[t] \in {"send", "again", "resend"} => log_fd >= 0
      /\ sl[t] = "resend" => log_open[log_fd] = "log"
      /\ sl[t] # "console"

(* The inductive invariant of the log. *)
LogInv ==
  /\ LogTypeOK /\ DaemonInv /\ AloneInv /\ UnderInv /\ ReachInv /\ SendInv
  /\ NoStrayMessage /\ LogReached

-----------------------------------------------------------------------------

(* A set of numbers that is not empty has a least one. *)
LEMMA LeastNat ==
  ASSUME NEW S, S \subseteq Nat, S # {}
  PROVE  \E m \in S : \A k \in S : m <= k
<1>1. PICK m \in S : \A k \in S : ~(<<k, m>> \in OpToRel(<, Nat))
  BY NatLessThanWellFounded, WFMin
<1>2. ASSUME NEW k \in S
      PROVE  m <= k
  <2>1. ~(<<k, m>> \in OpToRel(<, Nat))
    BY <1>1
  <2>2. k \in Nat /\ m \in Nat
    OBVIOUS
  <2>3. ~(k < m)
    BY <2>1, <2>2 DEF OpToRel
  <2> QED
    BY SMTT(30), <2>2, <2>3
<1> QED
  BY <1>2

-----------------------------------------------------------------------------

(* The lowest free descriptor is a free one. *)
LEMMA LeastFd ==
  ASSUME LogTypeOK, FreeLogFds # {}
  PROVE  LowestLog \in LogFds /\ log_open[LowestLog] = "none"
<1>1. FreeLogFds \subseteq Nat
  BY LogFdsAssumption DEF FreeLogFds
<1>2. PICK m \in FreeLogFds : \A k \in FreeLogFds : m <= k
  BY <1>1, LeastNat
<1>3. LowestLog \in FreeLogFds
  BY <1>2 DEF LowestLog
<1> QED
  BY <1>3 DEF FreeLogFds

(* One thread goes on. *)
LEMMA Goes ==
  ASSUME LogTypeOK, NEW t \in LogThreads, NEW pl \in LogPlaces, SlGo(t, pl)
  PROVE  /\ sl' \in [LogThreads -> LogPlaces] /\ sl'[t] = pl
         /\ \A u \in LogThreads :
              u # t => /\ sl'[u] = sl[u]
                       /\ Busy(u)' <=> Busy(u)
                       /\ Closer(u)' <=> Closer(u)
                       /\ UsesLog(u)' <=> UsesLog(u)
<1>1. /\ sl' \in [LogThreads -> LogPlaces] /\ sl'[t] = pl
      /\ \A u \in LogThreads : u # t => sl'[u] = sl[u]
  BY DEF LogTypeOK, SlGo
<1>2. ASSUME NEW u \in LogThreads, u # t
      PROVE  (Busy(u)' <=> Busy(u)) /\ (Closer(u)' <=> Closer(u)) /\ (UsesLog(u)' <=> UsesLog(u))
  <2>1. sl'[u] = sl[u]
    BY <1>1, <1>2
  <2> QED
    BY <2>1 DEF Busy, Closer, UsesLog
<1> QED
  BY <1>1, <1>2

(* In open_log and closelog. *)
LEMMA Entered ==
  ASSUME NEW t \in LogThreads, Enters(t), LogTypeOK
  PROVE  /\ log_raced' \in BOOLEAN
         /\ ~log_raced' => ~log_raced /\ \A u \in LogThreads : u # t => ~Busy(u)
BY DEF Enters, LogTypeOK

(* What holds of LOG_FD while nobody has raced and nobody is closing. *)
LEMMA FdIsLog ==
  ASSUME LogTypeOK, AloneInv, ~log_raced, \A c \in LogThreads : ~Closer(c), log_fd >= 0
  PROVE  log_fd \in LogFds /\ log_open[log_fd] \in {"socket", "log"}
<1>1. LogSockets = {log_fd}
  <2>1. ~(log_fd < 0)
    BY SMTT(30), LogFdsAssumption DEF LogTypeOK
  <2> QED
    BY <2>1 DEF AloneInv
<1> QED
  BY <1>1 DEF LogSockets

(* While a message is under way, likewise. *)
LEMMA SendsToLog ==
  ASSUME LogTypeOK, AloneInv, UnderInv, NEW t \in LogThreads,
         sl[t] \in {"send", "again", "resend"}, ~log_raced, ~closed_under, log_fd >= 0
  PROVE  log_fd \in LogFds /\ log_open[log_fd] \in {"socket", "log"}
<1>1. UsesLog(t) /\ ~Closer(t)
  BY DEF UsesLog, Closer
<1>2. \A c \in LogThreads : ~Closer(c)
  BY <1>1 DEF UnderInv
<1> QED
  BY <1>2, FdIsLog

(* The test before open_log. *)
LEMMA EnterKeeps ==
  ASSUME LogInv, NEW t \in LogThreads, log_fd < 0, NEW pl \in {"open", "nd_open"},
         sl[t] \in {"idle", "check"}, SlGo(t, pl), Enters(t), log_cons' \in BOOLEAN,
         UNCHANGED <<log_fd, use_libc, log_open, daemon, logged, closed_under, was_down, no_fd>>
  PROVE  LogInv'
<1>0. LogTypeOK /\ DaemonInv /\ AloneInv /\ UnderInv /\ ReachInv /\ SendInv
  BY DEF LogInv
<1>1. /\ log_raced' \in BOOLEAN
      /\ ~log_raced' => ~log_raced /\ \A u \in LogThreads : u # t => ~Busy(u)
  BY <1>0, Entered
<1>2. NoStrayMessage' /\ LogReached' /\ DaemonInv'
  BY <1>0, <1>1 DEF LogInv, NoStrayMessage, LogReached, DaemonInv
<1>3. /\ sl' \in [LogThreads -> LogPlaces] /\ sl'[t] = pl
      /\ \A u \in LogThreads :
           u # t => /\ sl'[u] = sl[u]
                    /\ Busy(u)' <=> Busy(u)
                    /\ Closer(u)' <=> Closer(u)
                    /\ UsesLog(u)' <=> UsesLog(u)
  BY <1>0, Goes DEF LogPlaces
<1>4. LogTypeOK'
  BY <1>0, <1>1, <1>3 DEF LogTypeOK
<1>5. ~Closer(t)' /\ ~Closer(t)
  BY <1>3 DEF Closer
<1>6. ~log_raced' => ~log_raced /\ \A u \in LogThreads : ~Closer(u)' /\ ~Closer(u) /\ (u # t => ~Busy(u)')
  BY <1>1, <1>3, <1>5 DEF Busy
<1>7. AloneInv'
  <2> SUFFICES ASSUME ~log_raced'
               PROVE  /\ \A v, u \in LogThreads : Busy(v)' /\ Busy(u)' => v = u
                      /\ LogSockets' = {}
                      /\ \A v \in LogThreads : sl'[v] \notin {"connect", "nd_connect"}
    BY DEF AloneInv
  <2>1. LogSockets = {} /\ LogSockets' = LogSockets
    BY <1>0, <1>6 DEF AloneInv, LogSockets
  <2>2. \A v \in LogThreads : sl'[v] \notin {"connect", "nd_connect"}
    BY <1>3, <1>6 DEF Busy
  <2> QED
    BY <1>6, <2>1, <2>2
<1>8. UnderInv'
  BY <1>6 DEF UnderInv
<1>9. ReachInv' /\ SendInv'
  BY <1>0, <1>3, <1>6 DEF ReachInv, SendInv
<1> QED
  BY <1>2, <1>4, <1>7, <1>8, <1>9 DEF LogInv

(* socket in open_log, by a message or by openlog. *)
LEMMA OpenKeeps ==
  ASSUME LogInv, NEW t \in LogThreads,
         NEW opened \in {"connect", "nd_connect"}, NEW refused \in {"send", "idle"},
         sl[t] \in {"open", "nd_open"}, OpenSocket(t, opened, refused),
         UNCHANGED <<use_libc, log_cons, daemon, logged, log_raced, closed_under, was_down>>
  PROVE  LogInv'
<1>0. LogTypeOK /\ DaemonInv /\ AloneInv /\ UnderInv /\ ReachInv /\ SendInv
  BY DEF LogInv
<1>1. /\ log_raced' \in BOOLEAN
      /\ ~log_raced' => ~log_raced /\ log_fd < 0 /\ \A u \in LogThreads : u # t => ~Busy(u)
  <2>1. Busy(t)
    BY DEF Busy
  <2> QED
    BY <1>0, <2>1 DEF AloneInv, LogTypeOK
<1>2. NoStrayMessage' /\ LogReached' /\ (no_fd => no_fd')
  BY <1>1 DEF LogInv, NoStrayMessage, LogReached, OpenSocket
<1>3. CASE FreeLogFds = {}
  <2>1. log_fd' = -1 /\ no_fd' = TRUE /\ SlGo(t, refused) /\ log_open' = log_open
    BY <1>3 DEF OpenSocket
  <2>2. /\ sl' \in [LogThreads -> LogPlaces] /\ sl'[t] = refused
        /\ \A u \in LogThreads :
             u # t => /\ sl'[u] = sl[u]
                      /\ Busy(u)' <=> Busy(u)
                      /\ Closer(u)' <=> Closer(u)
                      /\ UsesLog(u)' <=> UsesLog(u)
    BY <1>0, <2>1, Goes DEF LogPlaces
  <2>3. LogTypeOK'
    BY <1>0, <1>1, <2>1, <2>2 DEF LogTypeOK
  <2>4. ~Busy(t)' /\ ~Closer(t)' /\ ~Closer(t)
    BY <2>2 DEF Busy, Closer
  <2>5. ~log_raced' => ~log_raced /\ \A u \in LogThreads : ~Busy(u)' /\ ~Closer(u)'
    BY <1>1, <2>2, <2>4 DEF Busy
  <2>6. AloneInv'
    <3> SUFFICES ASSUME ~log_raced'
                 PROVE  /\ \A v, u \in LogThreads : Busy(v)' /\ Busy(u)' => v = u
                        /\ LogSockets' = {}
                        /\ \A v \in LogThreads : sl'[v] \notin {"open", "connect", "nd_open", "nd_connect"}
      BY SMTT(30), <2>1 DEF AloneInv
    <3>1. LogSockets = {} /\ LogSockets' = LogSockets
      BY <1>0, <1>1, <2>1, <2>5 DEF AloneInv, LogSockets
    <3>2. \A v \in LogThreads : sl'[v] \notin {"open", "connect", "nd_open", "nd_connect"}
      BY <2>5 DEF Busy
    <3> QED
      BY <2>5, <3>1, <3>2
  <2>7. UnderInv'
    BY <2>5 DEF UnderInv
  <2>8. ReachInv'
    BY <1>0, <2>2, <2>5 DEF ReachInv
  <2>9. SendInv' /\ DaemonInv'
    BY <1>0, <2>1 DEF SendInv, DaemonInv
  <2> QED
    BY <1>2, <2>3, <2>6, <2>7, <2>8, <2>9 DEF LogInv
<1>4. CASE FreeLogFds # {}
  <2> DEFINE f == LowestLog
  <2>1. /\ log_fd' = f /\ no_fd' = no_fd /\ SlGo(t, opened)
        /\ log_open' = [log_open EXCEPT ![f] = "socket"]
    BY <1>4 DEF OpenSocket
  <2>2. f \in LogFds /\ log_open[f] = "none" /\ f \in Nat /\ f >= 0 /\ ~(f < 0)
    <3>1. f \in LogFds /\ log_open[f] = "none"
      BY <1>0, <1>4, LeastFd
    <3>2. f \in Nat
      BY <3>1, LogFdsAssumption
    <3> QED
      BY SMTT(30), <3>1, <3>2
  <2> HIDE DEF f
  <2>3. /\ sl' \in [LogThreads -> LogPlaces] /\ sl'[t] = opened
        /\ \A u \in LogThreads :
             u # t => /\ sl'[u] = sl[u]
                      /\ Busy(u)' <=> Busy(u)
                      /\ Closer(u)' <=> Closer(u)
                      /\ UsesLog(u)' <=> UsesLog(u)
    BY <1>0, <2>1, Goes DEF LogPlaces
  <2>4. LogTypeOK'
    BY <1>0, <1>1, <2>1, <2>2, <2>3 DEF LogTypeOK
  <2>5. ~Closer(t)' /\ ~Closer(t)
    BY <2>3 DEF Closer
  <2>6. ~log_raced' => ~log_raced /\ \A u \in LogThreads : ~Closer(u)' /\ ~Closer(u) /\ (u # t => ~Busy(u)')
    BY <1>1, <2>3, <2>5 DEF Busy
  <2>7. AloneInv'
    <3> SUFFICES ASSUME ~log_raced'
                 PROVE  /\ \A v, u \in LogThreads : Busy(v)' /\ Busy(u)' => v = u
                        /\ LogSockets' = {f}
                        /\ log_fd' >= 0
                        /\ \A v \in LogThreads : sl'[v] \notin {"open", "nd_open"}
      BY <2>1, <2>2, <2>6 DEF AloneInv
    <3>1. LogSockets = {}
      BY <1>0, <1>1, <2>6 DEF AloneInv
    <3>2. LogSockets' = {f}
      BY <1>0, <2>1, <2>2, <3>1 DEF LogSockets, LogTypeOK
    <3>3. \A v \in LogThreads : sl'[v] \notin {"open", "nd_open"}
      BY <2>3, <2>6 DEF Busy
    <3> QED
      BY <2>1, <2>2, <2>6, <3>2, <3>3
  <2>8. UnderInv'
    BY <2>6 DEF UnderInv
  <2>9. ReachInv'
    BY <1>0, <2>3, <2>6 DEF ReachInv
  <2>10. DaemonInv'
    BY <1>0, <2>1, <2>2 DEF DaemonInv, LogTypeOK
  <2>11. SendInv'
    <3> SUFFICES ASSUME ~log_raced', ~closed_under, ~was_down, ~no_fd, NEW u \in LogThreads
                 PROVE  sl'[u] # "resend" /\ sl'[u] # "console"
      BY <2>1, <2>2 DEF SendInv
    <3>1. ~log_raced
      BY <1>1
    <3>2. sl[u] # "resend" /\ sl[u] # "console"
      <4>1. /\ sl[u] \in {"send", "again", "resend"} => log_fd >= 0
            /\ sl[u] # "console"
        BY <1>0, <3>1 DEF SendInv
      <4>2. ~(log_fd >= 0)
        BY SMTT(30), <1>0, <1>1, LogFdsAssumption DEF LogTypeOK
      <4> QED
        BY <4>1, <4>2
    <3> QED
      BY <2>3, <3>2
  <2> QED
    BY <1>2, <2>4, <2>7, <2>8, <2>9, <2>10, <2>11 DEF LogInv
<1> QED
  BY <1>3, <1>4

(* connect in open_log. *)
LEMMA ConnectKeeps ==
  ASSUME LogInv, NEW t \in LogThreads,
         \/ sl[t] = "connect" /\ Connect(t, "send", "giveup")
         \/ sl[t] = "nd_connect" /\ Connect(t, "idle", "nd_giveup"),
         UNCHANGED <<log_fd, use_libc, log_cons, daemon, logged, log_raced, closed_under, was_down, no_fd>>
  PROVE  LogInv'
<1>0. LogTypeOK /\ DaemonInv /\ AloneInv /\ UnderInv /\ ReachInv /\ SendInv
  BY DEF LogInv
<1>1. NoStrayMessage' /\ LogReached'
  BY DEF LogInv, NoStrayMessage, LogReached
<1>2. Busy(t) /\ ~Closer(t)
  BY DEF Busy, Closer
<1>3. ~log_raced => /\ log_fd >= 0 /\ \A u \in LogThreads : ~Closer(u)
                /\ \A u \in LogThreads : u # t => ~Busy(u)
  BY <1>0, <1>2 DEF AloneInv, Busy
<1>4. ~log_raced => log_fd \in LogFds /\ log_open[log_fd] \in {"socket", "log"}
  BY <1>0, <1>3, FdIsLog
<1>5. CASE log_fd >= 0 /\ log_open[log_fd] \in {"socket", "log"} /\ daemon
  <2>1. PICK pl \in {"send", "idle"} :
          /\ log_open' = [log_open EXCEPT ![log_fd] = "log"] /\ SlGo(t, pl)
    BY <1>5 DEF Connect
  <2>2. /\ sl' \in [LogThreads -> LogPlaces] /\ sl'[t] = pl
        /\ \A u \in LogThreads :
             u # t => /\ sl'[u] = sl[u]
                      /\ Busy(u)' <=> Busy(u)
                      /\ Closer(u)' <=> Closer(u)
                      /\ UsesLog(u)' <=> UsesLog(u)
    BY <1>0, <2>1, Goes DEF LogPlaces
  <2>3. LogTypeOK'
    BY <1>0, <2>1, <2>2 DEF LogTypeOK
  <2>4. ~Busy(t)' /\ ~Closer(t)'
    BY <2>2 DEF Busy, Closer
  <2>5. ~log_raced => \A u \in LogThreads : ~Closer(u)' /\ ~Busy(u)'
    BY <1>3, <2>2, <2>4
  <2>6. log_fd \in LogFds
    BY SMTT(30), <1>0, <1>5, LogFdsAssumption DEF LogTypeOK
  <2>7. LogSockets' = LogSockets
    BY <1>0, <1>5, <2>1, <2>6 DEF LogSockets, LogTypeOK
  <2>8. AloneInv'
    <3> SUFFICES ASSUME ~log_raced
                 PROVE  /\ \A v, u \in LogThreads : Busy(v)' /\ Busy(u)' => v = u
                        /\ LogSockets' = IF log_fd < 0 \/ \E c \in LogThreads : Closer(c)' THEN {} ELSE {log_fd}
                        /\ \A v \in LogThreads :
                             /\ sl'[v] \in {"connect", "nd_connect"} => log_fd >= 0
                             /\ sl'[v] \in {"open", "nd_open"} => log_fd < 0
      BY DEF AloneInv
    <3>1. LogSockets = IF log_fd < 0 \/ \E c \in LogThreads : Closer(c) THEN {} ELSE {log_fd}
      BY <1>0 DEF AloneInv
    <3>2. \A v \in LogThreads : sl'[v] \notin {"open", "nd_open"}
      BY <2>5 DEF Busy
    <3> QED
      BY <1>3, <2>5, <2>7, <3>1, <3>2
  <2>9. UnderInv'
    BY <2>5 DEF UnderInv
  <2>10. ReachInv'
    BY <1>0, <2>2 DEF ReachInv
  <2>11. DaemonInv'
    BY <1>0, <1>5, <2>1 DEF DaemonInv, LogTypeOK
  <2>12. SendInv'
    BY <1>0, <1>5, <2>1, <2>2, <2>6 DEF SendInv, LogTypeOK
  <2> QED
    BY <1>1, <2>3, <2>8, <2>9, <2>10, <2>11, <2>12 DEF LogInv
<1>6. CASE ~(log_fd >= 0 /\ log_open[log_fd] \in {"socket", "log"} /\ daemon)
  <2>1. log_open' = log_open
    BY <1>6 DEF Connect
  <2>2. PICK pl \in {"giveup", "nd_giveup"} :
          SlGo(t, pl) /\ (pl = "giveup" => sl[t] = "connect")
    BY <1>6 DEF Connect
  <2>3. /\ sl' \in [LogThreads -> LogPlaces] /\ sl'[t] = pl
        /\ \A u \in LogThreads :
             u # t => /\ sl'[u] = sl[u]
                      /\ Busy(u)' <=> Busy(u)
                      /\ Closer(u)' <=> Closer(u)
                      /\ UsesLog(u)' <=> UsesLog(u)
    BY <1>0, <2>2, Goes DEF LogPlaces
  <2>4. LogTypeOK'
    BY <1>0, <2>1, <2>3 DEF LogTypeOK
  <2>5. ~Closer(t)'
    BY <2>3 DEF Closer
  <2>6. ~log_raced => \A u \in LogThreads : ~Closer(u)' /\ (u # t => ~Busy(u)')
    BY <1>3, <2>3, <2>5
  <2>7. ~log_raced => was_down
    BY <1>0, <1>3, <1>4, <1>6 DEF DaemonInv
  <2>8. AloneInv'
    <3> SUFFICES ASSUME ~log_raced
                 PROVE  /\ \A v, u \in LogThreads : Busy(v)' /\ Busy(u)' => v = u
                        /\ LogSockets' = IF log_fd < 0 \/ \E c \in LogThreads : Closer(c)' THEN {} ELSE {log_fd}
                        /\ \A v \in LogThreads :
                             /\ sl'[v] \in {"connect", "nd_connect"} => log_fd >= 0
                             /\ sl'[v] \in {"open", "nd_open"} => log_fd < 0
      BY DEF AloneInv
    <3>1. LogSockets = IF log_fd < 0 \/ \E c \in LogThreads : Closer(c) THEN {} ELSE {log_fd}
      BY <1>0 DEF AloneInv
    <3>2. LogSockets' = LogSockets
      BY <2>1 DEF LogSockets
    <3>3. \A v \in LogThreads : sl'[v] \notin {"open", "nd_open"}
      BY <2>3, <2>6 DEF Busy
    <3> QED
      BY <1>3, <2>6, <3>1, <3>2, <3>3
  <2>9. UnderInv'
    BY <2>6 DEF UnderInv
  <2>10. ReachInv' /\ SendInv'
    BY <2>7 DEF ReachInv, SendInv
  <2>11. DaemonInv'
    BY <1>0, <2>1 DEF DaemonInv
  <2> QED
    BY <1>1, <2>4, <2>8, <2>9, <2>10, <2>11 DEF LogInv
<1> QED
  BY <1>5, <1>6

(* close, by closelog or after a refused connect. *)
LEMMA CloseKeeps ==
  ASSUME LogInv, NEW t \in LogThreads, NEW pl \in {"reset", "nd_reset", "closing"}, CloseFd(t, pl),
         \/ sl[t] \in {"giveup", "nd_giveup"} /\ log_raced' = log_raced
         \/ sl[t] = "idle" /\ pl = "closing" /\ Enters(t),
         UNCHANGED <<log_fd, use_libc, log_cons, daemon, logged, was_down, no_fd>>
  PROVE  LogInv'
<1>0. LogTypeOK /\ DaemonInv /\ AloneInv /\ UnderInv /\ ReachInv /\ SendInv
  BY DEF LogInv
<1>1. /\ log_raced' \in BOOLEAN
      /\ ~log_raced' => ~log_raced /\ \A u \in LogThreads : u # t => ~Busy(u)
  <2>1. CASE sl[t] \in {"giveup", "nd_giveup"} /\ log_raced' = log_raced
    <3>1. Busy(t)
      BY <2>1 DEF Busy
    <3>2. log_raced' \in BOOLEAN /\ (~log_raced' => ~log_raced)
      BY <1>0, <2>1 DEF LogTypeOK
    <3>3. ~log_raced => \A u \in LogThreads : u # t => ~Busy(u)
      BY <1>0, <3>1 DEF AloneInv
    <3> QED
      BY <3>2, <3>3
  <2>2. CASE sl[t] = "idle" /\ pl = "closing" /\ Enters(t)
    BY <1>0, <2>2, Entered
  <2> QED
    BY <2>1, <2>2
<1>2. /\ closed_under' \in BOOLEAN
      /\ ~closed_under' => ~closed_under /\ \A u \in LogThreads : u # t => ~UsesLog(u)
  BY <1>0 DEF CloseFd, LogTypeOK
<1>3. NoStrayMessage' /\ LogReached'
  BY <1>1, <1>2 DEF LogInv, NoStrayMessage, LogReached
<1>4. log_open' = IF log_fd >= 0 THEN [log_open EXCEPT ![log_fd] = "none"] ELSE log_open
  BY DEF CloseFd
<1>5. /\ sl' \in [LogThreads -> LogPlaces] /\ sl'[t] = pl
      /\ \A u \in LogThreads :
           u # t => /\ sl'[u] = sl[u]
                    /\ Busy(u)' <=> Busy(u)
                    /\ Closer(u)' <=> Closer(u)
                    /\ UsesLog(u)' <=> UsesLog(u)
  <2>1. SlGo(t, pl)
    BY DEF CloseFd
  <2> QED
    BY <1>0, <2>1, Goes DEF LogPlaces
<1>6. log_open' \in [LogFds -> {"none", "socket", "log", "other"}]
      /\ \A f \in LogFds : log_open'[f] = IF f = log_fd THEN "none" ELSE log_open[f]
  <2>1. CASE log_fd >= 0
    <3>1. log_fd \in LogFds
      BY SMTT(30), <1>0, <2>1 DEF LogTypeOK
    <3> QED
      BY <1>0, <1>4, <2>1, <3>1 DEF LogTypeOK
  <2>2. CASE ~(log_fd >= 0)
    <3>1. \A f \in LogFds : f # log_fd
      BY SMTT(30), <2>2, LogFdsAssumption
    <3> QED
      BY <1>0, <1>4, <2>2, <3>1 DEF LogTypeOK
  <2> QED
    BY <2>1, <2>2
<1>7. LogTypeOK'
  BY <1>0, <1>1, <1>2, <1>5, <1>6 DEF LogTypeOK
<1>8. Closer(t)'
  BY <1>5 DEF Closer
<1>9. AloneInv'
  <2> SUFFICES ASSUME ~log_raced'
               PROVE  /\ \A v, u \in LogThreads : Busy(v)' /\ Busy(u)' => v = u
                      /\ LogSockets' = {}
                      /\ \A v \in LogThreads : sl'[v] \notin {"open", "connect", "nd_open", "nd_connect"}
    BY <1>8 DEF AloneInv
  <2>1. \A u \in LogThreads : u # t => ~Busy(u)'
    BY <1>1, <1>5
  <2>2. \A v \in LogThreads : sl'[v] \notin {"open", "connect", "nd_open", "nd_connect"}
    BY <1>5, <2>1 DEF Busy
  <2>3. LogSockets \subseteq {log_fd}
    BY <1>0, <1>1 DEF AloneInv
  <2>4. LogSockets' = {}
    BY <1>6, <2>3 DEF LogSockets
  <2> QED
    BY <2>1, <2>2, <2>4
<1>10. UnderInv'
  <2> SUFFICES ASSUME ~log_raced', ~closed_under', NEW c \in LogThreads, NEW u \in LogThreads,
                      Closer(c)', u # c
               PROVE  ~UsesLog(u)'
    BY DEF UnderInv
  <2>1. c = t
    BY <1>1, <1>5 DEF Busy
  <2> QED
    BY <1>2, <1>5, <2>1
<1>11. ReachInv'
  <2> SUFFICES ASSUME ~log_raced', ~was_down
               PROVE  /\ ~use_libc
                      /\ \A u \in LogThreads : sl'[u] \notin {"giveup", "reset", "nd_giveup", "nd_reset"}
    BY DEF ReachInv
  <2>1. /\ ~use_libc
        /\ \A u \in LogThreads : sl[u] \notin {"giveup", "reset", "nd_giveup", "nd_reset"}
    BY <1>0, <1>1 DEF ReachInv
  <2>2. pl = "closing"
    BY <2>1
  <2> QED
    BY <1>5, <2>1, <2>2
<1>12. SendInv'
  <2> SUFFICES ASSUME ~log_raced', ~closed_under', ~was_down, ~no_fd, NEW u \in LogThreads
               PROVE  sl'[u] \notin {"send", "again", "resend", "console"}
    BY DEF SendInv
  <2>1. CASE u = t
    BY <1>5, <2>1
  <2>2. CASE u # t
    <3>1. sl[u] # "console"
      BY <1>0, <1>1, <1>2 DEF SendInv
    <3>2. ~UsesLog(u)
      BY <1>2, <2>2
    <3> QED
      BY <1>5, <2>2, <3>1, <3>2 DEF UsesLog
  <2> QED
    BY <2>1, <2>2
<1>13. DaemonInv'
  BY <1>0, <1>6 DEF DaemonInv
<1> QED
  BY <1>3, <1>7, <1>9, <1>10, <1>11, <1>12, <1>13 DEF LogInv

(* LOG_FD = -1, behind the close. *)
LEMMA ResetsKeep ==
  ASSUME LogInv, NEW t \in LogThreads, NEW pl \in {"send", "idle"},
         Closer(t), SlGo(t, pl), log_fd' = -1,
         \/ sl[t] \in {"reset", "nd_reset"} /\ use_libc' = TRUE
         \/ sl[t] = "closing" /\ pl = "idle" /\ use_libc' = use_libc,
         UNCHANGED <<log_cons, log_open, daemon, logged, log_raced, closed_under, was_down, no_fd>>
  PROVE  LogInv'
<1>0. LogTypeOK /\ DaemonInv /\ AloneInv /\ UnderInv /\ ReachInv /\ SendInv
  BY DEF LogInv
<1>1. NoStrayMessage' /\ LogReached' /\ DaemonInv'
  BY DEF LogInv, NoStrayMessage, LogReached, DaemonInv
<1>2. /\ sl' \in [LogThreads -> LogPlaces] /\ sl'[t] = pl
      /\ \A u \in LogThreads :
           u # t => /\ sl'[u] = sl[u]
                    /\ Busy(u)' <=> Busy(u)
                    /\ Closer(u)' <=> Closer(u)
                    /\ UsesLog(u)' <=> UsesLog(u)
  BY <1>0, Goes DEF LogPlaces
<1>3. use_libc' \in BOOLEAN
  BY <1>0 DEF LogTypeOK
<1>4. LogTypeOK'
  BY <1>0, <1>2, <1>3 DEF LogTypeOK
<1>5. ~Busy(t)'
  BY <1>2 DEF Busy, Closer
<1>6. ~log_raced => \A u \in LogThreads : ~Busy(u)'
  BY <1>0, <1>2, <1>5 DEF AloneInv, Busy
<1>7. AloneInv'
  <2> SUFFICES ASSUME ~log_raced
               PROVE  /\ \A v, u \in LogThreads : Busy(v)' /\ Busy(u)' => v = u
                      /\ LogSockets' = {}
                      /\ \A v \in LogThreads : sl'[v] \notin {"open", "connect", "nd_open", "nd_connect"}
    BY SMTT(30) DEF AloneInv
  <2>1. LogSockets = {}
    BY <1>0 DEF AloneInv
  <2>2. LogSockets' = LogSockets
    BY DEF LogSockets
  <2>3. \A v \in LogThreads : sl'[v] \notin {"open", "connect", "nd_open", "nd_connect"}
    BY <1>6 DEF Busy
  <2> QED
    BY <1>6, <2>1, <2>2, <2>3
<1>8. UnderInv'
  BY <1>6 DEF UnderInv, Busy
<1>9. ReachInv'
  <2> SUFFICES ASSUME ~log_raced, ~was_down
               PROVE  /\ ~use_libc'
                      /\ \A u \in LogThreads : sl'[u] \notin {"giveup", "reset", "nd_giveup", "nd_reset"}
    BY DEF ReachInv
  <2>1. /\ ~use_libc
        /\ \A u \in LogThreads : sl[u] \notin {"giveup", "reset", "nd_giveup", "nd_reset"}
    BY <1>0 DEF ReachInv
  <2>2. use_libc' = use_libc
    BY <2>1
  <2> QED
    BY <1>2, <2>1, <2>2
<1>10. SendInv'
  <2> SUFFICES ASSUME ~log_raced, ~closed_under, ~was_down, ~no_fd, NEW u \in LogThreads
               PROVE  sl'[u] \notin {"send", "again", "resend", "console"}
    BY DEF SendInv
  <2>1. CASE u = t
    <3>1. sl[t] \notin {"giveup", "reset", "nd_giveup", "nd_reset"}
      BY <1>0 DEF ReachInv
    <3>2. pl = "idle"
      BY <3>1
    <3> QED
      BY <1>2, <2>1, <3>2
  <2>2. CASE u # t
    <3>1. sl[u] # "console"
      BY <1>0 DEF SendInv
    <3>2. ~UsesLog(u)
      BY <1>0, <2>2 DEF UnderInv
    <3> QED
      BY <1>2, <2>2, <3>1, <3>2 DEF UsesLog
  <2> QED
    BY <2>1, <2>2
<1> QED
  BY <1>1, <1>4, <1>7, <1>8, <1>9, <1>10 DEF LogInv

(* A thread goes on and leaves the descriptor alone: what this keeps.  It  *)
(* may begin a message only where nobody is closing, or this is noted.     *)
LEMMA PassKeeps ==
  ASSUME LogInv, NEW t \in LogThreads, NEW pl \in {"idle", "check", "send", "again", "console"},
         SlGo(t, pl), ~Busy(t), log_cons' \in BOOLEAN, closed_under' \in BOOLEAN,
         logged' \in [Destinations -> Nat],
         UNCHANGED <<log_fd, use_libc, log_open, daemon, log_raced, was_down, no_fd>>,
         ~closed_under' => ~closed_under,
         ~log_raced /\ ~closed_under' /\ UsesLog(t)' => \A u \in LogThreads : u # t => ~Closer(u)
  PROVE  /\ LogTypeOK'
         /\ DaemonInv' /\ AloneInv' /\ UnderInv' /\ ReachInv'
         /\ sl'[t] = pl /\ \A u \in LogThreads : u # t => sl'[u] = sl[u]
<1>0. LogTypeOK /\ DaemonInv /\ AloneInv /\ UnderInv /\ ReachInv
  BY DEF LogInv
<1>1. /\ sl' \in [LogThreads -> LogPlaces] /\ sl'[t] = pl
      /\ \A u \in LogThreads :
           u # t => /\ sl'[u] = sl[u]
                    /\ Busy(u)' <=> Busy(u)
                    /\ Closer(u)' <=> Closer(u)
                    /\ UsesLog(u)' <=> UsesLog(u)
  BY <1>0, Goes DEF LogPlaces
<1>2. LogTypeOK'
  BY <1>0, <1>1 DEF LogTypeOK
<1>3. ~Busy(t)' /\ ~Closer(t)' /\ ~Closer(t)
  BY <1>1 DEF Busy, Closer
<1>4. (\E c \in LogThreads : Closer(c)') <=> (\E c \in LogThreads : Closer(c))
  BY <1>1, <1>3
<1>5. AloneInv'
  <2> SUFFICES ASSUME ~log_raced
               PROVE  /\ \A v, u \in LogThreads : Busy(v)' /\ Busy(u)' => v = u
                      /\ LogSockets' = IF log_fd < 0 \/ \E c \in LogThreads : Closer(c)' THEN {} ELSE {log_fd}
                      /\ \A v \in LogThreads :
                           /\ sl'[v] \in {"connect", "nd_connect"} => log_fd >= 0
                           /\ sl'[v] \in {"open", "nd_open"} => log_fd < 0
    BY DEF AloneInv
  <2>1. LogSockets' = LogSockets
    BY DEF LogSockets
  <2>2. \A v, u \in LogThreads : Busy(v)' /\ Busy(u)' => v = u
    BY <1>0, <1>1, <1>3 DEF AloneInv
  <2>3. \A v \in LogThreads :
          /\ sl'[v] \in {"connect", "nd_connect"} => log_fd >= 0
          /\ sl'[v] \in {"open", "nd_open"} => log_fd < 0
    BY <1>0, <1>1 DEF AloneInv
  <2>4. LogSockets = IF log_fd < 0 \/ \E c \in LogThreads : Closer(c) THEN {} ELSE {log_fd}
    BY <1>0 DEF AloneInv
  <2> QED
    BY <1>4, <2>1, <2>2, <2>3, <2>4
<1>6. UnderInv'
  <2> SUFFICES ASSUME ~log_raced, ~closed_under', NEW c \in LogThreads, NEW u \in LogThreads,
                      Closer(c)', u # c
               PROVE  ~UsesLog(u)'
    BY DEF UnderInv
  <2>1. c # t /\ Closer(c)
    BY <1>1, <1>3
  <2>2. CASE u = t
    BY <2>1, <2>2
  <2>3. CASE u # t
    BY <1>0, <1>1, <2>1, <2>3 DEF UnderInv
  <2> QED
    BY <2>2, <2>3
<1>7. ReachInv'
  BY <1>0, <1>1 DEF ReachInv
<1>8. DaemonInv'
  BY <1>0 DEF DaemonInv
<1> QED
  BY <1>1, <1>2, <1>5, <1>6, <1>7, <1>8

(* A message is counted where it went. *)
LEMMA Counted ==
  ASSUME LogTypeOK, NEW d \in Destinations, Logged(d)
  PROVE  /\ logged' \in [Destinations -> Nat]
         /\ \A e \in Destinations : e # d => logged'[e] = logged[e]
BY SMTT(30) DEF LogTypeOK, Logged, Destinations

(* A message begins, or is printed by libc itself. *)
LEMMA VsyslogKeeps ==
  ASSUME LogInv, NEW t \in LogThreads, vsyslog(t)
  PROVE  LogInv'
<1>0. LogTypeOK /\ DaemonInv /\ AloneInv /\ UnderInv /\ ReachInv /\ SendInv
  BY DEF LogInv
<1>1. /\ sl[t] = "idle"
      /\ UNCHANGED <<log_fd, use_libc, log_cons, log_open, daemon, log_raced, was_down, no_fd>>
  BY DEF vsyslog
<1>2. ~Busy(t)
  BY <1>1 DEF Busy, Closer
<1>3. CASE use_libc
  <2>1. Logged("libc") /\ sl' = sl /\ closed_under' = closed_under
    BY <1>3 DEF vsyslog
  <2>2. log_raced \/ was_down
    BY <1>0, <1>3 DEF ReachInv
  <2>3. /\ logged' \in [Destinations -> Nat]
        /\ logged'["other"] = logged["other"]
    BY <1>0, <2>1, Counted DEF Destinations
  <2>4. NoStrayMessage' /\ LogReached'
    BY <1>1, <2>1, <2>2, <2>3 DEF LogInv, NoStrayMessage, LogReached
  <2>5. LogTypeOK'
    BY <1>0, <1>1, <2>1, <2>3 DEF LogTypeOK
  <2>6. DaemonInv' /\ ReachInv' /\ SendInv'
    BY <1>0, <1>1, <2>1 DEF DaemonInv, ReachInv, SendInv
  <2>7. AloneInv' /\ UnderInv'
    BY <1>0, <1>1, <2>1 DEF AloneInv, UnderInv, Busy, Closer, UsesLog, LogSockets
  <2> QED
    BY <2>4, <2>5, <2>6, <2>7 DEF LogInv
<1>4. CASE ~use_libc
  <2>1. /\ SlGo(t, "check") /\ logged' = logged
        /\ closed_under' = (closed_under \/ \E u \in LogThreads \ {t} : Closer(u))
    BY <1>4 DEF vsyslog
  <2>2. /\ closed_under' \in BOOLEAN
        /\ ~closed_under' => ~closed_under /\ \A u \in LogThreads : u # t => ~Closer(u)
    BY <1>0, <2>1 DEF LogTypeOK
  <2>3. /\ LogTypeOK'
        /\ DaemonInv' /\ AloneInv' /\ UnderInv' /\ ReachInv'
        /\ sl'[t] = "check" /\ \A u \in LogThreads : u # t => sl'[u] = sl[u]
    <3>1. log_cons' \in BOOLEAN /\ logged' \in [Destinations -> Nat]
      BY <1>0, <1>1, <2>1 DEF LogTypeOK
    <3> QED
      BY <1>1, <1>2, <2>1, <2>2, <3>1, PassKeeps
  <2>5. NoStrayMessage' /\ LogReached'
    BY <1>1, <2>1, <2>2 DEF LogInv, NoStrayMessage, LogReached
  <2>6. SendInv'
    BY <1>0, <1>1, <2>2, <2>3 DEF SendInv
  <2> QED
    BY <2>3, <2>5, <2>6 DEF LogInv
<1> QED
  BY <1>3, <1>4

(* The rest of a message: nothing changes but where t is and the counts. *)
LEMMA MessageKeeps ==
  ASSUME LogInv, NEW t \in LogThreads, sl[t] \in {"check", "send", "again", "resend", "console"},
         NEW pl \in {"idle", "send", "again", "console"}, SlGo(t, pl),
         logged' \in [Destinations -> Nat], NoStrayMessage', LogReached',
         pl = "send" => sl[t] = "check" /\ log_fd >= 0,
         pl = "again" => sl[t] = "send" /\ log_fd >= 0,
         pl = "console" => log_raced \/ closed_under \/ was_down \/ no_fd,
         UNCHANGED <<log_fd, use_libc, log_cons, log_open, daemon, log_raced, closed_under, was_down, no_fd>>
  PROVE  LogInv'
<1>0. LogTypeOK /\ UnderInv /\ SendInv
  BY DEF LogInv
<1>1. ~Busy(t)
  BY DEF Busy, Closer
<1>2. log_cons' \in BOOLEAN /\ closed_under' \in BOOLEAN
  BY <1>0 DEF LogTypeOK
<1>3. ~log_raced /\ ~closed_under' /\ UsesLog(t)' => \A u \in LogThreads : u # t => ~Closer(u)
  <2> SUFFICES ASSUME ~log_raced, ~closed_under, UsesLog(t)'
               PROVE  \A u \in LogThreads : u # t => ~Closer(u)
    OBVIOUS
  <2>1. sl'[t] = pl
    BY <1>0 DEF LogTypeOK, SlGo
  <2>2. UsesLog(t)
    BY <2>1 DEF UsesLog
  <2> QED
    BY <1>0, <2>2 DEF UnderInv
<1>4. /\ LogTypeOK' /\ DaemonInv' /\ AloneInv' /\ UnderInv' /\ ReachInv'
      /\ sl'[t] = pl /\ \A u \in LogThreads : u # t => sl'[u] = sl[u]
  BY <1>1, <1>2, <1>3, PassKeeps
<1>5. SendInv'
  <2> SUFFICES ASSUME ~log_raced, ~closed_under, ~was_down, ~no_fd, NEW u \in LogThreads
               PROVE  /\ sl'[u] \in {"send", "again", "resend"} => log_fd >= 0
                      /\ sl'[u] = "resend" => log_open[log_fd] = "log"
                      /\ sl'[u] # "console"
    BY DEF SendInv
  <2>1. CASE u = t
    BY <1>4, <2>1
  <2>2. CASE u # t
    BY <1>0, <1>4, <2>2 DEF SendInv
  <2> QED
    BY <2>1, <2>2
<1> QED
  BY <1>4, <1>5 DEF LogInv

(* A message that could not be sent, or was sent to another file: this     *)
(* happens only where it may.                                              *)
LEMMA FailedKeeps ==
  ASSUME LogInv, NEW t \in LogThreads, sl[t] \in {"send", "again", "resend"}, LogFailed(t),
         log_raced \/ closed_under \/ was_down \/ no_fd,
         UNCHANGED <<log_fd, use_libc, log_cons, log_open, daemon, log_raced, closed_under, was_down, no_fd>>
  PROVE  LogInv'
<1>0. LogTypeOK
  BY DEF LogInv
<1>1. LogReached'
  BY DEF LogReached
<1>2. CASE log_cons
  <2>1. SlGo(t, "console") /\ logged' = logged
    BY <1>2 DEF LogFailed
  <2>2. NoStrayMessage' /\ logged' \in [Destinations -> Nat]
    BY <1>0, <2>1 DEF LogInv, NoStrayMessage, LogTypeOK
  <2> QED
    BY <1>1, <2>1, <2>2, MessageKeeps
<1>3. CASE ~log_cons
  <2>1. SlGo(t, "idle") /\ Logged("lost")
    BY <1>3 DEF LogFailed
  <2>2. logged' \in [Destinations -> Nat] /\ logged'["other"] = logged["other"]
    BY <1>0, <2>1, Counted DEF Destinations
  <2>3. NoStrayMessage'
    BY <2>2 DEF LogInv, NoStrayMessage
  <2> QED
    BY <1>1, <2>1, <2>2, <2>3, MessageKeeps
<1> QED
  BY <1>2, <1>3

(* send, on whatever LOG_FD is by now. *)
LEMMA SendKeeps ==
  ASSUME LogInv, NEW t \in LogThreads, log_send(t)
  PROVE  LogInv'
<1>0. LogTypeOK /\ AloneInv /\ UnderInv /\ SendInv
  BY DEF LogInv
<1>1. /\ sl[t] \in {"send", "resend"}
      /\ UNCHANGED <<log_fd, use_libc, log_cons, log_open, daemon, log_raced, closed_under, was_down, no_fd>>
  BY DEF log_send
<1>2. ~log_raced /\ ~closed_under /\ log_fd >= 0 => log_open[log_fd] \in {"socket", "log"}
  BY <1>0, <1>1, SendsToLog
<1>3. CASE log_fd >= 0 /\ log_open[log_fd] = "other"
  <2>1. SlGo(t, "idle") /\ Logged("other")
    BY <1>3 DEF log_send
  <2>2. log_raced \/ closed_under
    BY <1>2, <1>3
  <2>3. logged' \in [Destinations -> Nat]
    BY <1>0, <2>1, Counted DEF Destinations
  <2>4. NoStrayMessage' /\ LogReached'
    BY <1>1, <2>2 DEF NoStrayMessage, LogReached
  <2> QED
    BY <1>1, <2>1, <2>3, <2>4, MessageKeeps
<1>4. CASE log_fd >= 0 /\ log_open[log_fd] = "log"
  <2>1. SlGo(t, "idle") /\ Logged("log")
    BY <1>4 DEF log_send
  <2>2. /\ logged' \in [Destinations -> Nat] /\ logged'["other"] = logged["other"]
        /\ logged'["libc"] = logged["libc"] /\ logged'["console"] = logged["console"]
        /\ logged'["lost"] = logged["lost"]
    BY <1>0, <2>1, Counted DEF Destinations
  <2>3. NoStrayMessage' /\ LogReached'
    BY <1>1, <2>2 DEF LogInv, NoStrayMessage, LogReached
  <2> QED
    BY <1>1, <2>1, <2>2, <2>3, MessageKeeps
<1>5. CASE log_fd >= 0 /\ log_open[log_fd] = "socket" /\ sl[t] = "send"
  <2>1. SlGo(t, "again") /\ logged' = logged
    BY <1>5 DEF log_send
  <2>2. logged' \in [Destinations -> Nat] /\ NoStrayMessage' /\ LogReached'
    BY <1>0, <1>1, <2>1 DEF LogInv, NoStrayMessage, LogReached, LogTypeOK
  <2> QED
    BY <1>1, <1>5, <2>1, <2>2, MessageKeeps
<1>6. CASE /\ ~(log_fd >= 0 /\ log_open[log_fd] = "other")
           /\ ~(log_fd >= 0 /\ log_open[log_fd] = "log")
           /\ ~(log_fd >= 0 /\ log_open[log_fd] = "socket" /\ sl[t] = "send")
  <2>1. LogFailed(t)
    BY <1>6 DEF log_send
  <2>2. log_raced \/ closed_under \/ was_down \/ no_fd
    BY <1>0, <1>1, <1>2, <1>6 DEF SendInv
  <2> QED
    BY <1>1, <2>1, <2>2, FailedKeeps
<1> QED
  BY <1>3, <1>4, <1>5, <1>6

(* The socket is connected again, once. *)
LEMMA AgainKeeps ==
  ASSUME LogInv, NEW t \in LogThreads, log_again(t)
  PROVE  LogInv'
<1>0. LogTypeOK /\ DaemonInv /\ AloneInv /\ UnderInv /\ ReachInv /\ SendInv
  BY DEF LogInv
<1>1. /\ sl[t] = "again"
      /\ UNCHANGED <<log_fd, use_libc, log_cons, daemon, log_raced, closed_under, was_down, no_fd>>
  BY DEF log_again
<1>2. CASE log_fd >= 0 /\ log_open[log_fd] \in {"socket", "log"} /\ daemon
  <2>1. /\ log_open' = [log_open EXCEPT ![log_fd] = "log"]
        /\ SlGo(t, "resend") /\ logged' = logged
    BY <1>2 DEF log_again
  <2>2. /\ sl' \in [LogThreads -> LogPlaces] /\ sl'[t] = "resend"
        /\ \A u \in LogThreads :
             u # t => /\ sl'[u] = sl[u]
                      /\ Busy(u)' <=> Busy(u)
                      /\ Closer(u)' <=> Closer(u)
                      /\ UsesLog(u)' <=> UsesLog(u)
    BY <1>0, <2>1, Goes DEF LogPlaces
  <2>3. LogTypeOK'
    BY <1>0, <1>1, <2>1, <2>2 DEF LogTypeOK
  <2>4. ~Busy(t) /\ ~Busy(t)' /\ ~Closer(t) /\ ~Closer(t)' /\ UsesLog(t)
    BY <1>1, <2>2 DEF Busy, Closer, UsesLog
  <2>5. (\E c \in LogThreads : Closer(c)') <=> (\E c \in LogThreads : Closer(c))
    BY <2>2, <2>4
  <2>6. log_fd \in LogFds
    BY SMTT(30), <1>0, <1>2, LogFdsAssumption DEF LogTypeOK
  <2>7. LogSockets' = LogSockets
    BY <1>0, <1>2, <2>1, <2>6 DEF LogSockets, LogTypeOK
  <2>8. AloneInv'
    <3> SUFFICES ASSUME ~log_raced
                 PROVE  /\ \A v, u \in LogThreads : Busy(v)' /\ Busy(u)' => v = u
                        /\ LogSockets' = IF log_fd < 0 \/ \E c \in LogThreads : Closer(c)' THEN {} ELSE {log_fd}
                        /\ \A v \in LogThreads :
                             /\ sl'[v] \in {"connect", "nd_connect"} => log_fd >= 0
                             /\ sl'[v] \in {"open", "nd_open"} => log_fd < 0
      BY <1>1 DEF AloneInv
    <3>1. LogSockets = IF log_fd < 0 \/ \E c \in LogThreads : Closer(c) THEN {} ELSE {log_fd}
      BY <1>0 DEF AloneInv
    <3>2. \A v, u \in LogThreads : Busy(v)' /\ Busy(u)' => v = u
      BY <1>0, <2>2, <2>4 DEF AloneInv
    <3>3. \A v \in LogThreads :
            /\ sl'[v] \in {"connect", "nd_connect"} => log_fd >= 0
            /\ sl'[v] \in {"open", "nd_open"} => log_fd < 0
      BY <1>0, <2>2 DEF AloneInv
    <3> QED
      BY <2>5, <2>7, <3>1, <3>2, <3>3
  <2>9. UnderInv'
    BY <1>0, <1>1, <2>2, <2>4 DEF UnderInv
  <2>10. ReachInv'
    BY <1>0, <1>1, <2>2 DEF ReachInv
  <2>11. DaemonInv'
    BY <1>0, <1>1, <1>2, <2>1 DEF DaemonInv, LogTypeOK
  <2>12. SendInv'
    BY <1>0, <1>1, <1>2, <2>1, <2>2, <2>6 DEF SendInv, LogTypeOK
  <2>13. NoStrayMessage' /\ LogReached'
    BY <1>1, <2>1 DEF LogInv, NoStrayMessage, LogReached
  <2> QED
    BY <2>3, <2>8, <2>9, <2>10, <2>11, <2>12, <2>13 DEF LogInv
<1>3. CASE ~(log_fd >= 0 /\ log_open[log_fd] \in {"socket", "log"} /\ daemon)
  <2>1. LogFailed(t) /\ log_open' = log_open
    BY <1>3 DEF log_again
  <2>2. ~log_raced /\ ~closed_under /\ log_fd >= 0 => log_open[log_fd] \in {"socket", "log"}
    BY <1>0, <1>1, SendsToLog
  <2>3. log_raced \/ closed_under \/ was_down \/ no_fd
    BY <1>0, <1>1, <1>3, <2>2 DEF SendInv, DaemonInv
  <2> QED
    BY <1>1, <2>1, <2>3, FailedKeeps
<1> QED
  BY <1>2, <1>3

(* The message goes to the console. *)
LEMMA ConsoleKeeps ==
  ASSUME LogInv, NEW t \in LogThreads, log_console(t)
  PROVE  LogInv'
<1>0. LogTypeOK /\ SendInv
  BY DEF LogInv
<1>1. /\ sl[t] = "console" /\ SlGo(t, "idle") /\ Logged("console")
      /\ UNCHANGED <<log_fd, use_libc, log_cons, log_open, daemon, log_raced, closed_under, was_down, no_fd>>
  BY DEF log_console
<1>2. log_raced \/ closed_under \/ was_down \/ no_fd
  BY <1>0, <1>1 DEF SendInv
<1>3. logged' \in [Destinations -> Nat] /\ logged'["other"] = logged["other"]
  BY <1>0, <1>1, Counted DEF Destinations
<1>4. NoStrayMessage' /\ LogReached'
  BY <1>1, <1>2, <1>3 DEF LogInv, NoStrayMessage, LogReached
<1> QED
  BY <1>1, <1>3, <1>4, MessageKeeps

(* vsyslog looks at LOG_FD. *)
LEMMA CheckKeeps ==
  ASSUME LogInv, NEW t \in LogThreads, log_check(t)
  PROVE  LogInv'
<1>0. LogTypeOK
  BY DEF LogInv
<1>1. /\ sl[t] = "check"
      /\ UNCHANGED <<log_fd, use_libc, log_cons, log_open, daemon, logged, closed_under,
                     was_down, no_fd>>
  BY DEF log_check
<1>2. CASE log_fd < 0
  <2>1. SlGo(t, "open") /\ Enters(t)
    BY <1>2 DEF log_check
  <2>2. log_cons' \in BOOLEAN
    BY <1>0, <1>1 DEF LogTypeOK
  <2> QED
    BY <1>1, <1>2, <2>1, <2>2, EnterKeeps
<1>3. CASE ~(log_fd < 0)
  <2>1. SlGo(t, "send") /\ log_raced' = log_raced
    BY <1>3 DEF log_check
  <2>2. log_fd >= 0
    BY SMTT(30), <1>0, <1>3, LogFdsAssumption DEF LogTypeOK
  <2>3. logged' \in [Destinations -> Nat] /\ NoStrayMessage' /\ LogReached'
    BY <1>0, <1>1, <2>1 DEF LogInv, NoStrayMessage, LogReached, LogTypeOK
  <2> QED
    BY <1>1, <2>1, <2>2, <2>3, MessageKeeps
<1> QED
  BY <1>2, <1>3

(* openlog sets the options and, for LOG_NDELAY, looks at LOG_FD. *)
LEMMA OpenlogKeeps ==
  ASSUME LogInv, NEW t \in LogThreads, NEW cons \in BOOLEAN, NEW ndelay \in BOOLEAN,
         openlog(t, cons, ndelay)
  PROVE  LogInv'
<1>0. LogTypeOK /\ DaemonInv /\ AloneInv /\ UnderInv /\ ReachInv /\ SendInv
  BY DEF LogInv
<1>1. /\ sl[t] = "idle" /\ log_cons' \in BOOLEAN
      /\ UNCHANGED <<log_fd, use_libc, log_open, daemon, logged, closed_under, was_down, no_fd>>
  BY DEF openlog
<1>2. CASE ndelay /\ log_fd < 0
  <2>1. SlGo(t, "nd_open") /\ Enters(t)
    BY <1>2 DEF openlog
  <2> QED
    BY <1>1, <1>2, <2>1, EnterKeeps
<1>3. CASE ~(ndelay /\ log_fd < 0)
  <2>1. UNCHANGED <<sl, log_raced>>
    BY <1>3 DEF openlog
  <2>2. LogTypeOK'
    BY <1>0, <1>1, <2>1 DEF LogTypeOK
  <2>3. DaemonInv' /\ ReachInv' /\ SendInv'
    BY <1>0, <1>1, <2>1 DEF DaemonInv, ReachInv, SendInv
  <2>4. AloneInv' /\ UnderInv'
    BY <1>0, <1>1, <2>1 DEF AloneInv, UnderInv, Busy, Closer, UsesLog, LogSockets
  <2>5. NoStrayMessage' /\ LogReached'
    BY <1>1, <2>1 DEF LogInv, NoStrayMessage, LogReached
  <2> QED
    BY <2>2, <2>3, <2>4, <2>5 DEF LogInv
<1> QED
  BY <1>2, <1>3

(* Descriptors of others, and the daemon. *)
LEMMA OutsideKeeps ==
  ASSUME LogInv, other_opens_file \/ other_closes_file \/ daemon_changes
  PROVE  LogInv'
<1>0. LogTypeOK /\ DaemonInv /\ AloneInv /\ UnderInv /\ ReachInv /\ SendInv
  BY DEF LogInv
<1>1. UNCHANGED <<log_fd, use_libc, log_cons, sl, logged, log_raced, closed_under, no_fd>>
  BY DEF other_opens_file, other_closes_file, daemon_changes
<1>2. /\ log_open' \in [LogFds -> {"none", "socket", "log", "other"}]
      /\ \A f \in LogFds : /\ log_open'[f] \in {"socket", "log"} <=> log_open[f] \in {"socket", "log"}
                           /\ log_open'[f] = "log" => log_open[f] = "log"
  <2>1. CASE other_opens_file
    <3>1. log_open' = [log_open EXCEPT ![LowestLog] = "other"] /\ FreeLogFds # {}
      BY <2>1 DEF other_opens_file
    <3>2. LowestLog \in LogFds /\ log_open[LowestLog] = "none"
      BY <1>0, <3>1, LeastFd
    <3> QED
      BY <1>0, <3>1, <3>2 DEF LogTypeOK
  <2>2. CASE other_closes_file
    <3>1. PICK g \in LogFds : log_open[g] = "other" /\ log_open' = [log_open EXCEPT ![g] = "none"]
      BY <2>2 DEF other_closes_file
    <3> QED
      BY <1>0, <3>1 DEF LogTypeOK
  <2>3. CASE daemon_changes
    <3>1. log_open' = [f \in LogFds |-> IF daemon /\ log_open[f] = "log" THEN "socket"
                                        ELSE log_open[f]]
      BY <2>3 DEF daemon_changes
    <3> QED
      BY <1>0, <3>1 DEF LogTypeOK
  <2> QED
    BY <2>1, <2>2, <2>3
<1>3. /\ daemon' \in BOOLEAN /\ was_down' \in BOOLEAN
      /\ ~was_down' => ~was_down /\ daemon' = daemon
                       /\ \A f \in LogFds : log_open[f] = "log" => log_open'[f] = "log"
  <2>1. CASE other_opens_file
    <3>1. /\ log_open' = [log_open EXCEPT ![LowestLog] = "other"] /\ FreeLogFds # {}
          /\ daemon' = daemon /\ was_down' = was_down
      BY <2>1 DEF other_opens_file
    <3>2. LowestLog \in LogFds /\ log_open[LowestLog] = "none"
      BY <1>0, <3>1, LeastFd
    <3> QED
      BY <1>0, <3>1, <3>2 DEF LogTypeOK
  <2>2. CASE other_closes_file
    <3>1. PICK g \in LogFds : log_open[g] = "other" /\ log_open' = [log_open EXCEPT ![g] = "none"]
      BY <2>2 DEF other_closes_file
    <3>2. daemon' = daemon /\ was_down' = was_down
      BY <2>2 DEF other_closes_file
    <3> QED
      BY <1>0, <3>1, <3>2 DEF LogTypeOK
  <2>3. CASE daemon_changes
    BY <1>0, <2>3 DEF daemon_changes, LogTypeOK
  <2> QED
    BY <2>1, <2>2, <2>3
<1>4. LogTypeOK'
  BY <1>0, <1>1, <1>2, <1>3 DEF LogTypeOK
<1>5. LogSockets' = LogSockets
  BY <1>2 DEF LogSockets
<1>6. AloneInv' /\ UnderInv'
  BY <1>0, <1>1, <1>5 DEF AloneInv, UnderInv, Busy, Closer, UsesLog
<1>7. ReachInv' /\ (~was_down' => ~was_down)
  BY <1>0, <1>1, <1>3 DEF ReachInv
<1>8. NoStrayMessage' /\ LogReached'
  BY <1>1, <1>7 DEF LogInv, NoStrayMessage, LogReached
<1>9. SendInv'
  <2> SUFFICES ASSUME ~log_raced, ~closed_under, ~was_down', ~no_fd, NEW u \in LogThreads
               PROVE  /\ sl[u] \in {"send", "again", "resend"} => log_fd >= 0
                      /\ sl[u] = "resend" => log_open'[log_fd] = "log"
                      /\ sl[u] # "console"
    BY <1>1 DEF SendInv
  <2>1. /\ sl[u] \in {"send", "again", "resend"} => log_fd >= 0
        /\ sl[u] = "resend" => log_open[log_fd] = "log"
        /\ sl[u] # "console"
    BY <1>0, <1>7 DEF SendInv
  <2>2. log_fd >= 0 => log_fd \in LogFds
    BY SMTT(30), <1>0 DEF LogTypeOK
  <2> QED
    BY <1>3, <2>1, <2>2
<1>10. DaemonInv'
  <2>1. CASE daemon_changes
    <3>1. /\ daemon' = ~daemon /\ was_down' = TRUE
          /\ \A f \in LogFds : log_open'[f] = IF daemon /\ log_open[f] = "log" THEN "socket"
                                              ELSE log_open[f]
      BY <2>1 DEF daemon_changes
    <3>2. \A f \in LogFds : log_open'[f] # "log"
      BY <1>0, <3>1 DEF DaemonInv
    <3> QED
      BY <3>1, <3>2 DEF DaemonInv
  <2>2. CASE other_opens_file \/ other_closes_file
    <3>1. daemon' = daemon /\ was_down' = was_down
      BY <2>2 DEF other_opens_file, other_closes_file
    <3> QED
      BY <1>0, <1>2, <3>1 DEF DaemonInv
  <2> QED
    BY <2>1, <2>2
<1> QED
  BY <1>4, <1>6, <1>7, <1>8, <1>9, <1>10 DEF LogInv

(* The invariant holds at first. *)
LEMMA LogStart == LogInit => LogInv
<1> SUFFICES ASSUME LogInit
             PROVE  LogInv
  OBVIOUS
<1>1. /\ log_fd = -1 /\ use_libc = FALSE /\ log_cons \in BOOLEAN /\ daemon \in BOOLEAN
      /\ log_open = [f \in LogFds |-> "none"] /\ sl = [t \in LogThreads |-> "idle"]
      /\ logged = [d \in Destinations |-> 0]
      /\ log_raced = FALSE /\ closed_under = FALSE /\ was_down = ~daemon /\ no_fd = FALSE
  BY DEF LogInit, Destinations
<1>2. LogTypeOK
  BY <1>1 DEF LogTypeOK, LogPlaces
<1>3. DaemonInv /\ ReachInv
  BY <1>1 DEF DaemonInv, ReachInv
<1>4. \A t \in LogThreads : ~Busy(t) /\ ~Closer(t) /\ sl[t] = "idle"
  BY <1>1 DEF Busy, Closer
<1>5. LogSockets = {} /\ log_fd < 0
  BY SMTT(30), <1>1 DEF LogSockets
<1>6. AloneInv /\ UnderInv /\ SendInv
  BY <1>4, <1>5 DEF AloneInv, UnderInv, SendInv
<1>7. NoStrayMessage /\ LogReached
  BY SMTT(30), <1>1 DEF NoStrayMessage, LogReached, Destinations
<1> QED
  BY <1>2, <1>3, <1>6, <1>7 DEF LogInv

(* A message goes to the log and nowhere else, for any number of threads,  *)
(* descriptors and messages and any order of openlog, closelog and vsyslog *)
(* (posix/syslog.cpp), unless the daemon was away, descriptors ran out, or *)
(* the log was closed or opened twice under it; and the process has one    *)
(* descriptor for the log.                                                 *)
THEOREM MessagesSafe == LogSpec => []MessagesArrive
<1>1. LogInit => LogInv
  BY LogStart
<1>2. LogInv /\ [LogNext]_logVars => LogInv'
  <2> SUFFICES ASSUME LogInv, [LogNext]_logVars
               PROVE  LogInv'
    OBVIOUS
  <2>1. ASSUME NEW t \in LogThreads, log_connect(t) \/ openlog_connect(t)
        PROVE  LogInv'
    BY <2>1, ConnectKeeps DEF log_connect, openlog_connect
  <2>2. ASSUME NEW t \in LogThreads, log_giveup(t) \/ openlog_giveup(t) \/ closelog(t)
        PROVE  LogInv'
    BY <2>2, CloseKeeps DEF log_giveup, openlog_giveup, closelog
  <2>3. ASSUME NEW t \in LogThreads, log_reset(t) \/ openlog_reset(t) \/ closelog_reset(t)
        PROVE  LogInv'
    BY <2>3, ResetsKeep DEF log_reset, openlog_reset, closelog_reset, Closer
  <2>4. ASSUME NEW t \in LogThreads, log_socket(t) \/ openlog_socket(t)
        PROVE  LogInv'
    BY <2>4, OpenKeeps DEF log_socket, openlog_socket
  <2>5. CASE UNCHANGED logVars
    BY SMTT(30), <2>5 DEF logVars, LogInv, LogTypeOK, DaemonInv, AloneInv, UnderInv, ReachInv, SendInv,
            NoStrayMessage, LogReached, Busy, Closer, UsesLog, LogSockets
  <2> QED
    BY <2>1, <2>2, <2>3, <2>4, <2>5, VsyslogKeeps, CheckKeeps, SendKeeps, AgainKeeps, ConsoleKeeps,
       OpenlogKeeps, OutsideKeeps DEF LogNext
<1>3. LogInv => MessagesArrive
  <2> SUFFICES ASSUME LogInv
               PROVE  OneLogDescriptor
    BY DEF LogInv, MessagesArrive
  <2> SUFFICES ASSUME LogQuiet, ~log_raced
               PROVE  LogSockets = IF log_fd < 0 THEN {} ELSE {log_fd}
    BY DEF OneLogDescriptor
  <2>1. \A c \in LogThreads : ~Closer(c)
    BY DEF LogQuiet, Closer
  <2> QED
    BY <2>1 DEF LogInv, AloneInv
<1> QED
  BY <1>1, <1>2, <1>3, PTL DEF LogSpec
=============================================================================
