------------------------- MODULE CondBarrierProofs -------------------------
(***************************************************************************)
(* Proofs about module Cond, for any set of threads, any width of the word *)
(* and any number of signals.                                              *)
(*                                                                         *)
(* That no broadcast is missed rests on the order of the two halves: a     *)
(* thread that was blocked when a broadcast counted and has not slept yet  *)
(* loaded an older count (ToldInv), so it can fall asleep only on a        *)
(* wrapped word; one that slept already is woken by the broadcaster, which *)
(* has not left.  That a signal sent under the mutex reaches one of those  *)
(* it was sent to rests on nobody being able to block anew while the       *)
(* signaller holds the mutex (SignalInv).                                  *)
(*                                                                         *)
(* And proofs about module Barrier, for any set of threads, any count and  *)
(* any number of rounds: no more threads pass than full rounds allow.  It  *)
(* rests on every call being in a complete round, in the open one or before *)
(* its arrival (RoundInv), and on `inside' counting those that are within  *)
(* (CountInv).                                                             *)
(***************************************************************************)
EXTENDS Cond, Barrier, FiniteSetTheorems, TLAPS

(* A leaf is left to Zenon for thirty seconds, or to the prover it names.  *)
USE ZenonT(30)

(* Only a blocked thread has been told, and a thread that is going round   *)
(* the loop of a timed wait was interrupted.                               *)
RetryInv ==
  \A t \in Threads :
    /\ told[t] => Blocked(t)
    /\ pc[t] \in {"relock_retry", "retry"} => excuse[t] = "interrupted"
    /\ value[t] <= futex

(* A thread that was told of a broadcast and has not slept yet loaded an   *)
(* older count.                                                            *)
ToldInv ==
  \A t \in Threads :
    told[t] /\ pc[t] = "wait_sleep" /\ excuse[t] = "none" => value[t] # futex

(* The threads a signal is still due to: they are blocked, have loaded an  *)
(* older count, and while the signaller holds the mutex nobody else is.    *)
SignalInv ==
  \A s \in Threads :
    waitingFor[s] # {} =>
      /\ pc[s] = "signal_wake"
      /\ \A t \in waitingFor[s] :
           /\ Blocked(t)
           /\ pc[t] = "wait_sleep" /\ excuse[t] # "interrupted" => value[t] # futex
      /\ holder = s => \A t \in Threads : Blocked(t) => t \in waitingFor[s]

(* The inductive invariant of the condition variable. *)
IndInv == TypeOK /\ RetryInv /\ ToldInv /\ SignalInv /\ NoMissedBroadcast

-----------------------------------------------------------------------------

(* The invariant holds at first, and every step keeps it. *)
LEMMA InitIndInv == Init => IndInv
<1> SUFFICES ASSUME Init PROVE IndInv
  OBVIOUS
<1>1. TypeOK
  BY SMTT(30), MaxSignalsAssumption DEF Init, TypeOK, Labels
<1>2. RetryInv
  BY SMTT(30) DEF Init, RetryInv
<1>3. ToldInv /\ SignalInv /\ NoMissedBroadcast
  BY DEF Init, ToldInv, SignalInv, NoMissedBroadcast
<1> QED
  BY <1>1, <1>2, <1>3 DEF IndInv

(* What the history leaves of told and of waitingFor after any step. *)
LEMMA HistoryTypes ==
  ASSUME TypeOK, History
  PROVE  /\ told' \in [Threads -> BOOLEAN]
         /\ waitingFor' \in [Threads -> SUBSET Threads]
         /\ \A t \in Threads : told'[t] =>
              /\ Blocked(t)'
              /\ told[t] \/ \E s \in Threads : Starts(s, "broadcast_wake")
         /\ \A s \in Threads : waitingFor'[s] # {} =>
              \/ Starts(s, "signal_wake") /\ waitingFor'[s] = {t \in Threads : Blocked(t)}
              \/ /\ pc'[s] = "signal_wake" /\ pc[s] = "signal_wake"
                 /\ waitingFor'[s] = waitingFor[s]
                 /\ \A t \in waitingFor[s] : Blocked(t)'
<1>1. told' \in [Threads -> BOOLEAN]
  BY DEF History
<1>2. waitingFor' \in [Threads -> SUBSET Threads]
  BY DEF History, TypeOK
<1>3. ASSUME NEW t \in Threads, told'[t]
      PROVE  Blocked(t)' /\ (told[t] \/ \E s \in Threads : Starts(s, "broadcast_wake"))
  BY <1>3 DEF History
<1>4. ASSUME NEW s \in Threads, waitingFor'[s] # {}
      PROVE  \/ Starts(s, "signal_wake") /\ waitingFor'[s] = {t \in Threads : Blocked(t)}
             \/ /\ pc'[s] = "signal_wake" /\ pc[s] = "signal_wake"
                /\ waitingFor'[s] = waitingFor[s]
                /\ \A t \in waitingFor[s] : Blocked(t)'
  BY <1>4 DEF History, Starts
<1> QED
  BY <1>1, <1>2, <1>3, <1>4

(* Every step keeps the invariant. *)
LEMMA NextIndInv == IndInv /\ [Next]_vars => IndInv'
<1> SUFFICES ASSUME IndInv, [Next]_vars PROVE IndInv'
  OBVIOUS
<1> USE MaxSignalsAssumption, NoThreadAssumption
<1>0. TypeOK
  BY DEF IndInv
<1>1. ASSUME NEW u \in Threads, thread_mutex_lock(u), History PROVE IndInv'
  <2>0. told' \in [Threads -> BOOLEAN] /\ waitingFor' \in [Threads -> SUBSET Threads]
    BY <1>0, <1>1, HistoryTypes
  <2>1. TypeOK'
    BY <1>1, <2>0 DEF IndInv, TypeOK, Labels, thread_mutex_lock, TheMutex!Acquire
  <2>2. RetryInv'
    BY <1>0, <1>1, HistoryTypes DEF IndInv, TypeOK, RetryInv, thread_mutex_lock, TheMutex!Acquire
  <2>3. ToldInv'
    BY <1>0, <1>1, HistoryTypes DEF IndInv, TypeOK, RetryInv, ToldInv, Blocked, Starts, thread_mutex_lock, TheMutex!Acquire
  <2>4. SignalInv'
    BY <1>0, <1>1, <2>0, HistoryTypes DEF IndInv, TypeOK, RetryInv, SignalInv, Blocked, Starts, thread_mutex_lock, TheMutex!Acquire
  <2>5. NoMissedBroadcast'
    BY <1>0, <1>1, HistoryTypes DEF IndInv, TypeOK, RetryInv, ToldInv, NoMissedBroadcast, Blocked, Starts, thread_mutex_lock, TheMutex!Acquire
  <2> QED
    BY <2>1, <2>2, <2>3, <2>4, <2>5 DEF IndInv
<1>2. ASSUME NEW u \in Threads, thread_mutex_unlock(u), History PROVE IndInv'
  <2>0. told' \in [Threads -> BOOLEAN] /\ waitingFor' \in [Threads -> SUBSET Threads]
    BY <1>0, <1>2, HistoryTypes
  <2>1. TypeOK'
    BY <1>2, <2>0 DEF IndInv, TypeOK, Labels, thread_mutex_unlock, TheMutex!Release
  <2>2. RetryInv'
    BY <1>0, <1>2, HistoryTypes DEF IndInv, TypeOK, RetryInv, thread_mutex_unlock, TheMutex!Release
  <2>3. ToldInv'
    BY <1>0, <1>2, HistoryTypes DEF IndInv, TypeOK, RetryInv, ToldInv, Blocked, Starts, thread_mutex_unlock, TheMutex!Release
  <2>4. SignalInv'
    BY SMTT(30), <1>0, <1>2, <2>0, HistoryTypes DEF IndInv, TypeOK, RetryInv, SignalInv, Blocked, Starts, thread_mutex_unlock, TheMutex!Release
  <2>5. NoMissedBroadcast'
    BY <1>0, <1>2, HistoryTypes DEF IndInv, TypeOK, RetryInv, ToldInv, NoMissedBroadcast, Blocked, Starts, thread_mutex_unlock, TheMutex!Release
  <2> QED
    BY <2>1, <2>2, <2>3, <2>4, <2>5 DEF IndInv
<1>3. ASSUME NEW u \in Threads, thread_cond_wait(u), History PROVE IndInv'
  <2>0. told' \in [Threads -> BOOLEAN] /\ waitingFor' \in [Threads -> SUBSET Threads]
    BY <1>0, <1>3, HistoryTypes
  <2>1. TypeOK'
    BY <1>3, <2>0 DEF IndInv, TypeOK, Labels, thread_cond_wait, Goto
  <2>2. RetryInv'
    BY SMTT(30), <1>0, <1>3, HistoryTypes DEF IndInv, TypeOK, RetryInv, thread_cond_wait, Goto
  <2>3. ToldInv'
    BY SMTT(30), <1>0, <1>3, HistoryTypes DEF IndInv, TypeOK, RetryInv, ToldInv, Blocked, Starts, thread_cond_wait, Goto
  <2>4. SignalInv'
    BY SMTT(30), <1>0, <1>3, <2>0, HistoryTypes DEF IndInv, TypeOK, RetryInv, SignalInv, Blocked, Starts, thread_cond_wait, Goto
  <2>5. NoMissedBroadcast'
    BY SMTT(30), <1>0, <1>3, HistoryTypes DEF IndInv, TypeOK, RetryInv, ToldInv, NoMissedBroadcast, Blocked, Starts, thread_cond_wait, Goto
  <2> QED
    BY <2>1, <2>2, <2>3, <2>4, <2>5 DEF IndInv
<1>4. ASSUME NEW u \in Threads, thread_cond_timedwait(u), History PROVE IndInv'
  <2>0. told' \in [Threads -> BOOLEAN] /\ waitingFor' \in [Threads -> SUBSET Threads]
    BY <1>0, <1>4, HistoryTypes
  <2>1. TypeOK'
    <3>1. futex' \in 0..MaxSignals /\ holder' \in Threads \cup {NoThread}
      BY <1>0, <1>4 DEF TypeOK, thread_cond_timedwait, Goto, Return
    <3>2. pc' \in [Threads -> Labels]
      BY SMTT(30), <1>0, <1>4 DEF TypeOK, Labels, thread_cond_timedwait, Goto, Return
    <3>3. value' \in [Threads -> 0..MaxSignals]
      BY SMTT(30), <1>0, <1>4 DEF TypeOK, thread_cond_timedwait, Goto, Return
    <3>4. timed' \in [Threads -> BOOLEAN]
      BY <1>0, <1>4 DEF TypeOK, thread_cond_timedwait, Goto, Return
    <3>5. excuse' \in [Threads -> {"none", "interrupted", "wrapped"}]
      BY <1>0, <1>4 DEF TypeOK, thread_cond_timedwait, Goto, Return
    <3> QED
      BY <2>0, <3>1, <3>2, <3>3, <3>4, <3>5 DEF TypeOK
  <2>2. RetryInv'
    BY SMTT(30), <1>0, <1>4, HistoryTypes DEF IndInv, TypeOK, RetryInv, thread_cond_timedwait, Goto, Return
  <2>3. ToldInv'
    BY SMTT(30), <1>0, <1>4, HistoryTypes DEF IndInv, TypeOK, RetryInv, ToldInv, Blocked, Starts, thread_cond_timedwait, Goto, Return
  <2>4. SignalInv'
    BY SMTT(30), <1>0, <1>4, <2>0, HistoryTypes DEF IndInv, TypeOK, RetryInv, SignalInv, Blocked, Starts, thread_cond_timedwait, Goto, Return
  <2>5. NoMissedBroadcast'
    BY SMTT(30), <1>0, <1>4, HistoryTypes DEF IndInv, TypeOK, RetryInv, ToldInv, NoMissedBroadcast, Blocked, Starts, thread_cond_timedwait, Goto, Return
  <2> QED
    BY <2>1, <2>2, <2>3, <2>4, <2>5 DEF IndInv
<1>5. ASSUME NEW u \in Threads, wait_unlock(u), History PROVE IndInv'
  <2>0. told' \in [Threads -> BOOLEAN] /\ waitingFor' \in [Threads -> SUBSET Threads]
    BY <1>0, <1>5, HistoryTypes
  <2>1. TypeOK'
    BY <1>5, <2>0
       DEF IndInv, TypeOK, Labels, wait_unlock, Goto, TheMutex!Release
  <2>2. RetryInv'
    BY <1>0, <1>5, HistoryTypes DEF IndInv, TypeOK, RetryInv, wait_unlock, Goto, TheMutex!Release
  <2>3. ToldInv'
    BY SMTT(30), <1>0, <1>5, HistoryTypes DEF IndInv, TypeOK, RetryInv, ToldInv, Blocked, Starts, wait_unlock, Goto, TheMutex!Release
  <2>4. SignalInv'
    BY SMTT(30), <1>0, <1>5, <2>0, HistoryTypes DEF IndInv, TypeOK, RetryInv, SignalInv, Blocked, Starts, wait_unlock, Goto, TheMutex!Release
  <2>5. NoMissedBroadcast'
    BY SMTT(30), <1>0, <1>5, HistoryTypes DEF IndInv, TypeOK, RetryInv, ToldInv, NoMissedBroadcast, Blocked, Starts, wait_unlock, Goto, TheMutex!Release
  <2> QED
    BY <2>1, <2>2, <2>3, <2>4, <2>5 DEF IndInv
<1>6. ASSUME NEW u \in Threads, wait_sleep(u), History PROVE IndInv'
  <2>0. told' \in [Threads -> BOOLEAN] /\ waitingFor' \in [Threads -> SUBSET Threads]
    BY <1>0, <1>6, HistoryTypes
  <2>1. TypeOK'
    BY SMTT(30), <1>6, <2>0 DEF IndInv, TypeOK, Labels, wait_sleep, Goto, sys_futex_wait
  <2>2. RetryInv'
    BY SMTT(30), <1>0, <1>6, HistoryTypes DEF IndInv, TypeOK, RetryInv, wait_sleep, Goto, sys_futex_wait
  <2>3. ToldInv'
    BY SMTT(30), <1>0, <1>6, HistoryTypes DEF IndInv, TypeOK, RetryInv, ToldInv, Blocked, Starts, wait_sleep, Goto, sys_futex_wait
  <2>4. SignalInv'
    BY SMTT(30), <1>0, <1>6, <2>0, HistoryTypes DEF IndInv, TypeOK, RetryInv, SignalInv, Blocked, Starts, wait_sleep, Goto, sys_futex_wait
  <2>5. NoMissedBroadcast'
    BY SMTT(30), <1>0, <1>6, HistoryTypes DEF IndInv, TypeOK, RetryInv, ToldInv, NoMissedBroadcast, Blocked, Starts, wait_sleep, Goto, sys_futex_wait
  <2> QED
    BY <2>1, <2>2, <2>3, <2>4, <2>5 DEF IndInv
<1>7. ASSUME NEW u \in Threads, timeout(u), History PROVE IndInv'
  <2>0. told' \in [Threads -> BOOLEAN] /\ waitingFor' \in [Threads -> SUBSET Threads]
    BY <1>0, <1>7, HistoryTypes
  <2>1. TypeOK'
    BY <1>7, <2>0 DEF IndInv, TypeOK, Labels, timeout, Goto
  <2>2. RetryInv'
    BY <1>0, <1>7, HistoryTypes DEF IndInv, TypeOK, RetryInv, timeout, Goto
  <2>3. ToldInv'
    BY SMTT(30), <1>0, <1>7, HistoryTypes DEF IndInv, TypeOK, RetryInv, ToldInv, Blocked, Starts, timeout, Goto
  <2>4. SignalInv'
    BY SMTT(30), <1>0, <1>7, <2>0, HistoryTypes DEF IndInv, TypeOK, RetryInv, SignalInv, Blocked, Starts, timeout, Goto
  <2>5. NoMissedBroadcast'
    BY SMTT(30), <1>0, <1>7, HistoryTypes DEF IndInv, TypeOK, RetryInv, ToldInv, NoMissedBroadcast, Blocked, Starts, timeout, Goto
  <2> QED
    BY <2>1, <2>2, <2>3, <2>4, <2>5 DEF IndInv
<1>8. ASSUME NEW u \in Threads, eintr(u), History PROVE IndInv'
  <2>0. told' \in [Threads -> BOOLEAN] /\ waitingFor' \in [Threads -> SUBSET Threads]
    BY <1>0, <1>8, HistoryTypes
  <2>1. TypeOK'
    BY <1>8, <2>0 DEF IndInv, TypeOK, Labels, eintr, Goto
  <2>2. RetryInv'
    BY SMTT(30), <1>0, <1>8, HistoryTypes DEF IndInv, TypeOK, RetryInv, eintr, Goto
  <2>3. ToldInv'
    BY SMTT(30), <1>0, <1>8, HistoryTypes DEF IndInv, TypeOK, RetryInv, ToldInv, Blocked, Starts, eintr, Goto
  <2>4. SignalInv'
    BY SMTT(30), <1>0, <1>8, <2>0, HistoryTypes DEF IndInv, TypeOK, RetryInv, SignalInv, Blocked, Starts, eintr, Goto
  <2>5. NoMissedBroadcast'
    BY SMTT(30), <1>0, <1>8, HistoryTypes DEF IndInv, TypeOK, RetryInv, ToldInv, NoMissedBroadcast, Blocked, Starts, eintr, Goto
  <2> QED
    BY <2>1, <2>2, <2>3, <2>4, <2>5 DEF IndInv
<1>9. ASSUME NEW u \in Threads, relock(u), History PROVE IndInv'
  <2>0. told' \in [Threads -> BOOLEAN] /\ waitingFor' \in [Threads -> SUBSET Threads]
    BY <1>0, <1>9, HistoryTypes
  <2>1. TypeOK'
    <3>1. futex' \in 0..MaxSignals /\ holder' \in Threads \cup {NoThread}
      BY <1>0, <1>9 DEF TypeOK, relock, Goto, Return, TheMutex!Acquire
    <3>2. pc' \in [Threads -> Labels]
      BY SMTT(30), <1>0, <1>9 DEF TypeOK, Labels, relock, Goto, Return, TheMutex!Acquire
    <3>3. value' \in [Threads -> 0..MaxSignals]
      BY SMTT(30), <1>0, <1>9 DEF TypeOK, relock, Goto, Return, TheMutex!Acquire
    <3>4. timed' \in [Threads -> BOOLEAN]
      BY <1>0, <1>9 DEF TypeOK, relock, Goto, Return, TheMutex!Acquire
    <3>5. excuse' \in [Threads -> {"none", "interrupted", "wrapped"}]
      BY <1>0, <1>9 DEF TypeOK, relock, Goto, Return, TheMutex!Acquire
    <3> QED
      BY <2>0, <3>1, <3>2, <3>3, <3>4, <3>5 DEF TypeOK
  <2>2. RetryInv'
    BY SMTT(30), <1>0, <1>9, HistoryTypes DEF IndInv, TypeOK, RetryInv, relock, Goto, Return, TheMutex!Acquire
  <2>3. ToldInv'
    BY SMTT(30), <1>0, <1>9, HistoryTypes DEF IndInv, TypeOK, RetryInv, ToldInv, Blocked, Starts, relock, Goto, Return, TheMutex!Acquire
  <2>4. SignalInv'
    BY SMTT(30), <1>0, <1>9, <2>0, HistoryTypes DEF IndInv, TypeOK, RetryInv, SignalInv, Blocked, Starts, relock, Goto, Return, TheMutex!Acquire
  <2>5. NoMissedBroadcast'
    BY SMTT(30), <1>0, <1>9, HistoryTypes DEF IndInv, TypeOK, RetryInv, ToldInv, NoMissedBroadcast, Blocked, Starts, relock, Goto, Return, TheMutex!Acquire
  <2> QED
    BY <2>1, <2>2, <2>3, <2>4, <2>5 DEF IndInv
<1>10. ASSUME NEW u \in Threads, thread_cond_signal(u), History PROVE IndInv'
  <2>0. told' \in [Threads -> BOOLEAN] /\ waitingFor' \in [Threads -> SUBSET Threads]
    BY <1>0, <1>10, HistoryTypes
  <2>1. TypeOK'
    <3>1. futex' \in 0..MaxSignals /\ holder' \in Threads \cup {NoThread}
      BY SMTT(30), <1>0, <1>10 DEF TypeOK, thread_cond_signal, Goto
    <3>2. pc' \in [Threads -> Labels]
      BY <1>0, <1>10 DEF TypeOK, Labels, thread_cond_signal, Goto
    <3>3. value' \in [Threads -> 0..MaxSignals]
      BY <1>0, <1>10 DEF TypeOK, thread_cond_signal, Goto
    <3>4. timed' \in [Threads -> BOOLEAN]
      BY <1>0, <1>10 DEF TypeOK, thread_cond_signal, Goto
    <3>5. excuse' \in [Threads -> {"none", "interrupted", "wrapped"}]
      BY <1>0, <1>10 DEF TypeOK, thread_cond_signal, Goto
    <3> QED
      BY <2>0, <3>1, <3>2, <3>3, <3>4, <3>5 DEF TypeOK
  <2>2. RetryInv'
    BY SMTT(30), <1>0, <1>10, HistoryTypes DEF IndInv, TypeOK, RetryInv, thread_cond_signal, Goto
  <2>3. ToldInv'
    BY SMTT(30), <1>0, <1>10, HistoryTypes DEF IndInv, TypeOK, RetryInv, ToldInv, Blocked, Starts, thread_cond_signal, Goto
  <2>4. SignalInv'
    BY SMTT(30), <1>0, <1>10, <2>0, HistoryTypes DEF IndInv, TypeOK, RetryInv, SignalInv, Blocked, Starts, thread_cond_signal, Goto
  <2>5. NoMissedBroadcast'
    BY SMTT(30), <1>0, <1>10, HistoryTypes DEF IndInv, TypeOK, RetryInv, ToldInv, NoMissedBroadcast, Blocked, Starts, thread_cond_signal, Goto
  <2> QED
    BY <2>1, <2>2, <2>3, <2>4, <2>5 DEF IndInv
<1>11. ASSUME NEW u \in Threads, signal_wake(u), History PROVE IndInv'
  <2>0. told' \in [Threads -> BOOLEAN] /\ waitingFor' \in [Threads -> SUBSET Threads]
    BY <1>0, <1>11, HistoryTypes
  <2>1. TypeOK'
    BY SMTT(30), <1>11, <2>0 DEF IndInv, TypeOK, Labels, signal_wake, sys_futex_wake
  <2>2. RetryInv'
    BY SMTT(30), <1>0, <1>11, HistoryTypes DEF IndInv, TypeOK, RetryInv, signal_wake, sys_futex_wake
  <2>3. ToldInv'
    BY SMTT(30), <1>0, <1>11, HistoryTypes DEF IndInv, TypeOK, RetryInv, ToldInv, Blocked, Starts, signal_wake, sys_futex_wake
  <2>4. SignalInv'
    BY SMTT(30), <1>0, <1>11, <2>0, HistoryTypes DEF IndInv, TypeOK, RetryInv, SignalInv, Blocked, Starts, signal_wake, sys_futex_wake
  <2>5. NoMissedBroadcast'
    BY SMTT(30), <1>0, <1>11, HistoryTypes DEF IndInv, TypeOK, RetryInv, ToldInv, NoMissedBroadcast, Blocked, Starts, signal_wake, sys_futex_wake
  <2> QED
    BY <2>1, <2>2, <2>3, <2>4, <2>5 DEF IndInv
<1>12. ASSUME NEW u \in Threads, thread_cond_broadcast(u), History PROVE IndInv'
  <2>0. told' \in [Threads -> BOOLEAN] /\ waitingFor' \in [Threads -> SUBSET Threads]
    BY <1>0, <1>12, HistoryTypes
  <2>1. TypeOK'
    <3>1. futex' \in 0..MaxSignals /\ holder' \in Threads \cup {NoThread}
      BY SMTT(30), <1>0, <1>12 DEF TypeOK, thread_cond_broadcast, Goto
    <3>2. pc' \in [Threads -> Labels]
      BY <1>0, <1>12 DEF TypeOK, Labels, thread_cond_broadcast, Goto
    <3>3. value' \in [Threads -> 0..MaxSignals]
      BY <1>0, <1>12 DEF TypeOK, thread_cond_broadcast, Goto
    <3>4. timed' \in [Threads -> BOOLEAN]
      BY <1>0, <1>12 DEF TypeOK, thread_cond_broadcast, Goto
    <3>5. excuse' \in [Threads -> {"none", "interrupted", "wrapped"}]
      BY <1>0, <1>12 DEF TypeOK, thread_cond_broadcast, Goto
    <3> QED
      BY <2>0, <3>1, <3>2, <3>3, <3>4, <3>5 DEF TypeOK
  <2>2. RetryInv'
    BY SMTT(30), <1>0, <1>12, HistoryTypes DEF IndInv, TypeOK, RetryInv, thread_cond_broadcast, Goto
  <2>3. ToldInv'
    BY SMTT(30), <1>0, <1>12, HistoryTypes DEF IndInv, TypeOK, RetryInv, ToldInv, Blocked, Starts, thread_cond_broadcast, Goto
  <2>4. SignalInv'
    BY SMTT(30), <1>0, <1>12, <2>0, HistoryTypes DEF IndInv, TypeOK, RetryInv, SignalInv, Blocked, Starts, thread_cond_broadcast, Goto
  <2>5. NoMissedBroadcast'
    BY SMTT(30), <1>0, <1>12, HistoryTypes DEF IndInv, TypeOK, RetryInv, ToldInv, NoMissedBroadcast, Blocked, Starts, thread_cond_broadcast, Goto
  <2> QED
    BY <2>1, <2>2, <2>3, <2>4, <2>5 DEF IndInv
<1>13. ASSUME NEW u \in Threads, broadcast_wake(u), History PROVE IndInv'
  <2>0. told' \in [Threads -> BOOLEAN] /\ waitingFor' \in [Threads -> SUBSET Threads]
    BY <1>0, <1>13, HistoryTypes
  <2>1. TypeOK'
    BY <1>13, <2>0
       DEF IndInv, TypeOK, Labels, broadcast_wake, sys_futex_wake_all
  <2>2. RetryInv'
    BY <1>0, <1>13, HistoryTypes DEF IndInv, TypeOK, RetryInv, broadcast_wake, sys_futex_wake_all
  <2>3. ToldInv'
    BY SMTT(30), <1>0, <1>13, HistoryTypes DEF IndInv, TypeOK, RetryInv, ToldInv, Blocked, Starts, broadcast_wake, sys_futex_wake_all
  <2>4. SignalInv'
    BY SMTT(30), <1>0, <1>13, <2>0, HistoryTypes DEF IndInv, TypeOK, RetryInv, SignalInv, Blocked, Starts, broadcast_wake, sys_futex_wake_all
  <2>5. NoMissedBroadcast'
    BY SMTT(30), <1>0, <1>13, HistoryTypes DEF IndInv, TypeOK, RetryInv, ToldInv, NoMissedBroadcast, Blocked, Starts, broadcast_wake, sys_futex_wake_all
  <2> QED
    BY <2>1, <2>2, <2>3, <2>4, <2>5 DEF IndInv
<1>14. ASSUME UNCHANGED vars PROVE IndInv'
  BY <1>14 DEF vars, IndInv, TypeOK, RetryInv, ToldInv, SignalInv, NoMissedBroadcast, Blocked
<1> QED
  BY <1>1, <1>2, <1>3, <1>4, <1>5, <1>6, <1>7, <1>8, <1>9, <1>10, <1>11, <1>12, <1>13, <1>14
     DEF Next, Call, Step, pthread_cond_clockwait

(* It holds always. *)
LEMMA Inductive == Spec => []IndInv
  BY InitIndInv, NextIndInv, PTL DEF Spec

(* Nobody who was blocked when a broadcast counted sleeps on after it. *)
THEOREM BroadcastSafe == Spec => []NoMissedBroadcast
<1>1. IndInv => NoMissedBroadcast
  BY DEF IndInv
<1> QED
  BY Inductive, <1>1, PTL

(* One step takes a thread out of a wait only with the mutex. *)
LEMMA StepReturnsLocked ==
  ASSUME IndInv, [Next]_vars, NEW t \in Threads,
         pc[t] \in Labels \ {"idle", "signal_wake", "broadcast_wake"}, pc'[t] = "idle"
  PROVE  holder' = t
<1>0. TypeOK
  BY DEF IndInv
<1>1. ASSUME NEW u \in Threads, thread_mutex_lock(u) PROVE holder' = t
  BY <1>0, <1>1 DEF TypeOK, Labels, thread_mutex_lock, TheMutex!Acquire
<1>2. ASSUME NEW u \in Threads, thread_mutex_unlock(u) PROVE holder' = t
  BY <1>0, <1>2 DEF TypeOK, Labels, thread_mutex_unlock, TheMutex!Release
<1>3. ASSUME NEW u \in Threads, thread_cond_wait(u) PROVE holder' = t
  BY <1>0, <1>3 DEF TypeOK, Labels, thread_cond_wait, Goto
<1>4. ASSUME NEW u \in Threads, thread_cond_timedwait(u) PROVE holder' = t
  BY <1>0, <1>4 DEF TypeOK, Labels, thread_cond_timedwait, Goto, Return
<1>5. ASSUME NEW u \in Threads, wait_unlock(u) PROVE holder' = t
  BY <1>0, <1>5 DEF TypeOK, Labels, wait_unlock, Goto, TheMutex!Release
<1>6. ASSUME NEW u \in Threads, wait_sleep(u) PROVE holder' = t
  BY <1>0, <1>6 DEF TypeOK, Labels, wait_sleep, Goto, sys_futex_wait
<1>7. ASSUME NEW u \in Threads, timeout(u) PROVE holder' = t
  BY <1>0, <1>7 DEF TypeOK, Labels, timeout, Goto
<1>8. ASSUME NEW u \in Threads, eintr(u) PROVE holder' = t
  BY <1>0, <1>8 DEF TypeOK, Labels, eintr, Goto
<1>9. ASSUME NEW u \in Threads, relock(u) PROVE holder' = t
  BY <1>0, <1>9 DEF TypeOK, Labels, relock, Goto, Return, TheMutex!Acquire
<1>10. ASSUME NEW u \in Threads, thread_cond_signal(u) PROVE holder' = t
  BY <1>0, <1>10 DEF TypeOK, Labels, thread_cond_signal, Goto
<1>11. ASSUME NEW u \in Threads, signal_wake(u) PROVE holder' = t
  BY SMTT(30), <1>0, <1>11 DEF TypeOK, Labels, signal_wake, sys_futex_wake
<1>12. ASSUME NEW u \in Threads, thread_cond_broadcast(u) PROVE holder' = t
  BY <1>0, <1>12 DEF TypeOK, Labels, thread_cond_broadcast, Goto
<1>13. ASSUME NEW u \in Threads, broadcast_wake(u) PROVE holder' = t
  BY <1>0, <1>13 DEF TypeOK, Labels, broadcast_wake, sys_futex_wake_all
<1>14. ASSUME UNCHANGED vars PROVE holder' = t
  BY <1>14 DEF vars
<1> QED
  BY <1>1, <1>2, <1>3, <1>4, <1>5, <1>6, <1>7, <1>8, <1>9, <1>10, <1>11, <1>12, <1>13, <1>14
     DEF Next, Call, Step, pthread_cond_clockwait

(* However a wait ends, its caller holds the mutex when it returns. *)
THEOREM WaitsReturnLocked == Spec => ReturnsLocked
<1>1. IndInv /\ [Next]_vars =>
        [\A t \in Threads :
           pc[t] \in Labels \ {"idle", "signal_wake", "broadcast_wake"}
             /\ pc'[t] = "idle" => holder' = t]_vars
  BY StepReturnsLocked
<1> QED
  BY Inductive, <1>1, PTL DEF Spec, ReturnsLocked

(* The wake of a signaller that holds the mutex takes one of those out of  *)
(* the queue whom the signal is due to, or finds one who cannot sleep.     *)
LEMMA SignalWakes ==
  ASSUME IndInv, NEW s \in Threads, signal_wake(s), holder = s, waitingFor[s] # {}
  PROVE  \E t \in waitingFor[s] :
           \/ pc[t] = "asleep" /\ pc'[t] = "relock"
           \/ pc[t] = "wait_sleep" /\ value[t] # futex
           \/ excuse[t] = "interrupted"
<1>0. TypeOK /\ RetryInv /\ SignalInv
  BY DEF IndInv
<1>1. /\ \A t \in waitingFor[s] : t \in Threads /\ Blocked(t)
      /\ \A t \in Threads : pc[t] = "asleep" => t \in waitingFor[s]
  BY <1>0 DEF TypeOK, SignalInv, Blocked
<1>2. CASE \E t \in Threads : pc[t] = "asleep"
  <2>1. PICK t \in Threads : pc[t] = "asleep" /\ pc'[t] = "relock"
    BY SMTT(30), <1>0, <1>2 DEF TypeOK, signal_wake, sys_futex_wake
  <2> QED
    BY <1>1, <2>1
<1>3. CASE ~\E t \in Threads : pc[t] = "asleep"
  <2>1. PICK t \in waitingFor[s] : TRUE
    OBVIOUS
  <2>2. t \in Threads /\ pc[t] \in {"wait_sleep", "relock_retry", "retry", "wait_unlock"}
        /\ (pc[t] = "wait_unlock" => excuse[t] = "interrupted")
    BY <1>1, <1>3 DEF Blocked
  <2> QED
    BY <1>0, <2>2 DEF RetryInv, SignalInv
<1> QED
  BY <1>2, <1>3

(* A signal sent by the holder of the mutex unblocks one of the threads    *)
(* that were blocked when it was sent.                                     *)
THEOREM SignalsReach == Spec => SignalReaches
<1>1. ASSUME IndInv, [Next]_vars, NEW s \in Threads,
             pc[s] = "signal_wake", pc'[s] = "idle"
      PROVE  signal_wake(s)
  <2>0. TypeOK
    BY <1>1 DEF IndInv
  <2>1. ASSUME NEW u \in Threads, thread_mutex_lock(u) PROVE signal_wake(s)
    BY <1>1, <2>0, <2>1 DEF TypeOK, thread_mutex_lock, TheMutex!Acquire
  <2>2. ASSUME NEW u \in Threads, thread_mutex_unlock(u) PROVE signal_wake(s)
    BY <1>1, <2>0, <2>2 DEF TypeOK, thread_mutex_unlock, TheMutex!Release
  <2>3. ASSUME NEW u \in Threads, thread_cond_wait(u) PROVE signal_wake(s)
    BY <1>1, <2>0, <2>3 DEF TypeOK, thread_cond_wait, Goto
  <2>4. ASSUME NEW u \in Threads, thread_cond_timedwait(u) PROVE signal_wake(s)
    BY <1>1, <2>0, <2>4 DEF TypeOK, thread_cond_timedwait, Goto, Return
  <2>5. ASSUME NEW u \in Threads, wait_unlock(u) PROVE signal_wake(s)
    BY <1>1, <2>0, <2>5 DEF TypeOK, wait_unlock, Goto, TheMutex!Release
  <2>6. ASSUME NEW u \in Threads, wait_sleep(u) PROVE signal_wake(s)
    BY <1>1, <2>0, <2>6 DEF TypeOK, wait_sleep, Goto, sys_futex_wait
  <2>7. ASSUME NEW u \in Threads, timeout(u) PROVE signal_wake(s)
    BY <1>1, <2>0, <2>7 DEF TypeOK, timeout, Goto
  <2>8. ASSUME NEW u \in Threads, eintr(u) PROVE signal_wake(s)
    BY <1>1, <2>0, <2>8 DEF TypeOK, eintr, Goto
  <2>9. ASSUME NEW u \in Threads, relock(u) PROVE signal_wake(s)
    BY <1>1, <2>0, <2>9 DEF TypeOK, relock, Goto, Return, TheMutex!Acquire
  <2>10. ASSUME NEW u \in Threads, thread_cond_signal(u) PROVE signal_wake(s)
    BY <1>1, <2>0, <2>10 DEF TypeOK, thread_cond_signal, Goto
  <2>11. ASSUME NEW u \in Threads, signal_wake(u) PROVE signal_wake(s)
    <3>1. pc[u] = "signal_wake" /\ pc[s] = "signal_wake" /\ pc'[s] # "signal_wake"
      BY <1>1, <2>11 DEF signal_wake
    <3>2. \A v \in Threads : pc[v] = "signal_wake" /\ v # u => pc'[v] = "signal_wake"
      BY SMTT(30), <2>0, <2>11 DEF TypeOK, signal_wake, sys_futex_wake
    <3>3. u = s
      BY <3>1, <3>2
    <3> QED
      BY <2>11, <3>3
  <2>12. ASSUME NEW u \in Threads, thread_cond_broadcast(u) PROVE signal_wake(s)
    BY <1>1, <2>0, <2>12 DEF TypeOK, thread_cond_broadcast, Goto
  <2>13. ASSUME NEW u \in Threads, broadcast_wake(u) PROVE signal_wake(s)
    BY <1>1, <2>0, <2>13 DEF TypeOK, broadcast_wake, sys_futex_wake_all
  <2>14. ~UNCHANGED vars
    BY <1>1 DEF vars
  <2> QED
    BY <1>1, <2>1, <2>2, <2>3, <2>4, <2>5, <2>6, <2>7, <2>8, <2>9, <2>10, <2>11, <2>12, <2>13, <2>14
       DEF Next, Call, Step, pthread_cond_clockwait
<1>2. IndInv /\ [Next]_vars =>
        [\A s \in Threads :
           pc[s] = "signal_wake" /\ pc'[s] = "idle" /\ holder = s
             /\ waitingFor[s] # {} =>
               \E t \in waitingFor[s] :
                 \/ pc[t] = "asleep" /\ pc'[t] = "relock"
                 \/ pc[t] = "wait_sleep" /\ value[t] # futex
                 \/ excuse[t] = "interrupted"]_vars
  BY <1>1, SignalWakes
<1> QED
  BY Inductive, <1>2, PTL DEF Spec, SignalReaches

-----------------------------------------------------------------------------
(* The barrier.  `inside' is the number of threads in a call (CountInv).   *)
(* Until an arrival comes late, `waiting' is Count exactly while one       *)
(* thread, the serial one, is between its arrival and the reset, and every *)
(* arrival is in a complete round or in the open one (RoundInv).  Those of *)
(* the open round are still at the barrier, since the sequence they wait   *)
(* for has not been advanced; threads that a wrapped sequence has left     *)
(* behind may be there too, so that this is an inequality.                 *)

(* Where a thread is inside pthread_barrier_wait, and the threads that are *)
(* there; Open is the number of arrivals in the open round.                *)
Arriving == {"load_sequence", "arrive_load", "arrive_swap"}
Sleeping == {"wait", "asleep", "recheck"}
Serving == {"advance", "reset", "wake"}
In == {t \in Arrivers : place[t] \in Arriving \cup Sleeping \cup Serving \cup {"leave"}}
Before == {t \in Arrivers : place[t] \in Arriving}
Serial == {t \in Arrivers : place[t] \in {"advance", "reset"}}
Resets == {t \in Arrivers : place[t] = "reset"}
Current == {t \in Arrivers : /\ place[t] \in Sleeping \cup {"advance"}
                             /\ seq[t] = sequence}
Open == IF Resets # {} THEN waiting - Count ELSE waiting

(* `inside' counts the threads in a call, and a call has returned or is    *)
(* under way.                                                              *)
CountInv ==
  /\ inside = Cardinality(In)
  /\ calls = passed + inside
  /\ owed \subseteq In

(* One serial thread closes a full round, and every call is in a round     *)
(* that is complete, in the open one, or before its arrival.               *)
RoundInv ==
  /\ waiting <= Count
  /\ waiting = Count <=> Serial # {}
  /\ \A t, u \in Serial : t = u
  /\ calls = rounds * Count + Open + Cardinality(Before)

(* The inductive invariant of the barrier. *)
BarrierInv ==
  /\ BarrierTypeOK /\ CountInv /\ DestroyWaits
  /\ ~late => RoundInv
  /\ ~late /\ ~stale => Open <= Cardinality(Current)

-----------------------------------------------------------------------------

(* The sets that are counted are finite, before a step and after it. *)
LEMMA Finite ==
  /\ IsFiniteSet(In) /\ IsFiniteSet(Before) /\ IsFiniteSet(Current)
  /\ IsFiniteSet(In') /\ IsFiniteSet(Before') /\ IsFiniteSet(Current')
<1>1. \A S \in SUBSET Arrivers : IsFiniteSet(S)
  BY FS_Subset, ArriversAssumption
<1> QED
  BY <1>1 DEF In, Before, Current

(* The sizes of these sets are numbers. *)
LEMMA Sizes ==
  /\ Cardinality(In) \in Nat /\ Cardinality(Before) \in Nat /\ Cardinality(Current) \in Nat
  /\ Cardinality(In') \in Nat /\ Cardinality(Before') \in Nat /\ Cardinality(Current') \in Nat
BY Finite, FS_CardinalityType

(* The invariant holds after pthread_barrier_init. *)
LEMMA BarrierStart == BarrierInit => BarrierInv
<1> SUFFICES ASSUME BarrierInit PROVE BarrierInv
  OBVIOUS
<1>1. BarrierTypeOK
  <2>1. 0 \in (-IntMax - 1)..IntMax
    BY SMTT(30), IntMaxAssumption
  <2> QED
    BY <2>1 DEF BarrierInit, BarrierTypeOK, BarrierLabels
<1>2. In = {} /\ Before = {} /\ Serial = {} /\ Resets = {} /\ Current = {}
  BY DEF BarrierInit, In, Before, Serial, Resets, Current, Arriving, Sleeping, Serving
<1>3. Open = 0 /\ Cardinality(In) = 0 /\ Cardinality(Before) = 0 /\ Cardinality(Current) = 0
  BY <1>2, FS_EmptySet DEF Open, BarrierInit
<1>4. CountInv /\ DestroyWaits
  BY SMTT(30), <1>2, <1>3 DEF CountInv, DestroyWaits, BarrierInit
<1>5. 0 * Count = 0
  BY SMTT(30), CountAssumption
<1>6. RoundInv
  BY SMTT(30), <1>2, <1>3, <1>5, CountAssumption DEF RoundInv, BarrierInit
<1> QED
  BY SMTT(30), <1>1, <1>3, <1>4, <1>6 DEF BarrierInv

(* A step that moves nobody between the sets and counts nothing. *)
LEMMA SameSets ==
  ASSUME BarrierInv, BarrierTypeOK', DestroyWaits',
         UNCHANGED <<waiting, inside, calls, rounds, passed, late, stale>>,
         In' = In, Before' = Before, Serial' = Serial, Resets' = Resets, Current' = Current,
         owed' \subseteq In
  PROVE  BarrierInv'
<1>1. Open' = Open
  BY DEF Open
<1> QED
  BY <1>1 DEF BarrierInv, CountInv, RoundInv

(* A call begins. *)
LEMMA WaitKeeps ==
  ASSUME BarrierInv, NEW t \in Arrivers, pthread_barrier_wait(t)
  PROVE  BarrierInv'
<1>1. /\ place[t] = "idle" /\ place' = [place EXCEPT ![t] = "load_sequence"]
      /\ calls' = calls + 1 /\ inside' = inside + 1
      /\ UNCHANGED <<waiting, sequence, expected, seq, rounds, passed, late, stale,
                     destroyed, owed>>
  BY DEF pthread_barrier_wait, BarrierGoto
<1>2. BarrierTypeOK /\ CountInv /\ DestroyWaits
  BY DEF BarrierInv
<1>3. BarrierTypeOK'
  BY SMTT(30), <1>1, <1>2 DEF BarrierTypeOK, BarrierLabels
<1>4. \A u \in Arrivers : place'[u] = IF u = t THEN "load_sequence" ELSE place[u]
  BY <1>1, <1>2 DEF BarrierTypeOK
<1>5. /\ t \notin In /\ t \notin Before
      /\ In' = In \cup {t} /\ Before' = Before \cup {t}
      /\ Serial' = Serial /\ Resets' = Resets /\ Current' = Current
  BY SMTT(30), <1>1, <1>4 DEF In, Before, Serial, Resets, Current, Arriving, Sleeping, Serving
<1>6. Cardinality(In') = Cardinality(In) + 1 /\ Cardinality(Before') = Cardinality(Before) + 1
  BY <1>5, Finite, FS_AddElement
<1>7. Open' = Open /\ Open \in Int
  BY SMTT(30), <1>1, <1>2, <1>5, CountAssumption DEF Open, BarrierTypeOK
<1>8. CountInv' /\ DestroyWaits'
  BY SMTT(30), <1>1, <1>2, <1>5, <1>6, Sizes DEF CountInv, DestroyWaits, BarrierTypeOK
<1>9. ~late => RoundInv'
  <2>1. rounds * Count \in Int
    BY SMTT(30), <1>2, CountAssumption DEF BarrierTypeOK
  <2> QED
    BY SMTT(30), <1>1, <1>2, <1>5, <1>6, <1>7, <2>1, Sizes DEF BarrierInv, RoundInv, BarrierTypeOK
<1> QED
  BY <1>1, <1>3, <1>5, <1>7, <1>8, <1>9 DEF BarrierInv

(* An arrival counts itself; the one that makes the round full is serial. *)
LEMMA SwapKeeps ==
  ASSUME BarrierInv, NEW t \in Arrivers, arrive_swap(t), waiting = expected[t]
  PROVE  BarrierInv'
<1>1. /\ place[t] = "arrive_swap" /\ waiting' = waiting + 1
      /\ late' = (late \/ waiting >= Count) /\ stale' = (stale \/ seq[t] # sequence)
      /\ place' = [place EXCEPT ![t] = IF waiting' = Count THEN "advance" ELSE "wait"]
      /\ UNCHANGED <<inside, sequence, expected, seq, calls, rounds, passed, destroyed, owed>>
  BY DEF arrive_swap, BarrierGoto
<1>2. BarrierTypeOK /\ CountInv /\ DestroyWaits
  BY DEF BarrierInv
<1>3. BarrierTypeOK'
  <2>1. late' \in BOOLEAN /\ stale' \in BOOLEAN
    BY <1>1, <1>2 DEF BarrierTypeOK
  <2>2. waiting' \in Nat /\ place' \in [Arrivers -> BarrierLabels]
    BY SMTT(30), <1>1, <1>2 DEF BarrierTypeOK, BarrierLabels
  <2> QED
    BY <1>1, <1>2, <2>1, <2>2 DEF BarrierTypeOK
<1>4. \A u \in Arrivers :
        place'[u] = IF u = t THEN (IF waiting' = Count THEN "advance" ELSE "wait")
                    ELSE place[u]
  BY <1>1, <1>2 DEF BarrierTypeOK
<1>5. /\ t \in Before /\ In' = In /\ Before' = Before \ {t} /\ Resets' = Resets
      /\ t \notin Serial /\ Serial' = IF waiting' = Count THEN Serial \cup {t} ELSE Serial
      /\ t \notin Current /\ Current' = IF seq[t] = sequence THEN Current \cup {t} ELSE Current
  BY SMTT(30), <1>1, <1>4 DEF In, Before, Serial, Resets, Current, Arriving, Sleeping, Serving
<1>6. Cardinality(Before') = Cardinality(Before) - 1
  BY <1>5, Finite, FS_RemoveElement
<1>7. Open' = Open + 1 /\ Open \in Int
  BY SMTT(30), <1>1, <1>2, <1>5, CountAssumption DEF Open, BarrierTypeOK
<1>8. CountInv' /\ DestroyWaits'
  BY <1>1, <1>2, <1>5 DEF CountInv, DestroyWaits
<1>9. ASSUME ~late' PROVE RoundInv'
  <2>1. ~late /\ waiting < Count
    <3>1. ~late /\ ~(waiting >= Count)
      BY <1>1, <1>9
    <3> QED
      BY SMTT(30), <1>2, <3>1, CountAssumption DEF BarrierTypeOK
  <2>2. RoundInv /\ Serial = {}
    BY SMTT(30), <1>2, <2>1, CountAssumption DEF BarrierInv, RoundInv, BarrierTypeOK
  <2>3. rounds * Count \in Int
    BY SMTT(30), <1>2, CountAssumption DEF BarrierTypeOK
  <2>4. calls' = rounds' * Count + Open' + Cardinality(Before')
    BY SMTT(30), <1>1, <1>2, <1>6, <1>7, <2>2, <2>3, Sizes DEF RoundInv, BarrierTypeOK
  <2>5. waiting' <= Count
    BY SMTT(30), <1>1, <1>2, <2>1, CountAssumption DEF BarrierTypeOK
  <2>6. (waiting' = Count <=> Serial' # {}) /\ \A a, b \in Serial' : a = b
    BY <1>5, <2>2
  <2> QED
    BY <2>4, <2>5, <2>6 DEF RoundInv
<1>10. ASSUME ~late', ~stale' PROVE Open' <= Cardinality(Current')
  <2>1. ~late /\ ~stale /\ seq[t] = sequence
    BY <1>1, <1>10
  <2>2. Cardinality(Current') = Cardinality(Current) + 1
    BY <1>5, <2>1, Finite, FS_AddElement
  <2> QED
    BY SMTT(30), <1>7, <2>1, <2>2, Sizes DEF BarrierInv
<1> QED
  BY <1>3, <1>8, <1>9, <1>10 DEF BarrierInv

(* The serial thread completes the round. *)
LEMMA AdvanceKeeps ==
  ASSUME BarrierInv, NEW t \in Arrivers, advance(t)
  PROVE  BarrierInv'
<1>1. /\ place[t] = "advance" /\ place' = [place EXCEPT ![t] = "reset"]
      /\ sequence' = Increment(sequence) /\ rounds' = rounds + 1
      /\ UNCHANGED <<waiting, inside, expected, seq, calls, passed, late, stale,
                     destroyed, owed>>
  BY DEF advance, BarrierGoto
<1>2. BarrierTypeOK /\ CountInv /\ DestroyWaits
  BY DEF BarrierInv
<1>3. BarrierTypeOK'
  <2>1. sequence' \in (-IntMax - 1)..IntMax
    BY SMTT(30), <1>1, <1>2, IntMaxAssumption DEF BarrierTypeOK, Increment
  <2> QED
    BY SMTT(30), <1>1, <1>2, <2>1 DEF BarrierTypeOK, BarrierLabels
<1>4. \A u \in Arrivers : place'[u] = IF u = t THEN "reset" ELSE place[u]
  BY <1>1, <1>2 DEF BarrierTypeOK
<1>5. /\ In' = In /\ Before' = Before /\ Serial' = Serial /\ t \in Serial
      /\ t \in Resets' /\ Resets \subseteq Serial \ {t}
  BY SMTT(30), <1>1, <1>4 DEF In, Before, Serial, Resets, Arriving, Sleeping, Serving
<1>6. CountInv' /\ DestroyWaits'
  BY <1>1, <1>2, <1>5 DEF CountInv, DestroyWaits
<1>7. ASSUME ~late PROVE RoundInv' /\ Open' = 0
  <2>1. RoundInv /\ waiting = Count /\ Resets = {}
    BY <1>5, <1>7 DEF BarrierInv, RoundInv
  <2>2. Open = Count /\ Open' = 0
    BY SMTT(30), <1>1, <1>5, <2>1, CountAssumption DEF Open
  <2>3. rounds' * Count = rounds * Count + Count /\ rounds * Count \in Int
    BY SMTT(30), <1>1, <1>2, CountAssumption DEF BarrierTypeOK
  <2>4. calls' = rounds' * Count + Open' + Cardinality(Before')
    BY SMTT(30), <1>1, <1>5, <2>1, <2>2, <2>3, Sizes, CountAssumption DEF RoundInv
  <2> QED
    BY <1>1, <1>5, <2>1, <2>2, <2>4 DEF RoundInv
<1> QED
  BY SMTT(30), <1>1, <1>3, <1>6, <1>7, Sizes DEF BarrierInv

(* It opens the next one. *)
LEMMA ResetKeeps ==
  ASSUME BarrierInv, NEW t \in Arrivers, reset(t)
  PROVE  BarrierInv'
<1>1. /\ place[t] = "reset" /\ place' = [place EXCEPT ![t] = "wake"] /\ waiting' = 0
      /\ UNCHANGED <<inside, sequence, expected, seq, calls, rounds, passed, late, stale,
                     destroyed, owed>>
  BY DEF reset, BarrierGoto
<1>2. BarrierTypeOK /\ CountInv /\ DestroyWaits
  BY DEF BarrierInv
<1>3. BarrierTypeOK'
  BY <1>1, <1>2 DEF BarrierTypeOK, BarrierLabels
<1>4. \A u \in Arrivers : place'[u] = IF u = t THEN "wake" ELSE place[u]
  BY <1>1, <1>2 DEF BarrierTypeOK
<1>5. /\ In' = In /\ Before' = Before /\ Serial' = Serial \ {t} /\ t \in Serial
      /\ t \in Resets /\ Resets' \subseteq Serial'
  BY SMTT(30), <1>1, <1>4 DEF In, Before, Serial, Resets, Arriving, Sleeping, Serving
<1>6. CountInv' /\ DestroyWaits'
  BY <1>1, <1>2, <1>5 DEF CountInv, DestroyWaits
<1>7. ASSUME ~late PROVE RoundInv' /\ Open' = 0
  <2>1. RoundInv /\ waiting = Count /\ Serial' = {}
    BY <1>5, <1>7 DEF BarrierInv, RoundInv
  <2>2. Open = 0 /\ Open' = 0
    BY SMTT(30), <1>1, <1>5, <2>1, CountAssumption DEF Open
  <2> QED
    BY SMTT(30), <1>1, <1>5, <2>1, <2>2, CountAssumption DEF RoundInv
<1> QED
  BY SMTT(30), <1>1, <1>3, <1>6, <1>7, Sizes DEF BarrierInv

(* A thread leaves the barrier. *)
LEMMA LeaveKeeps ==
  ASSUME BarrierInv, NEW t \in Arrivers, leave(t)
  PROVE  BarrierInv'
<1>1. /\ place[t] = "leave" /\ inside' = inside - 1 /\ passed' = passed + 1
      /\ owed' = owed \ {t}
      /\ UNCHANGED <<waiting, sequence, calls, rounds, late, stale, destroyed>>
  BY DEF leave
<1>2. BarrierTypeOK /\ CountInv /\ DestroyWaits
  BY DEF BarrierInv
<1>3. /\ place' \in [Arrivers -> BarrierLabels]
      /\ expected' \in [Arrivers -> Nat] /\ seq' \in [Arrivers -> (-IntMax - 1)..IntMax]
      /\ \A u \in Arrivers : u # t => place'[u] = place[u] /\ seq'[u] = seq[u]
      /\ place'[t] \in {"idle", "leave_wake"}
  BY SMTT(30), <1>2, IntMaxAssumption DEF leave, BarrierReturn, BarrierGoto, BarrierTypeOK, BarrierLabels
<1>4. /\ t \in In /\ In' = In \ {t}
      /\ Before' = Before /\ Serial' = Serial /\ Resets' = Resets /\ Current' = Current
  BY <1>1, <1>3 DEF In, Before, Serial, Resets, Current, Arriving, Sleeping, Serving
<1>5. Cardinality(In') = Cardinality(In) - 1
  BY <1>4, Finite, FS_RemoveElement
<1>6. CountInv'
  BY SMTT(30), <1>1, <1>2, <1>4, <1>5, Sizes DEF CountInv, BarrierTypeOK
<1>7. BarrierTypeOK'
  <2>1. inside' \in Nat
    BY <1>6, Sizes DEF CountInv
  <2> QED
    BY SMTT(30), <1>1, <1>2, <1>3, <2>1 DEF BarrierTypeOK
<1>8. DestroyWaits' /\ Open' = Open
  BY <1>1, <1>2, <1>4 DEF DestroyWaits, Open
<1> QED
  BY <1>1, <1>4, <1>6, <1>7, <1>8 DEF BarrierInv, RoundInv

(* The steps on the way to the barrier that count nothing. *)
LEMMA ArrivalKeeps ==
  ASSUME BarrierInv, NEW t \in Arrivers,
         \/ load_sequence(t) \/ arrive_load(t)
         \/ arrive_swap(t) /\ waiting # expected[t]
  PROVE  BarrierInv'
<1>1. /\ place[t] \in Arriving
      /\ UNCHANGED <<waiting, inside, sequence, calls, rounds, passed, late, stale,
                     destroyed, owed>>
  BY DEF load_sequence, arrive_load, arrive_swap, Arriving
<1>2. BarrierTypeOK /\ CountInv /\ DestroyWaits
  BY DEF BarrierInv
<1>3. /\ place' \in [Arrivers -> BarrierLabels]
      /\ expected' \in [Arrivers -> Nat] /\ seq' \in [Arrivers -> (-IntMax - 1)..IntMax]
      /\ \A u \in Arrivers : u # t => place'[u] = place[u] /\ seq'[u] = seq[u]
      /\ place'[t] \in Arriving
  BY <1>2 DEF load_sequence, arrive_load, arrive_swap, BarrierGoto, BarrierTypeOK,
              BarrierLabels, Arriving
<1>4. BarrierTypeOK' /\ DestroyWaits'
  BY <1>1, <1>2, <1>3 DEF BarrierTypeOK, DestroyWaits
<1>5. /\ In' = In /\ Before' = Before /\ Serial' = Serial /\ Resets' = Resets
      /\ Current' = Current
  BY <1>1, <1>3
     DEF In, Before, Serial, Resets, Current, Arriving, Sleeping, Serving
<1> QED
  BY <1>1, <1>2, <1>4, <1>5, SameSets DEF CountInv

(* The steps of those who sleep, and the wake by the serial thread: who    *)
(* goes on to leave is not of the round that is open.                      *)
LEMMA SleepKeeps ==
  ASSUME BarrierInv, NEW t \in Arrivers,
         barrier_wake(t) \/ barrier_sleep(t) \/ barrier_eintr(t) \/ recheck(t)
  PROVE  BarrierInv'
<1>1. UNCHANGED <<waiting, inside, sequence, expected, seq, calls, rounds, passed, late,
                  stale, destroyed, owed>>
  BY DEF barrier_wake, barrier_sleep, barrier_eintr, recheck
<1>2. BarrierTypeOK /\ CountInv /\ DestroyWaits
  BY DEF BarrierInv
<1>3. /\ place' \in [Arrivers -> BarrierLabels]
      /\ \A u \in Arrivers :
           \/ place'[u] = place[u]
           \/ place[u] \in Sleeping /\ place'[u] \in Sleeping
           \/ place[u] = "wake" /\ place'[u] = "leave"
           \/ place[u] = "recheck" /\ place'[u] = "leave" /\ sequence > seq[u]
  <2>1. CASE barrier_wake(t)
    BY <1>2, <2>1 DEF barrier_wake, sys_futex_wake_all, BarrierTypeOK, BarrierLabels, Sleeping
  <2>2. CASE barrier_sleep(t)
    BY <1>2, <2>2 DEF barrier_sleep, sys_futex_wait, BarrierTypeOK, BarrierLabels, Sleeping
  <2>3. CASE barrier_eintr(t)
    BY <1>2, <2>3 DEF barrier_eintr, BarrierGoto, BarrierTypeOK, BarrierLabels, Sleeping
  <2>4. CASE recheck(t)
    BY <1>2, <2>4 DEF recheck, BarrierGoto, BarrierTypeOK, BarrierLabels, Sleeping
  <2> QED
    BY <2>1, <2>2, <2>3, <2>4
<1>4. BarrierTypeOK' /\ DestroyWaits'
  BY <1>1, <1>2, <1>3 DEF BarrierTypeOK, DestroyWaits
<1>5. In' = In /\ Before' = Before /\ Serial' = Serial /\ Resets' = Resets
  BY <1>3 DEF In, Before, Serial, Resets, Arriving, Sleeping, Serving
<1>6. Current' = Current
  <2>1. \A u \in Arrivers : sequence > seq[u] => seq[u] # sequence
    BY SMTT(30), <1>2 DEF BarrierTypeOK
  <2> QED
    BY <1>1, <1>3, <2>1 DEF Current, Sleeping
<1> QED
  BY <1>1, <1>2, <1>4, <1>5, <1>6, SameSets DEF CountInv

(* pthread_barrier_destroy, and the wake of it. *)
LEMMA DestroyKeeps ==
  ASSUME BarrierInv, NEW t \in Arrivers,
         \/ leave_wake(t) \/ pthread_barrier_destroy(t) \/ destroy_load(t)
         \/ destroy_wait(t) \/ destroy_eintr(t)
  PROVE  BarrierInv'
<1> DEFINE Out == {"idle", "leave_wake", "destroy_load", "destroy_wait", "destroy_asleep"}
<1>1. UNCHANGED <<waiting, inside, sequence, calls, rounds, passed, late, stale>>
  BY DEF leave_wake, pthread_barrier_destroy, destroy_load, destroy_wait, destroy_eintr
<1>2. BarrierTypeOK /\ CountInv /\ DestroyWaits
  BY DEF BarrierInv
<1>3. /\ place' \in [Arrivers -> BarrierLabels]
      /\ expected' \in [Arrivers -> Nat] /\ seq' \in [Arrivers -> (-IntMax - 1)..IntMax]
      /\ destroyed' \in {"no", "running", "empty", "woken", "early"}
      /\ \A u \in Arrivers : \/ place'[u] = place[u] /\ seq'[u] = seq[u]
                             \/ place[u] \in Out /\ place'[u] \in Out
  <2>1. CASE leave_wake(t)
    BY SMTT(30), <1>2, <2>1, IntMaxAssumption DEF leave_wake, BarrierTypeOK, BarrierLabels
  <2>2. CASE pthread_barrier_destroy(t)
    BY <1>2, <2>2 DEF pthread_barrier_destroy, BarrierGoto, BarrierTypeOK, BarrierLabels
  <2>3. CASE destroy_load(t)
    BY <1>2, <2>3 DEF destroy_load, BarrierGoto, BarrierTypeOK, BarrierLabels
  <2>4. CASE destroy_wait(t)
    BY <1>2, <2>4 DEF destroy_wait, BarrierGoto, BarrierTypeOK, BarrierLabels
  <2>5. CASE destroy_eintr(t)
    BY <1>2, <2>5 DEF destroy_eintr, BarrierGoto, BarrierTypeOK, BarrierLabels
  <2> QED
    BY <2>1, <2>2, <2>3, <2>4, <2>5
<1>4. /\ In' = In /\ Before' = Before /\ Serial' = Serial /\ Resets' = Resets
      /\ Current' = Current
  BY <1>1, <1>3 DEF In, Before, Serial, Resets, Current, Arriving, Sleeping, Serving
<1>5. owed' \subseteq In
  <2>1. CASE pthread_barrier_destroy(t)
    BY <2>1 DEF pthread_barrier_destroy, Released, In, Sleeping, Serving
  <2>2. CASE ~pthread_barrier_destroy(t)
    <3>1. owed' = owed
      BY <2>2 DEF leave_wake, destroy_load, destroy_wait, destroy_eintr
    <3> QED
      BY <1>2, <3>1 DEF CountInv
  <2> QED
    BY <2>1, <2>2
<1>6. DestroyWaits'
  <2>1. CASE destroy_load(t) /\ inside = 0
    <3>1. In = {}
      BY <1>2, <2>1, Finite, FS_EmptySet DEF CountInv
    <3> QED
      BY <1>5, <3>1 DEF DestroyWaits
  <2>2. CASE ~(destroy_load(t) /\ inside = 0)
    BY <1>2, <2>2 DEF leave_wake, pthread_barrier_destroy, destroy_load, destroy_wait,
                      destroy_eintr, DestroyWaits
  <2> QED
    BY <2>1, <2>2
<1>7. BarrierTypeOK'
  BY <1>1, <1>2, <1>3, <1>5 DEF BarrierTypeOK, In
<1> QED
  BY <1>1, <1>4, <1>5, <1>6, <1>7, SameSets

(* Every step of the barrier keeps the invariant. *)
LEMMA BarrierNextKeeps == BarrierInv /\ [BarrierNext]_barrierVars => BarrierInv'
<1> SUFFICES ASSUME BarrierInv, [BarrierNext]_barrierVars PROVE BarrierInv'
  OBVIOUS
<1>1. CASE UNCHANGED barrierVars
  BY SMTT(30), <1>1 DEF barrierVars, BarrierInv, BarrierTypeOK, CountInv, DestroyWaits, RoundInv, In,
              Before, Serial, Resets, Current, Open
<1>2. ASSUME NEW t \in Arrivers, BarrierCall(t) PROVE BarrierInv'
  BY <1>2, WaitKeeps, DestroyKeeps DEF BarrierCall
<1>3. ASSUME NEW t \in Arrivers, BarrierStep(t) PROVE BarrierInv'
  BY <1>3, ArrivalKeeps, SwapKeeps, AdvanceKeeps, ResetKeeps, SleepKeeps, LeaveKeeps,
     DestroyKeeps DEF BarrierStep
<1>4. ASSUME NEW t \in Arrivers, barrier_eintr(t) \/ destroy_eintr(t) PROVE BarrierInv'
  BY <1>4, SleepKeeps, DestroyKeeps
<1> QED
  BY <1>1, <1>2, <1>3, <1>4 DEF BarrierNext

(* The barrier lets full rounds through, accounts for every arrival, and   *)
(* is not destroyed under a thread when destroying finds it empty, for any *)
(* number of threads, any count and any number of rounds.                  *)
THEOREM BarrierSafe == BarrierSpec => []BarrierHolds
<1>1. BarrierInv => BarrierHolds
  <2> SUFFICES ASSUME BarrierInv PROVE BarrierHolds
    OBVIOUS
  <2>0. BarrierTypeOK /\ CountInv
    BY DEF BarrierInv
  <2>1. ArrivalsCounted
    <3>1. Resets # {} <=> \E t \in Arrivers : place[t] = "reset"
      BY DEF Resets
    <3> QED
      BY <3>1 DEF BarrierInv, RoundInv, ArrivalsCounted, Open, Before, Arriving
  <2>2. RoundsAreFull
    <3> SUFFICES ASSUME ~late, ~stale PROVE passed <= rounds * Count
      BY DEF RoundsAreFull
    <3>1. Before \cap Current = {} /\ Before \cup Current \in SUBSET In
      BY DEF Before, Current, In, Arriving, Sleeping, Serving
    <3>2. Cardinality(Before \cup Current) = Cardinality(Before) + Cardinality(Current)
      <4>1. Cardinality(Before \cap Current) = 0
        BY <3>1, FS_EmptySet
      <4>2. Cardinality(Before \cup Current) =
              Cardinality(Before) + Cardinality(Current) - Cardinality(Before \cap Current)
        BY Finite, FS_Union
      <4> QED
        BY SMTT(30), <4>1, <4>2, Sizes
    <3>3. Cardinality(Before \cup Current) <= Cardinality(In)
      BY <3>1, Finite, FS_Subset
    <3>4. rounds * Count \in Int /\ Open \in Int
      BY SMTT(30), <2>0, CountAssumption DEF BarrierTypeOK, Open
    <3>5. Open <= Cardinality(Current) /\ calls = rounds * Count + Open + Cardinality(Before)
      BY DEF BarrierInv, RoundInv
    <3>6. calls = passed + Cardinality(In) /\ passed \in Int
      BY SMTT(30), <2>0 DEF CountInv, BarrierTypeOK
    <3> QED
      BY SMTT(30), <3>2, <3>3, <3>4, <3>5, <3>6, Sizes
  <2> QED
    BY <2>1, <2>2 DEF BarrierHolds, BarrierInv
<1> QED
  BY BarrierStart, BarrierNextKeeps, <1>1, PTL DEF BarrierSpec
=============================================================================
