-------------------------------- MODULE Cond --------------------------------
(***************************************************************************)
(* The condition variable of src/internal/thread.cpp, behind               *)
(* pthread_cond_* and cnd_*, composed with the mutex its clients use,      *)
(* which is taken at its abstract specification.                           *)
(*                                                                         *)
(* The condition variable is a counter: a waiter reads it while it still   *)
(* holds the mutex and sleeps only if it has not changed; a signal and a   *)
(* broadcast increment it and wake one sleeper or all of them.  The model  *)
(* keeps the number of increments and compares it the way the kernel does, *)
(* modulo the width of the word.  Clients lock, unlock, wait, signal and   *)
(* broadcast in any order, with or without holding the mutex when they     *)
(* signal; they hold it, once, when they wait, as the interface demands.   *)
(***************************************************************************)
EXTENDS Naturals, Futex

CONSTANTS Threads,
          NoThread,
          Modulus,     \* 2^32 in the code: how many values the word has
          MaxSignals   \* bound: the number of signals and broadcasts

ASSUME NoThreadAssumption == NoThread \notin Threads
ASSUME ModulusAssumption == Modulus \in Nat \ {0}
ASSUME MaxSignalsAssumption == MaxSignals \in Nat

VARIABLES
  futex,       \* the increments of the word so far
  holder,      \* who holds the mutex
  pc,          \* where each thread is
  value,       \* the counter as the waiter last loaded it
  timed,       \* whether the thread is in thread_cond_timedwait
  told,        \* history: a broadcast has counted since the thread blocked
  waitingFor,  \* history: who was blocked when a signaller counted, while
               \* none of them has been unblocked
  excuse       \* history: why a wait may sleep through a broadcast

vars == <<futex, holder, pc, value, timed, told, waitingFor, excuse>>

-----------------------------------------------------------------------------

TheMutex == INSTANCE AbstractMutex
              WITH depth <- IF holder = NoThread THEN 0 ELSE 1,
                   recursive <- FALSE

Word(n) == n % Modulus

Labels == {"idle",
           "wait_unlock",     \* has loaded the counter, holds the mutex
           "wait_sleep",      \* has released it, about to sleep
           "asleep",
           "relock",          \* the wait is over, taking the mutex again
           "relock_retry",    \* EINTR in a timed wait, taking it to go on
           "retry",           \* has it, at the head of the loop again
           "signal_wake",     \* has counted, about to wake one
           "broadcast_wake"}  \* has counted, about to wake all

Init ==
  /\ futex = 0
  /\ holder = NoThread
  /\ pc = [t \in Threads |-> "idle"]
  /\ value = [t \in Threads |-> 0]
  /\ timed = [t \in Threads |-> FALSE]
  /\ told = [t \in Threads |-> FALSE]
  /\ waitingFor = [t \in Threads |-> {}]
  /\ excuse = [t \in Threads |-> "none"]

Goto(t, label) == pc' = [pc EXCEPT ![t] = label]

(* A wait returns, and its local variables are gone; which code it returns *)
(* no property tells apart.                                                *)
Return(t) ==
  /\ Goto(t, "idle")
  /\ value' = [value EXCEPT ![t] = 0]
  /\ timed' = [timed EXCEPT ![t] = FALSE]
  /\ excuse' = [excuse EXCEPT ![t] = "none"]

(* To its client a thread is blocked from the release of the mutex until   *)
(* it is on its way out; a timed wait that retries after EINTR still is.   *)
Blocked(t) ==
  \/ pc[t] \in {"wait_sleep", "asleep", "relock_retry", "retry"}
  \/ pc[t] = "wait_unlock" /\ excuse[t] = "interrupted"

-----------------------------------------------------------------------------
(* The client and its mutex *)

thread_mutex_lock(t) ==
  /\ pc[t] = "idle"
  /\ TheMutex!Acquire(t)
  /\ UNCHANGED <<futex, pc, value, timed, excuse>>

thread_mutex_unlock(t) ==
  /\ pc[t] = "idle"
  /\ TheMutex!Release(t)
  /\ UNCHANGED <<futex, pc, value, timed, excuse>>

-----------------------------------------------------------------------------
(* Waiting *)

(* The call, up to the load of the counter. *)
thread_cond_wait(t) ==
  /\ pc[t] = "idle"
  /\ holder = t
  /\ value' = [value EXCEPT ![t] = futex]
  /\ Goto(t, "wait_unlock")
  /\ UNCHANGED <<futex, holder, timed, excuse>>

(* One round of the loop: the clock fails or the deadline has passed, and  *)
(* the call returns without ever releasing the mutex, or it loads the      *)
(* counter.                                                                *)
thread_cond_timedwait(t) ==
  /\ pc[t] \in {"idle", "retry"}
  /\ holder = t
  /\ \/ Return(t)
     \/ /\ value' = [value EXCEPT ![t] = futex]
        /\ timed' = [timed EXCEPT ![t] = TRUE]
        /\ Goto(t, "wait_unlock")
        /\ UNCHANGED excuse
  /\ UNCHANGED <<futex, holder>>

(* The same loop against the clock the caller names. *)
pthread_cond_clockwait(t) == thread_cond_timedwait(t)

wait_unlock(t) ==
  /\ pc[t] = "wait_unlock"
  /\ TheMutex!Release(t)
  /\ Goto(t, "wait_sleep")
  /\ UNCHANGED <<futex, value, timed, excuse>>

(* Mutant: the word to compare with is loaded just before the sleep. *)
SleepOnFreshWord(t) ==
  /\ pc[t] = "wait_sleep"
  /\ Goto(t, "asleep")
  /\ UNCHANGED <<futex, holder, value, timed, excuse>>

(* sys_futex_wait on the loaded value.  EAGAIN, and the EINVAL that a      *)
(* relative timeout with negative nanoseconds earns, end the wait with 0.  *)
wait_sleep(t) ==
  /\ pc[t] = "wait_sleep"
  /\ \/ /\ pc' = sys_futex_wait(pc, t, Word(futex), Word(value[t]),
                                "asleep", "relock")
        /\ excuse' = [excuse EXCEPT ![t] =
                        IF pc'[t] = "asleep" /\ value[t] # futex
                          THEN "wrapped" ELSE @]
     \/ /\ timed[t]
        /\ Goto(t, "relock")
        /\ UNCHANGED excuse
  /\ UNCHANGED <<futex, holder, value, timed>>

(* Mutant: a timeout returns without taking the mutex again. *)
TimeoutSkipsRelock(t) ==
  /\ pc[t] = "asleep"
  /\ timed[t]
  /\ Return(t)
  /\ UNCHANGED <<futex, holder>>

(* The relative timeout runs out in the kernel. *)
timeout(t) ==
  /\ pc[t] = "asleep"
  /\ timed[t]
  /\ Goto(t, "relock")
  /\ UNCHANGED <<futex, holder, value, timed, excuse>>

(* A signal handler interrupts the sleep: a plain wait returns 0, a timed  *)
(* one goes round its loop.                                                *)
eintr(t) ==
  /\ pc[t] = "asleep"
  /\ IF timed[t]
       THEN /\ Goto(t, "relock_retry")
            /\ excuse' = [excuse EXCEPT ![t] = "interrupted"]
       ELSE /\ Goto(t, "relock")
            /\ UNCHANGED excuse
  /\ UNCHANGED <<futex, holder, value, timed>>

(* thread_mutex_lock at the end of a round. *)
relock(t) ==
  /\ pc[t] \in {"relock", "relock_retry"}
  /\ TheMutex!Acquire(t)
  /\ IF pc[t] = "relock"
       THEN Return(t)
       ELSE Goto(t, "retry") /\ UNCHANGED <<value, timed, excuse>>
  /\ UNCHANGED futex

-----------------------------------------------------------------------------
(* Signalling *)

(* Mutant: a signal only wakes. *)
SignalDoesNotCount(t) ==
  /\ pc[t] = "idle"
  /\ futex < MaxSignals
  /\ Goto(t, "signal_wake")
  /\ UNCHANGED <<futex, holder, value, timed, excuse>>

thread_cond_signal(t) ==
  /\ pc[t] = "idle"
  /\ futex < MaxSignals
  /\ futex' = futex + 1
  /\ Goto(t, "signal_wake")
  /\ UNCHANGED <<holder, value, timed, excuse>>

signal_wake(t) ==
  /\ pc[t] = "signal_wake"
  /\ \E woken \in sys_futex_wake(pc, "asleep", "relock") :
       pc' = [woken EXCEPT ![t] = "idle"]
  /\ UNCHANGED <<futex, holder, value, timed, excuse>>

thread_cond_broadcast(t) ==
  /\ pc[t] = "idle"
  /\ futex < MaxSignals
  /\ futex' = futex + 1
  /\ Goto(t, "broadcast_wake")
  /\ UNCHANGED <<holder, value, timed, excuse>>

broadcast_wake(t) ==
  /\ pc[t] = "broadcast_wake"
  /\ pc' = [sys_futex_wake_all(pc, "asleep", "relock") EXCEPT ![t] = "idle"]
  /\ UNCHANGED <<futex, holder, value, timed, excuse>>

-----------------------------------------------------------------------------

Starts(t, label) == pc[t] # label /\ pc'[t] = label

(* The histories follow every step: a broadcast tells everyone blocked, a  *)
(* signal is due to those blocked when it counts until one of them is out. *)
History ==
  /\ told' = [t \in Threads |->
                /\ Blocked(t)'
                /\ told[t] \/ \E s \in Threads : Starts(s, "broadcast_wake")]
  /\ waitingFor' =
       [s \in Threads |->
          IF Starts(s, "signal_wake") THEN {t \in Threads : Blocked(t)}
          ELSE IF /\ pc'[s] = "signal_wake"
                  /\ \A t \in waitingFor[s] : Blocked(t)'
            THEN waitingFor[s] ELSE {}]

(* The steps that only the scheduler is needed for. *)
Step(t) ==
  \/ wait_unlock(t) \/ wait_sleep(t)
  \/ signal_wake(t) \/ broadcast_wake(t)

Call(t) ==
  \/ thread_mutex_lock(t) \/ thread_mutex_unlock(t)
  \/ thread_cond_wait(t) \/ thread_cond_signal(t) \/ thread_cond_broadcast(t)

Next ==
  \/ \E t \in Threads : Call(t) /\ History
  \/ \E t \in Threads : thread_cond_timedwait(t) /\ History
  \/ \E t \in Threads : pthread_cond_clockwait(t) /\ History
  \/ \E t \in Threads : Step(t) /\ History
  \/ \E t \in Threads : relock(t) /\ History
  \/ \E t \in Threads : timeout(t) /\ History
  \/ \E t \in Threads : eintr(t) /\ History

Spec == Init /\ [][Next]_vars

(* Threads inside a call are scheduled; nothing is assumed of the mutex,   *)
(* of timeouts or of the clients.                                          *)
FairSpec == Spec /\ \A t \in Threads : WF_vars(Step(t) /\ History)

-----------------------------------------------------------------------------
(* Properties *)

TypeOK ==
  /\ futex \in 0..MaxSignals
  /\ holder \in Threads \cup {NoThread}
  /\ pc \in [Threads -> Labels]
  /\ value \in [Threads -> 0..MaxSignals]
  /\ timed \in [Threads -> BOOLEAN]
  /\ told \in [Threads -> BOOLEAN]
  /\ waitingFor \in [Threads -> SUBSET Threads]
  /\ excuse \in [Threads -> {"none", "interrupted", "wrapped"}]

(* However a wait ends - woken, interrupted, timed out, or without ever    *)
(* having slept - its caller holds the mutex when it returns.              *)
ReturnsLocked ==
  [][\A t \in Threads :
       pc[t] \in Labels \ {"idle", "signal_wake", "broadcast_wake"}
         /\ pc'[t] = "idle" => holder' = t]_vars

(* Nobody who was blocked when a broadcast counted sleeps on after it,     *)
(* except a timed wait that EINTR took out of the queue and sent round its *)
(* loop, where it loads the new count and forgets the broadcast, and a     *)
(* wait during whose first steps the counter wrapped round to its value.   *)
NoMissedBroadcast ==
  \A t \in Threads :
    told[t] /\ pc[t] = "asleep" /\ excuse[t] = "none" =>
      \E s \in Threads : pc[s] = "broadcast_wake"

(* A signal sent by the holder of the mutex unblocks one of the threads    *)
(* that were blocked when it was sent: it wakes one of them, or has made   *)
(* one of them find the counter changed.  Nobody who comes later takes it. *)
(* A timed wait in its EINTR retry, or a wrapped counter, may lose it.     *)
SignalReaches ==
  [][\A s \in Threads :
       pc[s] = "signal_wake" /\ pc'[s] = "idle" /\ holder = s
         /\ waitingFor[s] # {} =>
           \E t \in waitingFor[s] :
             \/ pc[t] = "asleep" /\ pc'[t] = "relock"
             \/ pc[t] = "wait_sleep" /\ value[t] # futex
             \/ excuse[t] = "interrupted"]_vars

(* A thread blocked when a broadcast counted gets out of its sleep, except *)
(* as above: the order of the count and the wake leaves no gap.            *)
BroadcastWakes ==
  \A t \in Threads :
    told[t] ~> ~told[t] \/ excuse[t] # "none"

(* Those who wait are reached: by a signal of the holder, and by a         *)
(* broadcast, with the exceptions above.                                   *)
WaitersReached == SignalReaches /\ BroadcastWakes
=============================================================================
