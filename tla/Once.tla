-------------------------------- MODULE Once --------------------------------
(***************************************************************************)
(* thread_once of src/internal/thread.cpp, behind pthread_once and         *)
(* call_once: one futex word that goes from INCOMPLETE through RUNNING     *)
(* and, when somebody waits, QUEUED to COMPLETE.  init_fn takes any number *)
(* of steps and may never return.  A weak compare-and-swap that fails      *)
(* spuriously reloads what it already had and is a stuttering step.        *)
(***************************************************************************)
EXTENDS Naturals, Futex

CONSTANT Threads     \* the threads that call thread_once, each of them once

VARIABLES
  once,    \* the futex word
  pc,      \* where each thread is
  state,   \* thread_once's local variable
  starts,  \* history: how many times init_fn has been called
  done     \* history: whether a call of init_fn has returned

vars == <<once, pc, state, starts, done>>

-----------------------------------------------------------------------------

States == {"INCOMPLETE", "QUEUED", "RUNNING", "COMPLETE"}

Labels == {"idle",
           "load",       \* before a load of the word
           "check",      \* at the head of the loop with a value in `state'
           "init",       \* inside init_fn
           "complete",   \* init_fn has returned
           "wake",       \* the word said somebody is queued
           "wait",       \* about to enter sys_futex_wait
           "asleep",     \* inside it
           "returned"}

(* PTHREAD_ONCE_INIT. *)
Init ==
  /\ once = "INCOMPLETE"
  /\ pc = [t \in Threads |-> "idle"]
  /\ state = [t \in Threads |-> "INCOMPLETE"]
  /\ starts = 0
  /\ done = FALSE

Goto(t, label) == pc' = [pc EXCEPT ![t] = label]

thread_once(t) ==
  /\ pc[t] = "idle"
  /\ Goto(t, "load")
  /\ UNCHANGED <<once, state, starts, done>>

load(t) ==
  /\ pc[t] = "load"
  /\ state' = [state EXCEPT ![t] = once]
  /\ Goto(t, "check")
  /\ UNCHANGED <<once, starts, done>>

(* Mutant: a plain store in place of the compare-and-swap to RUNNING. *)
RunWithoutSwap(t) ==
  /\ pc[t] = "check"
  /\ state[t] = "INCOMPLETE"
  /\ once' = "RUNNING"
  /\ starts' = starts + 1
  /\ Goto(t, "init")
  /\ UNCHANGED <<state, done>>

(* The compare-and-swap of INCOMPLETE to RUNNING, and the call of init_fn. *)
run(t) ==
  /\ pc[t] = "check"
  /\ state[t] = "INCOMPLETE"
  /\ IF once = "INCOMPLETE"
       THEN /\ once' = "RUNNING"
            /\ starts' = starts + 1
            /\ Goto(t, "init")
            /\ UNCHANGED state
       ELSE /\ state' = [state EXCEPT ![t] = once]
            /\ UNCHANGED <<once, starts, pc>>
  /\ UNCHANGED done

(* External: the client's function returns. *)
init_fn(t) ==
  /\ pc[t] = "init"
  /\ done' = TRUE
  /\ Goto(t, "complete")
  /\ UNCHANGED <<once, state, starts>>

(* exchange(COMPLETE): QUEUED means that somebody may be asleep. *)
complete(t) ==
  /\ pc[t] = "complete"
  /\ once' = "COMPLETE"
  /\ Goto(t, IF once = "QUEUED" THEN "wake" ELSE "returned")
  /\ UNCHANGED <<state, starts, done>>

wake(t) ==
  /\ pc[t] = "wake"
  /\ pc' = [sys_futex_wake_all(pc, "asleep", "load") EXCEPT ![t] = "returned"]
  /\ UNCHANGED <<once, state, starts, done>>

(* The compare-and-swap of RUNNING to QUEUED. *)
queue(t) ==
  /\ pc[t] = "check"
  /\ state[t] = "RUNNING"
  /\ IF once = "RUNNING"
       THEN /\ once' = "QUEUED"
            /\ Goto(t, "wait")
            /\ UNCHANGED state
       ELSE /\ state' = [state EXCEPT ![t] = once]
            /\ UNCHANGED <<once, pc>>
  /\ UNCHANGED <<starts, done>>

queued(t) ==
  /\ pc[t] = "check"
  /\ state[t] = "QUEUED"
  /\ Goto(t, "wait")
  /\ UNCHANGED <<once, state, starts, done>>

(* sys_futex_wait(QUEUED); its result, EINTR included, is ignored. *)
wait(t) ==
  /\ pc[t] = "wait"
  /\ pc' = sys_futex_wait(pc, t, once, "QUEUED", "asleep", "load")
  /\ UNCHANGED <<once, state, starts, done>>

eintr(t) ==
  /\ pc[t] = "asleep"
  /\ Goto(t, "load")
  /\ UNCHANGED <<once, state, starts, done>>

return(t) ==
  /\ pc[t] = "check"
  /\ state[t] = "COMPLETE"
  /\ Goto(t, "returned")
  /\ UNCHANGED <<once, state, starts, done>>

-----------------------------------------------------------------------------

Step(t) ==
  \/ load(t) \/ run(t) \/ complete(t) \/ wake(t)
  \/ queue(t) \/ queued(t) \/ wait(t) \/ return(t)

(* When everyone has returned nothing is left to do. *)
AllReturned == (\A t \in Threads : pc[t] = "returned") /\ UNCHANGED vars

Next ==
  \/ \E t \in Threads : thread_once(t)
  \/ \E t \in Threads : Step(t)
  \/ \E t \in Threads : init_fn(t)
  \/ \E t \in Threads : eintr(t)
  \/ AllReturned

Spec == Init /\ [][Next]_vars

(* Threads inside thread_once are scheduled, and init_fn returns. *)
FairSpec == Spec /\ \A t \in Threads : WF_vars(Step(t)) /\ WF_vars(init_fn(t))

-----------------------------------------------------------------------------
(* Properties *)

TypeOK ==
  /\ once \in States
  /\ pc \in [Threads -> Labels]
  /\ state \in [Threads -> States]
  /\ starts \in Nat
  /\ done \in BOOLEAN

(* init_fn is called at most once, however many threads meet in            *)
(* thread_once and whatever value of the word each of them saw first; and  *)
(* whoever returns from thread_once does so after init_fn has returned, in *)
(* particular a caller that met the routine while another thread ran it.   *)
InitRunsOnce ==
  /\ starts <= 1
  /\ \A t \in Threads : pc[t] = "returned" => done

(* While somebody sleeps on the word, it says QUEUED, so that the runner   *)
(* will wake the sleepers, or the runner is on its way to waking them.     *)
NoLostWakeup ==
  (\E t \in Threads : pc[t] = "asleep") =>
    once = "QUEUED" \/ \E u \in Threads : pc[u] = "wake"

(* Every call of thread_once returns. *)
EveryCallReturns ==
  \A t \in Threads : pc[t] = "load" ~> pc[t] = "returned"

=============================================================================
