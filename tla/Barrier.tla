------------------------------ MODULE Barrier ------------------------------
(***************************************************************************)
(* The barrier of src/posix/pthread.cpp.  An arrival increments `waiting'; *)
(* the one that makes it Count advances `sequence', resets `waiting' and   *)
(* wakes the others, in three separate steps.  `inside' counts the threads *)
(* that still touch the barrier, for pthread_barrier_destroy to wait for.  *)
(* Clients may reuse the barrier at once, with Count threads or more; one  *)
(* of them destroys it when nobody is blocked on it.                       *)
(***************************************************************************)
EXTENDS Integers, FiniteSets, Futex

CONSTANTS Arrivers,
          Count,     \* the count the barrier is initialised with
          IntMax,    \* 2^31 - 1 in the code: the largest `sequence'
          MaxCalls   \* bound: calls of pthread_barrier_wait

ASSUME ArriversAssumption == IsFiniteSet(Arrivers)
ASSUME CountAssumption == Count \in Nat \ {0}
ASSUME IntMaxAssumption == IntMax \in Nat
ASSUME MaxCallsAssumption == MaxCalls \in Nat

VARIABLES
  waiting, inside, sequence,  \* the barrier's three words
  place,         \* where each thread is
  expected,   \* its local copy of `waiting', or of `inside' in destroy
  seq,        \* its local copy of `sequence'
  calls,      \* history: calls of pthread_barrier_wait
  rounds,     \* history: times that `sequence' was advanced
  passed,     \* history: threads that got past the barrier
  late,       \* history: a thread arrived after the last arrival of a
              \* round and before the reset, which wipes it out
  stale,      \* history: a thread arrived with a sequence since advanced
  destroyed,  \* "no", "running", or how pthread_barrier_destroy returned
  owed        \* history: threads inside when it was called, not yet out

barrierVars == <<waiting, inside, sequence, place, expected, seq, calls, rounds,
          passed, late, stale, destroyed, owed>>

-----------------------------------------------------------------------------

BarrierLabels == {"idle", "load_sequence", "arrive_load", "arrive_swap",
           "advance", "reset", "wake",        \* the serial thread
           "wait", "asleep", "recheck",       \* the others
           "leave", "leave_wake",
           "destroy_load", "destroy_wait", "destroy_asleep"}

(* pthread_barrier_init. *)
BarrierInit ==
  /\ waiting = 0 /\ inside = 0 /\ sequence = 0
  /\ place = [t \in Arrivers |-> "idle"]
  /\ expected = [t \in Arrivers |-> 0]
  /\ seq = [t \in Arrivers |-> 0]
  /\ calls = 0 /\ rounds = 0 /\ passed = 0
  /\ late = FALSE /\ stale = FALSE
  /\ destroyed = "no"
  /\ owed = {}

BarrierGoto(t, label) == place' = [place EXCEPT ![t] = label]

BarrierReturn(t) ==
  /\ BarrierGoto(t, "idle")
  /\ expected' = [expected EXCEPT ![t] = 0]
  /\ seq' = [seq EXCEPT ![t] = 0]

(* fetch_add on a 32-bit int wraps round. *)
Increment(n) == IF n = IntMax THEN -IntMax - 1 ELSE n + 1

-----------------------------------------------------------------------------
(* pthread_barrier_wait *)

(* The call and `inside.fetch_add'. *)
pthread_barrier_wait(t) ==
  /\ place[t] = "idle"
  /\ destroyed = "no"
  /\ calls < MaxCalls
  /\ calls' = calls + 1
  /\ inside' = inside + 1
  /\ BarrierGoto(t, "load_sequence")
  /\ UNCHANGED <<waiting, sequence, expected, seq, rounds, passed, late, stale,
                 destroyed, owed>>

load_sequence(t) ==
  /\ place[t] = "load_sequence"
  /\ seq' = [seq EXCEPT ![t] = sequence]
  /\ BarrierGoto(t, "arrive_load")
  /\ UNCHANGED <<waiting, inside, sequence, expected, calls, rounds, passed,
                 late, stale, destroyed, owed>>

arrive_load(t) ==
  /\ place[t] = "arrive_load"
  /\ expected' = [expected EXCEPT ![t] = waiting]
  /\ BarrierGoto(t, "arrive_swap")
  /\ UNCHANGED <<waiting, inside, sequence, seq, calls, rounds, passed,
                 late, stale, destroyed, owed>>

(* The compare-and-swap; a failure loads again. *)
arrive_swap(t) ==
  /\ place[t] = "arrive_swap"
  /\ IF waiting = expected[t]
       THEN /\ waiting' = waiting + 1
            /\ late' = (late \/ waiting >= Count)
            /\ stale' = (stale \/ seq[t] # sequence)
            /\ BarrierGoto(t, IF waiting' = Count THEN "advance" ELSE "wait")
       ELSE /\ BarrierGoto(t, "arrive_load")
            /\ UNCHANGED <<waiting, late, stale>>
  /\ UNCHANGED <<inside, sequence, expected, seq, calls, rounds, passed,
                 destroyed, owed>>

advance(t) ==
  /\ place[t] = "advance"
  /\ sequence' = Increment(sequence)
  /\ rounds' = rounds + 1
  /\ BarrierGoto(t, "reset")
  /\ UNCHANGED <<waiting, inside, expected, seq, calls, passed, late, stale,
                 destroyed, owed>>

(* waiting.store(0): arrivals since the last one of the round are lost. *)
reset(t) ==
  /\ place[t] = "reset"
  /\ waiting' = 0
  /\ BarrierGoto(t, "wake")
  /\ UNCHANGED <<inside, sequence, expected, seq, calls, rounds, passed,
                 late, stale, destroyed, owed>>

barrier_wake(t) ==
  /\ place[t] = "wake"
  /\ place' = [sys_futex_wake_all(place, "asleep", "recheck") EXCEPT ![t] = "leave"]
  /\ UNCHANGED <<waiting, inside, sequence, expected, seq, calls, rounds,
                 passed, late, stale, destroyed, owed>>

barrier_sleep(t) ==
  /\ place[t] = "wait"
  /\ place' = sys_futex_wait(place, t, sequence, seq[t], "asleep", "recheck")
  /\ UNCHANGED <<waiting, inside, sequence, expected, seq, calls, rounds,
                 passed, late, stale, destroyed, owed>>

barrier_eintr(t) ==
  /\ place[t] = "asleep"
  /\ BarrierGoto(t, "recheck")
  /\ UNCHANGED <<waiting, inside, sequence, expected, seq, calls, rounds,
                 passed, late, stale, destroyed, owed>>

(* Mutant: a sleep that ends is taken for the end of the round. *)
RecheckTrustsWake(t) ==
  /\ place[t] = "recheck"
  /\ BarrierGoto(t, "leave")
  /\ UNCHANGED <<waiting, inside, sequence, expected, seq, calls, rounds,
                 passed, late, stale, destroyed, owed>>

(* new_sequence > sequence, on signed integers. *)
recheck(t) ==
  /\ place[t] = "recheck"
  /\ BarrierGoto(t, IF sequence > seq[t] THEN "leave" ELSE "wait")
  /\ UNCHANGED <<waiting, inside, sequence, expected, seq, calls, rounds,
                 passed, late, stale, destroyed, owed>>

(* leave(): the last thread out wakes a destroyer. *)
leave(t) ==
  /\ place[t] = "leave"
  /\ inside' = inside - 1
  /\ passed' = passed + 1
  /\ owed' = owed \ {t}
  /\ IF inside' = 0
       THEN BarrierGoto(t, "leave_wake") /\ UNCHANGED <<expected, seq>>
       ELSE BarrierReturn(t)
  /\ UNCHANGED <<waiting, sequence, calls, rounds, late, stale, destroyed>>

leave_wake(t) ==
  /\ place[t] = "leave_wake"
  /\ place' = [u \in Arrivers |->
              IF u = t THEN "idle"
              ELSE IF place[u] = "destroy_asleep" THEN "idle" ELSE place[u]]
  /\ destroyed' = IF \E u \in Arrivers : place[u] = "destroy_asleep"
                    THEN "woken" ELSE destroyed
  /\ expected' = [expected EXCEPT ![t] = 0]
  /\ seq' = [seq EXCEPT ![t] = 0]
  /\ UNCHANGED <<waiting, inside, sequence, calls, rounds, passed, late,
                 stale, owed>>

-----------------------------------------------------------------------------
(* pthread_barrier_destroy *)

Released(t) ==
  \/ place[t] \in {"idle", "advance", "reset", "wake", "leave", "leave_wake"}
  \/ place[t] \in {"wait", "asleep", "recheck"} /\ sequence > seq[t]

(* Called when no thread is blocked at the barrier. *)
pthread_barrier_destroy(t) ==
  /\ place[t] = "idle"
  /\ destroyed = "no"
  /\ calls > 0
  /\ \A u \in Arrivers : Released(u)
  /\ destroyed' = "running"
  /\ owed' = {u \in Arrivers : place[u] \notin {"idle", "leave_wake"}}
  /\ BarrierGoto(t, "destroy_load")
  /\ UNCHANGED <<waiting, inside, sequence, expected, seq, calls, rounds,
                 passed, late, stale>>

destroy_load(t) ==
  /\ place[t] = "destroy_load"
  /\ IF inside = 0
       THEN /\ destroyed' = "empty"
            /\ BarrierGoto(t, "idle")
            /\ UNCHANGED expected
       ELSE /\ expected' = [expected EXCEPT ![t] = inside]
            /\ BarrierGoto(t, "destroy_wait")
            /\ UNCHANGED destroyed
  /\ UNCHANGED <<waiting, inside, sequence, seq, calls, rounds, passed,
                 late, stale, owed>>

(* sys_futex_wait; its local `inside' stays 0, so the loop is not repeated *)
(* even when the wait ends with EAGAIN.                                    *)
destroy_wait(t) ==
  /\ place[t] = "destroy_wait"
  /\ IF inside = expected[t]
       THEN BarrierGoto(t, "destroy_asleep") /\ UNCHANGED destroyed
       ELSE BarrierGoto(t, "idle") /\ destroyed' = "early"
  /\ expected' = [expected EXCEPT ![t] = 0]
  /\ UNCHANGED <<waiting, inside, sequence, seq, calls, rounds, passed,
                 late, stale, owed>>

destroy_eintr(t) ==
  /\ place[t] = "destroy_asleep"
  /\ BarrierGoto(t, "idle")
  /\ destroyed' = "early"
  /\ UNCHANGED <<waiting, inside, sequence, expected, seq, calls, rounds,
                 passed, late, stale, owed>>

-----------------------------------------------------------------------------

BarrierStep(t) ==
  \/ load_sequence(t) \/ arrive_load(t) \/ arrive_swap(t)
  \/ advance(t) \/ reset(t) \/ barrier_wake(t)
  \/ barrier_sleep(t) \/ recheck(t) \/ leave(t) \/ leave_wake(t)
  \/ destroy_load(t) \/ destroy_wait(t)

BarrierCall(t) == pthread_barrier_wait(t) \/ pthread_barrier_destroy(t)

BarrierNext ==
  \/ \E t \in Arrivers : BarrierCall(t)
  \/ \E t \in Arrivers : BarrierStep(t)
  \/ \E t \in Arrivers : barrier_eintr(t)
  \/ \E t \in Arrivers : destroy_eintr(t)

BarrierSpec == BarrierInit /\ [][BarrierNext]_barrierVars

(* Threads inside a call are scheduled.                                    *)
BarrierFairSpec == BarrierSpec /\ \A t \in Arrivers : WF_barrierVars(BarrierStep(t))

-----------------------------------------------------------------------------
(* Properties *)

BarrierTypeOK ==
  /\ waiting \in Nat /\ inside \in Nat
  /\ sequence \in (-IntMax - 1)..IntMax
  /\ place \in [Arrivers -> BarrierLabels]
  /\ expected \in [Arrivers -> Nat]
  /\ seq \in [Arrivers -> (-IntMax - 1)..IntMax]
  /\ calls \in Nat /\ rounds \in Nat /\ passed \in Nat
  /\ late \in BOOLEAN /\ stale \in BOOLEAN
  /\ destroyed \in {"no", "running", "empty", "woken", "early"}
  /\ owed \subseteq Arrivers

(* A round lets Count threads through and no more, unless a thread comes   *)
(* between the last arrival of a round and the reset of `waiting', which   *)
(* wipes it out, or arrives with the sequence of the round before, with    *)
(* which it passes at once.  The second takes more than Count threads.     *)
RoundsAreFull == late \/ stale \/ passed <= rounds * Count

(* Every arrival is accounted for, in a complete round or in `waiting',    *)
(* until one comes between the last of a round and the reset.              *)
ArrivalsCounted ==
  ~late =>
    LET before == {t \in Arrivers : place[t] \in
                     {"load_sequence", "arrive_load", "arrive_swap"}}
        open == IF \E t \in Arrivers : place[t] = "reset"
                  THEN waiting - Count ELSE waiting
    IN  calls = rounds * Count + open + Cardinality(before)

(* pthread_barrier_destroy that finds nobody inside is right.  When it has *)
(* to wait it waits once: EAGAIN, EINTR, or the delayed wake of a thread   *)
(* that was last out before others came in, end it with threads inside.    *)
DestroyWaits == destroyed = "empty" => owed = {}

(* pthread_barrier_destroy returns: the last thread out wakes it, or its   *)
(* wait fails because the count has changed.                               *)
DestroyReturns ==
  destroyed = "running" ~> destroyed # "running" \/ rounds > IntMax

(* When a multiple of Count threads have called, all of them pass, unless  *)
(* an arrival was wiped out (its round then waits for ever) or `sequence'  *)
(* has gone past IntMax, when a later value is no longer the larger one.   *)
EveryonePasses ==
  calls % Count = 0 ~>
    \/ calls % Count # 0
    \/ \A t \in Arrivers : place[t] \notin {"wait", "asleep", "recheck"}
    \/ late
    \/ rounds > IntMax

(* The barrier lets full rounds through and accounts for every arrival,    *)
(* and destroying it waits for those inside: the exceptions are an arrival *)
(* between the last of a round and the reset, and a stale sequence.        *)
BarrierHolds == RoundsAreFull /\ ArrivalsCounted /\ DestroyWaits
=============================================================================
