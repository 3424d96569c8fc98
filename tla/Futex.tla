------------------------------- MODULE Futex -------------------------------
(***************************************************************************)
(* The futex system calls every blocking primitive of the library is built *)
(* on (sys/linux/sys.cpp).  A specification that uses them keeps one       *)
(* program counter per thread; a thread that the kernel has put to sleep   *)
(* is at the label `asleep', so the kernel's wait queue is the set of      *)
(* threads at that label.  Private and process-shared futexes differ only  *)
(* in how the kernel finds the queue, which is abstracted away.            *)
(***************************************************************************)
EXTENDS Integers

(***************************************************************************)
(* FUTEX_WAIT by thread t: the kernel compares the futex word with the     *)
(* caller's value and puts the caller to sleep in one atomic step; on a    *)
(* mismatch the call returns EAGAIN and t continues at `again'.            *)
(***************************************************************************)
sys_futex_wait(pc, t, word, value, asleep, again) ==
  [pc EXCEPT ![t] = IF word = value THEN asleep ELSE again]

(***************************************************************************)
(* With a relative timeout the kernel first looks at the timespec: Linux   *)
(* answers EINVAL unless the seconds are not negative and the nanoseconds  *)
(* are in 0..999999999 (here 0..nsecs-1).                                  *)
(***************************************************************************)
ValidTimeout(timeout, nsecs) ==
  /\ timeout.sec >= 0
  /\ timeout.nsec \in 0..(nsecs - 1)

(***************************************************************************)
(* FUTEX_WAKE with INT_MAX: every thread of the queue continues at `woken'.*)
(***************************************************************************)
sys_futex_wake_all(pc, asleep, woken) ==
  [t \in DOMAIN pc |-> IF pc[t] = asleep THEN woken ELSE pc[t]]

(***************************************************************************)
(* FUTEX_WAKE with 1: one thread of the queue, any one, continues at       *)
(* `woken'; nothing happens when the queue is empty.  The value is the set *)
(* of possible new program counters.                                       *)
(***************************************************************************)
sys_futex_wake(pc, asleep, woken) ==
  LET queue == {t \in DOMAIN pc : pc[t] = asleep}
  IN  IF queue = {} THEN {pc} ELSE {[pc EXCEPT ![t] = woken] : t \in queue}

=============================================================================
