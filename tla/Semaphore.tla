----------------------------- MODULE Semaphore -----------------------------
(***************************************************************************)
(* The semaphore of src/posix/semaphore.cpp.  Its word holds the count and *)
(* in the top bit SEMAPHORE_WAITERS.  sem_post loads the word and then     *)
(* exchanges it, two steps that other operations can come between;         *)
(* sem_wait and sem_timedwait share one loop.                              *)
(***************************************************************************)
EXTENDS Integers, Futex

CONSTANTS Threads,
          SEM_VALUE_MAX,  \* 2^31 - 1 in the code
          Nsecs,          \* nanoseconds in a second, 10^9 in the code
          Times,          \* bound: the seconds of clocks and deadlines
          MaxPosts        \* bound: how often sem_post is called

ASSUME SemValueMaxAssumption == SEM_VALUE_MAX \in Nat \ {0}
ASSUME TimeAssumption == Nsecs \in Nat \ {0} /\ Times \subseteq Nat
ASSUME MaxPostsAssumption == MaxPosts \in Nat

VARIABLES
  word,     \* the futex word
  pc,       \* where each thread is
  local,    \* the value of the word a thread works from
  timed,    \* whether the thread is in sem_timedwait with a timeout
  posts,    \* history: calls of sem_post so far
  tokens,   \* history: the initial value, plus the posts that returned 0
            \* or are past their exchange, minus the waits that took one
  raced,    \* history: a post exchanged a word it had not loaded
  failed    \* an __ensure has failed and the process is gone

vars == <<word, pc, local, timed, posts, tokens, raced, failed>>

-----------------------------------------------------------------------------

Word == [count : 0..SEM_VALUE_MAX, waiters : BOOLEAN]

Count(n) == [count |-> n, waiters |-> FALSE]

SEMAPHORE_WAITERS == [count |-> 0, waiters |-> TRUE]

Labels == {"idle",
           "wait_loop",      \* at the head of the loop
           "wait_futex",     \* has announced a waiter in the word
           "asleep",
           "try_load",       \* sem_trywait, before its load
           "try_swap",       \* and before its compare-and-swap
           "post_exchange",  \* has loaded the count
           "post_wake"}      \* has replaced a word with a waiter

Timespecs == [sec : Times, nsec : 0..(Nsecs - 1)]

(* sem_init with a value it accepts. *)
Init ==
  /\ \E value \in 0..SEM_VALUE_MAX : word = Count(value) /\ tokens = value
  /\ pc = [t \in Threads |-> "idle"]
  /\ local = [t \in Threads |-> Count(0)]
  /\ timed = [t \in Threads |-> FALSE]
  /\ posts = 0
  /\ raced = FALSE
  /\ failed = FALSE

Goto(t, label) == pc' = [pc EXCEPT ![t] = label]

(* A call returns and its local variables are gone. *)
Return(t) ==
  /\ Goto(t, "idle")
  /\ local' = [local EXCEPT ![t] = Count(0)]
  /\ timed' = [timed EXCEPT ![t] = FALSE]

-----------------------------------------------------------------------------
(* sem_post *)

(* The load; EOVERFLOW when the count it reads is the largest. *)
sem_post(t) ==
  /\ pc[t] = "idle"
  /\ posts < MaxPosts
  /\ posts' = posts + 1
  /\ \/ /\ word.count = SEM_VALUE_MAX
        /\ UNCHANGED <<pc, local>>
     \/ /\ word.count # SEM_VALUE_MAX
        /\ local' = [local EXCEPT ![t] = word]
        /\ Goto(t, "post_exchange")
  /\ UNCHANGED <<word, timed, tokens, raced, failed>>

(* Mutant: the new value is stored and the old one not looked at. *)
PostIgnoresWaiters(t) ==
  /\ pc[t] = "post_exchange"
  /\ word' = Count(local[t].count + 1)
  /\ tokens' = tokens + 1
  /\ raced' = (raced \/ word.count # local[t].count)
  /\ Return(t)
  /\ UNCHANGED <<posts, failed>>

(* The exchange: the loaded count plus one, whatever the word is now. *)
post_exchange(t) ==
  /\ pc[t] = "post_exchange"
  /\ word' = Count(local[t].count + 1)
  /\ tokens' = tokens + 1
  /\ raced' = (raced \/ word.count # local[t].count)
  /\ IF word.waiters
       THEN Goto(t, "post_wake") /\ UNCHANGED <<local, timed>>
       ELSE Return(t)
  /\ UNCHANGED <<posts, failed>>

post_wake(t) ==
  /\ pc[t] = "post_wake"
  /\ pc' = [sys_futex_wake_all(pc, "asleep", "wait_loop") EXCEPT ![t] = "idle"]
  /\ local' = [local EXCEPT ![t] = Count(0)]
  /\ UNCHANGED <<word, timed, posts, tokens, raced, failed>>

-----------------------------------------------------------------------------
(* sem_wait and sem_timedwait *)

(* The call: the local state starts at 0. *)
sem_wait(t) ==
  /\ pc[t] = "idle"
  /\ Goto(t, "wait_loop")
  /\ UNCHANGED <<word, local, timed, posts, tokens, raced, failed>>

sem_timedwait(t) ==
  /\ pc[t] = "idle"
  /\ Goto(t, "wait_loop")
  /\ timed' = [timed EXCEPT ![t] = TRUE]
  /\ UNCHANGED <<word, local, posts, tokens, raced, failed>>

(* No token in the local state: announce a waiter, or load the word. *)
wait_mark(t) ==
  /\ pc[t] = "wait_loop"
  /\ local[t].count = 0
  /\ IF word = local[t]
       THEN /\ word' = SEMAPHORE_WAITERS
            /\ Goto(t, "wait_futex")
            /\ UNCHANGED local
       ELSE /\ local' = [local EXCEPT ![t] = word]
            /\ UNCHANGED <<word, pc>>
  /\ UNCHANGED <<timed, posts, tokens, raced, failed>>

(* A token in the local state: take it, or load the word. *)
wait_take(t) ==
  /\ pc[t] = "wait_loop"
  /\ local[t].count > 0
  /\ IF word = local[t]
       THEN /\ word' = [word EXCEPT !.count = @ - 1]
            /\ tokens' = tokens - 1
            /\ Return(t)
       ELSE /\ local' = [local EXCEPT ![t] = word]
            /\ UNCHANGED <<word, pc, timed, tokens>>
  /\ UNCHANGED <<posts, raced, failed>>

(* The relative timeout of the code: a plain difference, field by field. *)
Relative(abs_timeout, current) ==
  [sec |-> abs_timeout.sec - current.sec,
   nsec |-> abs_timeout.nsec - current.nsec]

Passed(timeout) == timeout.sec < 0 \/ (timeout.sec = 0 /\ timeout.nsec < 0)

(* sys_futex_wait compares with the local state, which still is the word   *)
(* that the announcement replaced; EAGAIN goes round the loop.             *)
Sleep(t) ==
  /\ pc' = sys_futex_wait(pc, t, word, local[t], "asleep", "wait_loop")
  /\ UNCHANGED <<word, local, timed, posts, tokens, raced, failed>>

wait_futex(t) ==
  /\ pc[t] = "wait_futex"
  /\ ~timed[t]
  /\ Sleep(t)

(* The clock fails or the deadline has passed: -1.  A timeout that the     *)
(* kernel rejects runs into __ensure(!err || err == EAGAIN).               *)
timedwait_futex(t) ==
  /\ pc[t] = "wait_futex"
  /\ timed[t]
  /\ \/ /\ Return(t)
        /\ UNCHANGED <<word, posts, tokens, raced, failed>>
     \/ \E abs_timeout, current \in Timespecs :
          LET timeout == Relative(abs_timeout, current)
          IN  \/ /\ Passed(timeout)
                 /\ Return(t)
                 /\ UNCHANGED <<word, posts, tokens, raced, failed>>
              \/ /\ ~Passed(timeout)
                 /\ ValidTimeout(timeout, Nsecs)
                 /\ Sleep(t)
              \/ /\ ~Passed(timeout)
                 /\ ~ValidTimeout(timeout, Nsecs)
                 /\ failed' = TRUE
                 /\ UNCHANGED <<word, pc, local, timed, posts, tokens, raced>>

(* EINTR, and the timeout of a timed wait: -1. *)
wait_interrupted(t) ==
  /\ pc[t] = "asleep"
  /\ Return(t)
  /\ UNCHANGED <<word, posts, tokens, raced, failed>>

-----------------------------------------------------------------------------
(* sem_trywait and sem_getvalue *)

sem_trywait(t) ==
  /\ pc[t] = "idle"
  /\ Goto(t, "try_load")
  /\ UNCHANGED <<word, local, timed, posts, tokens, raced, failed>>

try_load(t) ==
  /\ pc[t] = "try_load"
  /\ IF word.waiters \/ word.count = 0
       THEN Return(t)
       ELSE /\ local' = [local EXCEPT ![t] = word]
            /\ Goto(t, "try_swap")
            /\ UNCHANGED timed
  /\ UNCHANGED <<word, posts, tokens, raced, failed>>

(* Mutant: the loaded count minus one is stored, without a comparison. *)
TryStores(t) ==
  /\ pc[t] = "try_swap"
  /\ word' = Count(local[t].count - 1)
  /\ tokens' = tokens - 1
  /\ Return(t)
  /\ UNCHANGED <<posts, raced, failed>>

try_swap(t) ==
  /\ pc[t] = "try_swap"
  /\ IF word = local[t]
       THEN /\ word' = [word EXCEPT !.count = @ - 1]
            /\ tokens' = tokens - 1
            /\ Return(t)
       ELSE /\ Goto(t, "try_load")
            /\ UNCHANGED <<word, local, timed, tokens>>
  /\ UNCHANGED <<posts, raced, failed>>

sem_getvalue == word.count

-----------------------------------------------------------------------------

Step(t) ==
  \/ post_exchange(t) \/ post_wake(t)
  \/ wait_mark(t) \/ wait_take(t) \/ wait_futex(t) \/ timedwait_futex(t)
  \/ try_load(t) \/ try_swap(t)

Call(t) == sem_post(t) \/ sem_wait(t) \/ sem_timedwait(t) \/ sem_trywait(t)

Running == ~failed

Aborted == failed /\ UNCHANGED vars

Next ==
  \/ Running /\ \E t \in Threads : Call(t)
  \/ Running /\ \E t \in Threads : Step(t)
  \/ Running /\ \E t \in Threads : wait_interrupted(t)
  \/ Aborted

Spec == Init /\ [][Next]_vars

(* Threads inside a call are scheduled. *)
FairSpec == Spec /\ \A t \in Threads : WF_vars(Running /\ Step(t))

-----------------------------------------------------------------------------
(* Properties *)

TypeOK ==
  /\ word \in Word
  /\ pc \in [Threads -> Labels]
  /\ local \in [Threads -> Word]
  /\ timed \in [Threads -> BOOLEAN]
  /\ posts \in 0..MaxPosts
  /\ tokens \in Int
  /\ raced \in BOOLEAN
  /\ failed \in BOOLEAN

(* Tokens are neither lost nor made up: what sem_getvalue reports is the   *)
(* initial value plus the posts minus the waits, up to the first time that *)
(* a sem_post comes between another thread's change of the count and its   *)
(* own exchange.  From then on the count is off.                           *)
TokensConserved == ~raced => sem_getvalue = tokens

(* No thread that went to sleep on SEMAPHORE_WAITERS is forgotten, not     *)
(* even after a race of posts: the word still has the flag, or a post is   *)
(* about to wake it.  (A thread can also go to sleep on 0: it announces    *)
(* itself, a post replaces its flag and another thread takes the token,    *)
(* all before its sys_futex_wait, which compares with the 0 the            *)
(* announcement replaced.  Such a sleeper is not in the word.)             *)
NoLostWakeup ==
  (\E t \in Threads : pc[t] = "asleep" /\ local[t].waiters) =>
    word = SEMAPHORE_WAITERS \/ \E u \in Threads : pc[u] = "post_wake"

(* SEMAPHORE_WAITERS and a count exclude each other, so that the decrement *)
(* of sem_wait and the test of sem_trywait never meet both.                *)
FlagOrCount == word.waiters => word.count = 0

(* A thread that went to sleep on SEMAPHORE_WAITERS does not sleep on      *)
(* while there is a token to take.                                         *)
TokenWakes ==
  \A t \in Threads :
    pc[t] = "asleep" /\ local[t].waiters /\ word.count > 0 ~>
      pc[t] # "asleep" \/ word.count = 0 \/ failed

(* The assertion of sem_timedwait on the result of sys_futex_wait. *)
TimedWaitEnsure == ~failed

=============================================================================
