------------------------------- MODULE Mutex -------------------------------
(***************************************************************************)
(* The futex mutex of src/internal/mutex.cpp, used by pthread_mutex_*,     *)
(* mtx_*, stdio's FILE, the key table and the fork handlers.               *)
(*                                                                         *)
(* The 32-bit futex word holds the owner's thread id and, in its top bit,  *)
(* FLAG_WAITING; here it is the record `state'.  Every atomic operation,   *)
(* every access of the plain field `recursion' that another thread could   *)
(* observe and every system call is a step of its own, so all              *)
(* interleavings of the code's accesses are behaviours of the              *)
(* specification (under sequential consistency).  The clients are          *)
(* arbitrary: any thread may call any of the three operations at any time, *)
(* also when it should not.  A weak compare-and-swap that fails spuriously *)
(* changes nothing and is a stuttering step.                               *)
(***************************************************************************)
EXTENDS Naturals, Futex

CONSTANTS Threads,       \* the threads of the process
          NoThread,      \* the thread id 0 of an unlocked word
          MaxRecursion   \* bound: how deep clients nest a recursive mutex

ASSUME ThreadsAssumption == NoThread \notin Threads
ASSUME MaxRecursionAssumption == MaxRecursion \in Nat \ {0}

VARIABLES
  state,      \* the futex word
  recursion,  \* nesting depth, meaningful to the owner only
  kind,       \* PTHREAD_MUTEX_NORMAL, _RECURSIVE or _ERRORCHECK
  pc,         \* where each thread is
  expected,   \* manual_lock's local variable
  ret,        \* what the last call of each thread returned
  held,       \* history: locks minus unlocks, as the thread's calls returned
  panicked    \* which thread has aborted the process by panic(), and why

vars == <<state, recursion, kind, pc, expected, ret, held, panicked>>

-----------------------------------------------------------------------------

Kinds == {"NORMAL", "RECURSIVE", "ERRORCHECK"}

Word == [owner : Threads \cup {NoThread}, waiting : BOOLEAN]

Unlocked == [owner |-> NoThread, waiting |-> FALSE]

OwnedBy(t) == [owner |-> t, waiting |-> FALSE]

(* The word with FLAG_WAITING set. *)
Flagged(w) == [w EXCEPT !.waiting = TRUE]

Codes == {"ok", "EDEADLK", "EPERM", "EBUSY"}

Labels == {"idle",
           "lock_acquire",     \* before the compare-and-swap of 0 to the id
           "lock_check",       \* holding a non-zero `expected'
           "asleep",           \* inside sys_futex_wait
           "acquired",         \* the swap succeeded, recursion not yet set
           "unlock_dec",       \* found itself the owner
           "unlock_exchange",  \* outermost level, about to clear the word
           "unlock_wake"}      \* cleared it, about to wake the waiters

(* A call made at an idle thread returns code c. *)
Return(t, c) ==
  /\ pc' = [pc EXCEPT ![t] = "idle"]
  /\ ret' = [ret EXCEPT ![t] = c]

Panics == [by : Threads \cup {NoThread}, why : {"none", "relock", "not owner"}]

NoPanic == [by |-> NoThread, why |-> "none"]

PanicOf(t, message) == [by |-> t, why |-> message]

panic(t, message) ==
  /\ panicked' = PanicOf(t, message)
  /\ UNCHANGED <<state, recursion, kind, pc, expected, ret, held>>

(* thread_mutex_init: a zeroed mutex of the attribute's kind. *)
Init ==
  /\ state = Unlocked
  /\ recursion = 0
  /\ kind \in Kinds
  /\ pc = [t \in Threads |-> "idle"]
  /\ expected = [t \in Threads |-> Unlocked]
  /\ ret = [t \in Threads |-> "ok"]
  /\ held = [t \in Threads |-> 0]
  /\ panicked = NoPanic

-----------------------------------------------------------------------------
(* manual_lock *)

(* The call: `expected' starts at 0. *)
manual_lock(t) ==
  /\ pc[t] = "idle"
  /\ held[t] < MaxRecursion
  /\ pc' = [pc EXCEPT ![t] = "lock_acquire"]
  /\ expected' = [expected EXCEPT ![t] = Unlocked]
  /\ UNCHANGED <<state, recursion, kind, ret, held, panicked>>

(* compare_exchange_strong(expected, id): on failure it loads the word. *)
manual_lock_acquire(t) ==
  /\ pc[t] = "lock_acquire"
  /\ IF state = Unlocked
       THEN /\ state' = OwnedBy(t)
            /\ pc' = [pc EXCEPT ![t] = "acquired"]
            /\ UNCHANGED expected
       ELSE /\ expected' = [expected EXCEPT ![t] = state]
            /\ pc' = [pc EXCEPT ![t] = "lock_check"]
            /\ UNCHANGED state
  /\ UNCHANGED <<recursion, kind, ret, held, panicked>>

(* Mutant: the first level does not set the depth. *)
AcquiredWithoutDepth(t) ==
  /\ pc[t] = "acquired"
  /\ Return(t, "ok")
  /\ held' = [held EXCEPT ![t] = @ + 1]
  /\ UNCHANGED <<state, recursion, kind, expected, panicked>>

(* state.recursion = 1; return 0, after either kind of acquisition. *)
manual_lock_acquired(t) ==
  /\ pc[t] = "acquired"
  /\ recursion' = 1
  /\ Return(t, "ok")
  /\ held' = [held EXCEPT ![t] = @ + 1]
  /\ UNCHANGED <<state, kind, expected, panicked>>

(* What both lock operations do when they find the caller to be the owner. *)
RelockByOwner(t) ==
  \/ /\ kind = "RECURSIVE"
     /\ recursion' = recursion + 1
     /\ Return(t, "ok")
     /\ held' = [held EXCEPT ![t] = @ + 1]
     /\ UNCHANGED <<state, kind, expected, panicked>>
  \/ /\ kind = "ERRORCHECK"
     /\ Return(t, "EDEADLK")
     /\ UNCHANGED <<state, recursion, kind, expected, held, panicked>>
  \/ /\ kind = "NORMAL"
     /\ panic(t, "relock")

manual_lock_owner(t) ==
  /\ pc[t] = "lock_check"
  /\ expected[t].owner = t
  /\ RelockByOwner(t)

(* The word had no FLAG_WAITING: set it, or load the word again; a zero    *)
(* `expected' goes back to the first compare-and-swap.                     *)
manual_lock_set_flag(t) ==
  /\ pc[t] = "lock_check"
  /\ expected[t].owner # t
  /\ ~expected[t].waiting
  /\ IF state = expected[t]
       THEN /\ state' = Flagged(state)
            /\ expected' = [expected EXCEPT ![t] = state']
            /\ UNCHANGED pc
       ELSE /\ expected' = [expected EXCEPT ![t] = state]
            /\ pc' = [pc EXCEPT ![t] = IF state = Unlocked THEN "lock_acquire"
                                                           ELSE "lock_check"]
            /\ UNCHANGED state
  /\ UNCHANGED <<recursion, kind, ret, held, panicked>>

(* The word had FLAG_WAITING: sys_futex_wait; EAGAIN resets `expected'. *)
manual_lock_wait(t) ==
  /\ pc[t] = "lock_check"
  /\ expected[t].owner # t
  /\ expected[t].waiting
  /\ pc' = sys_futex_wait(pc, t, state, expected[t], "asleep", "lock_acquire")
  /\ UNCHANGED <<state, recursion, kind, expected, ret, held, panicked>>

(* A signal ends the wait with EINTR. *)
manual_lock_eintr(t) ==
  /\ pc[t] = "asleep"
  /\ pc' = [pc EXCEPT ![t] = "lock_acquire"]
  /\ UNCHANGED <<state, recursion, kind, expected, ret, held, panicked>>

-----------------------------------------------------------------------------
(* try_manual_lock: one compare-and-swap, and never a wait. *)
try_manual_lock(t) ==
  /\ pc[t] = "idle"
  /\ held[t] < MaxRecursion
  /\ \/ /\ state = Unlocked
        /\ state' = OwnedBy(t)
        /\ pc' = [pc EXCEPT ![t] = "acquired"]
        /\ UNCHANGED <<recursion, kind, expected, ret, held, panicked>>
     \/ /\ state.owner = t
        /\ RelockByOwner(t)
     \/ /\ state # Unlocked
        /\ state.owner # t
        /\ Return(t, "EBUSY")
        /\ UNCHANGED <<state, recursion, kind, expected, held, panicked>>

-----------------------------------------------------------------------------
(* manual_unlock *)

UnlockByOther(t) ==
  \/ /\ kind = "NORMAL"
     /\ panic(t, "not owner")
  \/ /\ kind # "NORMAL"
     /\ Return(t, "EPERM")
     /\ UNCHANGED <<state, recursion, kind, expected, held, panicked>>

(* The load of the word and the ownership test. *)
manual_unlock(t) ==
  /\ pc[t] = "idle"
  /\ \/ /\ state.owner = t
        /\ pc' = [pc EXCEPT ![t] = "unlock_dec"]
        /\ UNCHANGED <<state, recursion, kind, expected, ret, held, panicked>>
     \/ /\ state.owner # t
        /\ UnlockByOther(t)

(* Mutant: every unlock is taken for the outermost one. *)
DecIgnoresDepth(t) ==
  /\ pc[t] = "unlock_dec"
  /\ recursion' = recursion - 1
  /\ held' = [held EXCEPT ![t] = @ - 1]
  /\ pc' = [pc EXCEPT ![t] = "unlock_exchange"]
  /\ UNCHANGED <<state, kind, expected, ret, panicked>>

(* --state.recursion: an inner level returns at once. *)
manual_unlock_dec(t) ==
  /\ pc[t] = "unlock_dec"
  /\ recursion' = recursion - 1
  /\ held' = [held EXCEPT ![t] = @ - 1]
  /\ IF recursion' > 0
       THEN Return(t, "ok")
       ELSE /\ pc' = [pc EXCEPT ![t] = "unlock_exchange"]
            /\ UNCHANGED ret
  /\ UNCHANGED <<state, kind, expected, panicked>>

(* Mutant: the flag in the exchanged word is not looked at. *)
ExchangeNeverWakes(t) ==
  /\ pc[t] = "unlock_exchange"
  /\ state' = Unlocked
  /\ Return(t, "ok")
  /\ UNCHANGED <<recursion, kind, expected, held, panicked>>

(* exchange(0): the old word tells whether there may be waiters. *)
manual_unlock_exchange(t) ==
  /\ pc[t] = "unlock_exchange"
  /\ state' = Unlocked
  /\ IF state.waiting
       THEN /\ pc' = [pc EXCEPT ![t] = "unlock_wake"]
            /\ UNCHANGED ret
       ELSE Return(t, "ok")
  /\ UNCHANGED <<recursion, kind, expected, held, panicked>>

(* sys_futex_wake_all: every sleeper tries again from the beginning. *)
manual_unlock_wake(t) ==
  /\ pc[t] = "unlock_wake"
  /\ pc' = [sys_futex_wake_all(pc, "asleep", "lock_acquire")
              EXCEPT ![t] = "idle"]
  /\ ret' = [ret EXCEPT ![t] = "ok"]
  /\ UNCHANGED <<state, recursion, kind, expected, held, panicked>>

-----------------------------------------------------------------------------

(* The steps of a call in progress, as opposed to the start of one. *)
Continue(t) ==
  \/ manual_lock_acquire(t)
  \/ manual_lock_acquired(t)
  \/ manual_lock_owner(t)
  \/ manual_lock_set_flag(t)
  \/ manual_lock_wait(t)
  \/ manual_unlock_dec(t)
  \/ manual_unlock_exchange(t)
  \/ manual_unlock_wake(t)

Call(t) == manual_lock(t) \/ try_manual_lock(t) \/ manual_unlock(t)

(* An aborted process does nothing more. *)
Aborted == panicked # NoPanic /\ UNCHANGED vars

Running == panicked = NoPanic

Next ==
  \/ Running /\ \E t \in Threads : Call(t)
  \/ Running /\ \E t \in Threads : Continue(t)
  \/ Running /\ \E t \in Threads : manual_lock_eintr(t)
  \/ Aborted

Spec == Init /\ [][Next]_vars

(* A thread inside a call keeps being scheduled; nothing obliges a client  *)
(* to make a call, or a signal to arrive.                                  *)
FairSpec == Spec /\ \A t \in Threads : WF_vars(Running /\ Continue(t))

-----------------------------------------------------------------------------
(* Properties *)

(* Every variable keeps to its range; in particular `recursion' never      *)
(* underflows in the decrement of manual_unlock.                           *)
TypeOK ==
  /\ state \in Word
  /\ recursion \in Nat
  /\ kind \in Kinds
  /\ pc \in [Threads -> Labels]
  /\ expected \in [Threads -> Word]
  /\ ret \in [Threads -> Codes]
  /\ held \in [Threads -> Nat]
  /\ panicked \in Panics

(* Two threads never both believe, from what manual_lock, try_manual_lock  *)
(* and manual_unlock returned to them, that they hold the mutex.           *)
MutualExclusion ==
  \A t, u \in Threads : held[t] > 0 /\ held[u] > 0 => t = u

(* manual_unlock's __ensure(state.recursion >= 1) cannot fail, and the     *)
(* depth it finds is the number of locks the owner has not yet given back: *)
(* no interleaving lets another thread's store reach `recursion' first.    *)
RecursionIsOwners ==
  \A t \in Threads :
    pc[t] = "unlock_dec" => recursion >= 1 /\ recursion = held[t]

(* No lost wakeup: while a thread sleeps in manual_lock, either the word   *)
(* still carries FLAG_WAITING, so that the next manual_unlock will wake    *)
(* it, or an unlocker is already on its way into sys_futex_wake_all.       *)
NoLostWakeup ==
  (\E t \in Threads : pc[t] = "asleep") =>
    \/ state.waiting
    \/ \E u \in Threads : pc[u] = "unlock_wake"

(* A panic of a mutex operation is the client's fault: the thread that     *)
(* panicked was relocking a normal mutex it held, or unlocking one that it *)
(* did not hold, even when other threads were setting FLAG_WAITING.        *)
PanicOnlyOnMisuse ==
  /\ panicked.why # "none" => kind = "NORMAL"
  /\ panicked.why = "relock" => held[panicked.by] > 0
  /\ panicked.why = "not owner" => held[panicked.by] = 0

(* The codes are honest: EDEADLK went to the holder and only to it, EBUSY  *)
(* and EPERM to a thread that held nothing, whatever other threads were    *)
(* doing to the word during the call.                                      *)
HonestCodes ==
  \A t \in Threads :
    pc[t] = "idle" =>
      /\ ret[t] = "EDEADLK" => held[t] > 0
      /\ ret[t] \in {"EBUSY", "EPERM"} => held[t] = 0

(* The depth that its owner has taken. *)
Depth ==
  IF state.owner = NoThread THEN 0
  ELSE IF pc[state.owner] \in {"acquired", "unlock_exchange"} THEN 1
  ELSE recursion

AM == INSTANCE AbstractMutex
        WITH holder <- state.owner, depth <- Depth,
             recursive <- kind = "RECURSIVE"

(* The futex mutex implements the abstract one: ownership moves at the     *)
(* compare-and-swap and at the exchange, and the depth is the owner's.     *)
ImplementsAbstractMutex == AM!Spec

(* Once the word is free a thread that sleeps on it does not stay asleep:  *)
(* it is woken although the unlocker clears the word before it wakes.      *)
SleepersWoken ==
  \A t \in Threads :
    pc[t] = "asleep" /\ state.owner = NoThread ~> pc[t] # "asleep" \/ ~Running

=============================================================================
