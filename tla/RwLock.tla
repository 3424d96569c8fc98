------------------------------- MODULE RwLock -------------------------------
(***************************************************************************)
(* The read-write lock of src/posix/pthread.cpp: a small futex mutex       *)
(* (`state') that readers hold while they enter and a writer keeps while   *)
(* it writes, and a word that counts the readers (`writer_notify'), on     *)
(* which a writer that holds the mutex waits for them to leave.            *)
(*                                                                         *)
(* A writer that finds readers marks the count with RC_COUNT_MASK where it *)
(* sleeps on RC_WAITERS_BIT; the history variable `spoiled' records it.    *)
(***************************************************************************)
EXTENDS Naturals, FiniteSets, Futex

CONSTANTS Threads,
          RC_COUNT_MASK   \* 2^30 - 1 in the code: more than there are threads

ASSUME CountMaskAssumption ==
  RC_COUNT_MASK \in Nat /\ IsFiniteSet(Threads)
    /\ RC_COUNT_MASK > Cardinality(Threads)

VARIABLES
  state,          \* the word of the small mutex
  writer_notify,  \* the word that counts the readers
  pc,             \* where each thread is
  want,           \* the operation it is in: "read", "write" or "unlock"
  expected,       \* rwlock_mutex_lock's local variable
  rc_expected,    \* that of the callers
  mode,           \* history: what each thread holds, as its calls returned
  spoiled,        \* history: a writer has marked the count
  failed          \* an __ensure has failed

vars == <<state, writer_notify, pc, want, expected, rc_expected, mode,
          spoiled, failed>>

locals == <<want, expected, rc_expected>>

-----------------------------------------------------------------------------

(* Owner 1, MUTEX_EXCLUSIVE_BIT and MUTEX_WAITERS_BIT. *)
MutexWord == [owner : {0, 1}, exclusive : BOOLEAN, waiters : BOOLEAN]

Free == [owner |-> 0, exclusive |-> FALSE, waiters |-> FALSE]

(* The count and RC_WAITERS_BIT. *)
RcWord == [count : 0..RC_COUNT_MASK, waiters : BOOLEAN]

NoReaders == [count |-> 0, waiters |-> FALSE]

WithWaiters(w) == [w EXCEPT !.waiters = TRUE]

Labels == {"idle",
           "mutex_check", "mutex_wait", "mutex_asleep",  \* rwlock_mutex_lock
           "reader_count",                               \* rdlock
           "mutex_unlock", "mutex_wake",                 \* rwlock_mutex_unlock
           "writer_check", "writer_wait", "writer_load", \* wrlock
           "writer_asleep",
           "unlock_check"}                               \* unlock

(* pthread_rwlock_init. *)
Init ==
  /\ state = Free
  /\ writer_notify = NoReaders
  /\ pc = [t \in Threads |-> "idle"]
  /\ want = [t \in Threads |-> "read"]
  /\ expected = [t \in Threads |-> Free]
  /\ rc_expected = [t \in Threads |-> NoReaders]
  /\ mode = [t \in Threads |-> "none"]
  /\ spoiled = FALSE
  /\ failed = FALSE

Goto(t, label) == pc' = [pc EXCEPT ![t] = label]

(* A call returns: the thread now holds m, and the locals are gone. *)
Return(t, m) ==
  /\ Goto(t, "idle")
  /\ mode' = [mode EXCEPT ![t] = m]
  /\ want' = [want EXCEPT ![t] = "read"]
  /\ expected' = [expected EXCEPT ![t] = Free]
  /\ rc_expected' = [rc_expected EXCEPT ![t] = NoReaders]

ensure(condition) == failed' = (failed \/ ~condition)

-----------------------------------------------------------------------------
(* rwlock_mutex_lock *)

(* The call and the load, on behalf of a reader or a writer. *)
rwlock_mutex_lock(t, op) ==
  /\ pc[t] = "idle"
  /\ mode[t] = "none"
  /\ want' = [want EXCEPT ![t] = op]
  /\ expected' = [expected EXCEPT ![t] = state]
  /\ Goto(t, "mutex_check")
  /\ UNCHANGED <<state, writer_notify, rc_expected, mode, spoiled, failed>>

pthread_rwlock_rdlock(t) == rwlock_mutex_lock(t, "read")

pthread_rwlock_wrlock(t) == rwlock_mutex_lock(t, "write")

(* Somebody has it: set MUTEX_WAITERS_BIT unless it was set, then sleep. *)
mutex_mark(t) ==
  /\ pc[t] = "mutex_check"
  /\ expected[t] # Free
  /\ ensure(expected[t].owner # 0)
  /\ \/ /\ expected[t].waiters
        /\ Goto(t, "mutex_wait")
        /\ UNCHANGED <<state, expected>>
     \/ /\ ~expected[t].waiters
        /\ state = expected[t]
        /\ state' = WithWaiters(state)
        /\ Goto(t, "mutex_wait")
        /\ UNCHANGED expected
     \/ /\ ~expected[t].waiters
        /\ state # expected[t]
        /\ expected' = [expected EXCEPT ![t] = state]
        /\ UNCHANGED <<state, pc>>
  /\ UNCHANGED <<writer_notify, want, rc_expected, mode, spoiled>>

(* sys_futex_wait; whatever it returns, `expected' restarts at 0. *)
mutex_wait(t) ==
  /\ pc[t] = "mutex_wait"
  /\ pc' = sys_futex_wait(pc, t, state, WithWaiters(expected[t]),
                          "mutex_asleep", "mutex_check")
  /\ expected' = [expected EXCEPT ![t] = Free]
  /\ UNCHANGED <<state, writer_notify, want, rc_expected, mode, spoiled,
                 failed>>

mutex_eintr(t) ==
  /\ pc[t] = "mutex_asleep"
  /\ Goto(t, "mutex_check")
  /\ UNCHANGED <<state, writer_notify, locals, mode, spoiled, failed>>

(* Nobody had it: the compare-and-swap from 0. *)
mutex_take(t) ==
  /\ pc[t] = "mutex_check"
  /\ expected[t] = Free
  /\ IF state = Free
       THEN /\ state' = [owner |-> 1, exclusive |-> want[t] = "write",
                         waiters |-> FALSE]
            /\ Goto(t, IF want[t] = "read" THEN "reader_count"
                                           ELSE "writer_load")
            /\ UNCHANGED expected
       ELSE /\ expected' = [expected EXCEPT ![t] = state]
            /\ UNCHANGED <<state, pc>>
  /\ UNCHANGED <<writer_notify, want, rc_expected, mode, spoiled, failed>>

-----------------------------------------------------------------------------
(* pthread_rwlock_rdlock *)

reader_count(t) ==
  /\ pc[t] = "reader_count"
  /\ writer_notify' = [writer_notify EXCEPT !.count = @ + 1]
  /\ Goto(t, "mutex_unlock")
  /\ UNCHANGED <<state, locals, mode, spoiled, failed>>

HoldsAfter(t) == IF want[t] = "read" THEN "read" ELSE "none"

(* Mutant: the exchanged word is not looked at. *)
UnlockNeverWakes(t) ==
  /\ pc[t] = "mutex_unlock"
  /\ state' = Free
  /\ Return(t, HoldsAfter(t))
  /\ UNCHANGED <<writer_notify, spoiled, failed>>

(* Mutant: only the owner's part of the word is cleared. *)
UnlockKeepsWaitersBit(t) ==
  /\ pc[t] = "mutex_unlock"
  /\ state' = [Free EXCEPT !.waiters = state.waiters]
  /\ IF state.waiters
       THEN Goto(t, "mutex_wake") /\ UNCHANGED <<locals, mode>>
       ELSE Return(t, HoldsAfter(t))
  /\ UNCHANGED <<writer_notify, spoiled, failed>>

(* rwlock_mutex_unlock, by a reader that has entered or a writer. *)
rwlock_mutex_unlock(t) ==
  /\ pc[t] = "mutex_unlock"
  /\ state' = Free
  /\ IF state.waiters
       THEN Goto(t, "mutex_wake") /\ UNCHANGED <<locals, mode>>
       ELSE Return(t, HoldsAfter(t))
  /\ UNCHANGED <<writer_notify, spoiled, failed>>

mutex_wake(t) ==
  /\ pc[t] = "mutex_wake"
  /\ LET woken == sys_futex_wake_all(pc, "mutex_asleep", "mutex_check")
     IN  pc' = [woken EXCEPT ![t] = "idle"]
  /\ mode' = [mode EXCEPT ![t] = HoldsAfter(t)]
  /\ want' = [want EXCEPT ![t] = "read"]
  /\ expected' = [expected EXCEPT ![t] = Free]
  /\ rc_expected' = [rc_expected EXCEPT ![t] = NoReaders]
  /\ UNCHANGED <<state, writer_notify, spoiled, failed>>

-----------------------------------------------------------------------------
(* pthread_rwlock_wrlock, with the mutex held *)

writer_load(t) ==
  /\ pc[t] = "writer_load"
  /\ rc_expected' = [rc_expected EXCEPT ![t] = writer_notify]
  /\ Goto(t, "writer_check")
  /\ UNCHANGED <<state, writer_notify, want, expected, mode, spoiled, failed>>

(* No reader in what was loaded: the lock is the writer's. *)
writer_enter(t) ==
  /\ pc[t] = "writer_check"
  /\ rc_expected[t] = NoReaders
  /\ Return(t, "write")
  /\ UNCHANGED <<state, writer_notify, spoiled, failed>>

(* Mutant: a failed compare-and-swap does not reload the count. *)
MarkKeepsStaleCount(t) ==
  /\ pc[t] = "writer_check"
  /\ rc_expected[t] # NoReaders
  /\ ensure(rc_expected[t].count # 0)
  /\ \/ rc_expected[t].waiters
     \/ writer_notify = rc_expected[t]
  /\ writer_notify' = [writer_notify EXCEPT !.count = RC_COUNT_MASK]
  /\ spoiled' = TRUE
  /\ Goto(t, "writer_wait")
  /\ UNCHANGED <<state, locals, mode>>

(* Readers: `rc_expected | RC_COUNT_MASK' replaces the count. *)
writer_mark(t) ==
  /\ pc[t] = "writer_check"
  /\ rc_expected[t] # NoReaders
  /\ ensure(rc_expected[t].count # 0)
  /\ \/ /\ rc_expected[t].waiters
        /\ Goto(t, "writer_wait")
        /\ UNCHANGED <<writer_notify, rc_expected, spoiled>>
     \/ /\ ~rc_expected[t].waiters
        /\ writer_notify = rc_expected[t]
        /\ writer_notify' = [writer_notify EXCEPT !.count = RC_COUNT_MASK]
        /\ spoiled' = TRUE
        /\ Goto(t, "writer_wait")
        /\ UNCHANGED rc_expected
     \/ /\ ~rc_expected[t].waiters
        /\ writer_notify # rc_expected[t]
        /\ rc_expected' = [rc_expected EXCEPT ![t] = writer_notify]
        /\ UNCHANGED <<writer_notify, pc, spoiled>>
  /\ UNCHANGED <<state, want, expected, mode>>

writer_wait(t) ==
  /\ pc[t] = "writer_wait"
  /\ pc' = sys_futex_wait(pc, t, writer_notify, WithWaiters(rc_expected[t]),
                          "writer_asleep", "writer_load")
  /\ UNCHANGED <<state, writer_notify, locals, mode, spoiled, failed>>

-----------------------------------------------------------------------------
(* pthread_rwlock_unlock, by a thread that holds the lock *)

(* The load: a zero count means that the caller is the writer. *)
pthread_rwlock_unlock(t) ==
  /\ pc[t] = "idle"
  /\ mode[t] # "none"
  /\ want' = [want EXCEPT ![t] = "unlock"]
  /\ rc_expected' = [rc_expected EXCEPT ![t] = writer_notify]
  /\ mode' = [mode EXCEPT ![t] = "none"]
  /\ Goto(t, IF writer_notify = NoReaders THEN "mutex_unlock"
                                          ELSE "unlock_check")
  /\ UNCHANGED <<state, writer_notify, expected, spoiled, failed>>

(* Mutant: the count a reader loaded, less one, is stored in any case. *)
LeaveStoresStale(t) ==
  /\ pc[t] = "unlock_check"
  /\ ensure(rc_expected[t].count # 0)
  /\ writer_notify' = [rc_expected[t] EXCEPT !.count = @ - 1]
  /\ Return(t, "none")
  /\ UNCHANGED <<state, spoiled>>

(* A call returns and wakes those asleep on writer_notify. *)
ReturnAndWake(t) ==
  /\ pc' = [sys_futex_wake_all(pc, "writer_asleep", "writer_load")
              EXCEPT ![t] = "idle"]
  /\ want' = [want EXCEPT ![t] = "read"]
  /\ expected' = [expected EXCEPT ![t] = Free]
  /\ rc_expected' = [rc_expected EXCEPT ![t] = NoReaders]
  /\ UNCHANGED mode

(* A reader leaves: the last one with a waiter clears the word and wakes.  *)
(* That branch is one step, since the code never gets there: no thread     *)
(* sets RC_WAITERS_BIT, and so none is ever asleep on writer_notify.       *)
reader_leave(t) ==
  /\ pc[t] = "unlock_check"
  /\ ensure(rc_expected[t].count # 0)
  /\ IF writer_notify # rc_expected[t]
       THEN /\ rc_expected' = [rc_expected EXCEPT ![t] = writer_notify]
            /\ UNCHANGED <<writer_notify, pc, want, expected, mode>>
     ELSE IF rc_expected[t] = WithWaiters([NoReaders EXCEPT !.count = 1])
       THEN /\ writer_notify' = NoReaders
            /\ ReturnAndWake(t)
       ELSE /\ writer_notify' = [writer_notify EXCEPT !.count = @ - 1]
            /\ Return(t, "none")
  /\ UNCHANGED <<state, spoiled>>

-----------------------------------------------------------------------------

Step(t) ==
  \/ mutex_mark(t) \/ mutex_wait(t) \/ mutex_take(t)
  \/ reader_count(t) \/ rwlock_mutex_unlock(t) \/ mutex_wake(t)
  \/ writer_load(t) \/ writer_enter(t) \/ writer_mark(t) \/ writer_wait(t)
  \/ reader_leave(t)

Call(t) ==
  \/ pthread_rwlock_rdlock(t)
  \/ pthread_rwlock_wrlock(t)
  \/ pthread_rwlock_unlock(t)

Next ==
  \/ \E t \in Threads : Call(t)
  \/ \E t \in Threads : Step(t)
  \/ \E t \in Threads : mutex_eintr(t)

Spec == Init /\ [][Next]_vars

(* Threads inside a call are scheduled. *)
FairSpec == Spec /\ \A t \in Threads : WF_vars(Step(t))

-----------------------------------------------------------------------------
(* Properties *)

TypeOK ==
  /\ state \in MutexWord
  /\ writer_notify \in RcWord
  /\ pc \in [Threads -> Labels]
  /\ want \in [Threads -> {"read", "write", "unlock"}]
  /\ expected \in [Threads -> MutexWord]
  /\ rc_expected \in [Threads -> RcWord]
  /\ mode \in [Threads -> {"none", "read", "write"}]
  /\ spoiled \in BOOLEAN
  /\ failed \in BOOLEAN

(* A writer never shares the lock: who was told by pthread_rwlock_wrlock   *)
(* that it has it is alone, however readers enter and leave meanwhile.     *)
WriterIsAlone ==
  \A t, u \in Threads : mode[t] = "write" /\ u # t => mode[u] = "none"

(* The three assertions of the code hold: a taken mutex word has an owner, *)
(* a non-zero reader word has a count, also for a reader about to leave.   *)
EnsuresHold == ~failed

(* A thread asleep on the small mutex is in its word, or is being woken. *)
NoLostWakeup ==
  (\E t \in Threads : pc[t] = "mutex_asleep") =>
    state.waiters \/ \E u \in Threads : pc[u] = "mutex_wake"

(* No thread is given the lock, but for one that wakes the sleepers. *)
NobodyIsGiven ==
  \A t \in Threads : mode'[t] \in {mode[t], "none"} \/ pc[t] = "mutex_wake"

(* Once a writer has met a reader and marked the count, the count cannot   *)
(* reach 0 again and the writer keeps the mutex: neither it nor any other  *)
(* thread is ever given the lock again, but for a reader that was counted  *)
(* before and is on its way out of pthread_rwlock_rdlock.                  *)
SpoiledForGood == [][spoiled => NobodyIsGiven]_vars

(* A writer that has the mutex gets the lock, unless it meets a reader. *)
WriterGetsIn ==
  \A t \in Threads :
    pc[t] = "writer_load" ~> mode[t] = "write" \/ spoiled

=============================================================================
