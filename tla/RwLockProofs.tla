---------------------------- MODULE RwLockProofs ----------------------------
(***************************************************************************)
(* Proofs about module RwLock, for any finite set of threads and any mask  *)
(* that is larger than their number.                                       *)
(*                                                                         *)
(* That a writer is alone rests on two counts: the small mutex has one     *)
(* holder, so nobody enters while a writer looks, and the reader word is   *)
(* the number of threads that were counted and have not left -- or, once a *)
(* writer has marked it, more than that for ever, while that writer keeps  *)
(* the mutex.  IndInv states both.                                         *)
(***************************************************************************)
EXTENDS RwLock, FiniteSetTheorems, TLAPS

(* A leaf is left to Zenon for thirty seconds, or to the prover it names.  *)
USE ZenonT(30)

(* A thread that was counted as a reader and has not been taken off. *)
Counts(t) ==
  \/ mode[t] = "read"
  \/ pc[t] = "unlock_check"
  \/ want[t] = "read" /\ pc[t] \in {"mutex_unlock", "mutex_wake"}

Counted == {t \in Threads : Counts(t)}

(* A thread that has the small mutex. *)
InMutex(t) ==
  \/ mode[t] = "write"
  \/ pc[t] \in {"reader_count", "mutex_unlock", "writer_load", "writer_check",
                "writer_wait"}

(* The small mutex has at most one holder, and its word says so. *)
MutexInv ==
  /\ state.owner = 0 => state = Free
  /\ \A t \in Threads :
       /\ expected[t].owner = 0 => expected[t] = Free
       /\ InMutex(t) => state.owner = 1
       /\ \A u \in Threads : InMutex(t) /\ InMutex(u) => t = u

(* Where a thread is agrees with what it holds and what it has loaded.     *)
(* RC_WAITERS_BIT is never set, so that no writer sleeps.                  *)
LabelInv ==
  /\ ~writer_notify.waiters
  /\ \A t \in Threads :
       /\ ~rc_expected[t].waiters
       /\ mode[t] # "none" => pc[t] = "idle"
       /\ pc[t] = "reader_count" => want[t] = "read"
       /\ pc[t] = "unlock_check" => rc_expected[t].count # 0
       /\ pc[t] # "writer_asleep"

(* The writer that marked the count is still looking at it. *)
WriterLooks == \E w \in Threads : pc[w] \in {"writer_load", "writer_check", "writer_wait"}

(* The word counts the readers, or is beyond them for good. *)
CountInv ==
  /\ ~spoiled => writer_notify.count = Cardinality(Counted)
  /\ spoiled => writer_notify.count > Cardinality(Counted) /\ WriterLooks
  /\ \A t \in Threads :
       /\ mode[t] = "write" => Counted = {}
       /\ pc[t] = "writer_check" /\ rc_expected[t] = NoReaders
            => Counted = {} /\ ~spoiled

IndInv ==
  /\ TypeOK
  /\ MutexInv
  /\ LabelInv
  /\ CountInv
  /\ NoLostWakeup
  /\ EnsuresHold

-----------------------------------------------------------------------------

(* What the words that the actions build have in their fields. *)
LEMMA Words ==
  /\ Free \in MutexWord /\ Free.owner = 0 /\ Free.waiters = FALSE
  /\ NoReaders \in RcWord /\ NoReaders.count = 0 /\ NoReaders.waiters = FALSE
  /\ \A w \in MutexWord : /\ WithWaiters(w) \in MutexWord
                          /\ WithWaiters(w).owner = w.owner
                          /\ WithWaiters(w).waiters = TRUE
                          /\ w.owner \in {0, 1} /\ w.waiters \in BOOLEAN
  /\ \A w \in RcWord : /\ WithWaiters(w) \in RcWord
                       /\ WithWaiters(w).waiters = TRUE
                       /\ w.count \in 0..RC_COUNT_MASK /\ w.waiters \in BOOLEAN
                       /\ w.count = 0 /\ ~w.waiters => w = NoReaders
<1>1. Free \in MutexWord /\ Free.owner = 0 /\ Free.waiters = FALSE
  BY DEF Free, MutexWord
<1>2. NoReaders \in RcWord /\ NoReaders.count = 0 /\ NoReaders.waiters = FALSE
  BY SMTT(30), CountMaskAssumption DEF NoReaders, RcWord
<1>3. ASSUME NEW w \in MutexWord
      PROVE  /\ WithWaiters(w) \in MutexWord
             /\ WithWaiters(w).owner = w.owner
             /\ WithWaiters(w).waiters = TRUE
             /\ w.owner \in {0, 1} /\ w.waiters \in BOOLEAN
  BY <1>3 DEF MutexWord, WithWaiters
<1>4. ASSUME NEW w \in RcWord
      PROVE  /\ WithWaiters(w) \in RcWord /\ WithWaiters(w).waiters = TRUE
             /\ w.count \in 0..RC_COUNT_MASK /\ w.waiters \in BOOLEAN
  BY <1>4 DEF RcWord, WithWaiters
<1>5. ASSUME NEW w \in RcWord, w.count = 0, ~w.waiters PROVE w = NoReaders
  BY <1>5 DEF RcWord, NoReaders
<1> QED
  BY <1>1, <1>2, <1>3, <1>4, <1>5

(* The word a thread puts when it takes the mutex. *)
LEMMA TakenWord ==
  \A b \in BOOLEAN :
    LET w == [owner |-> 1, exclusive |-> b, waiters |-> FALSE]
    IN  w \in MutexWord /\ w.owner = 1 /\ w.waiters = FALSE
  BY DEF MutexWord

(* The counted threads are finitely many, fewer than the mask. *)
LEMMA FewCounted ==
  /\ IsFiniteSet(Counted) /\ Cardinality(Counted) \in Nat
  /\ Cardinality(Counted) <= Cardinality(Threads)
  /\ Cardinality(Counted) < RC_COUNT_MASK
  /\ Cardinality(Counted) = 0 <=> Counted = {}
<1>1. Counted \subseteq Threads /\ IsFiniteSet(Threads)
  BY CountMaskAssumption DEF Counted
<1>2. /\ IsFiniteSet(Counted) /\ Cardinality(Counted) <= Cardinality(Threads)
  BY <1>1, FS_Subset
<1>3. Cardinality(Counted) \in Nat /\ Cardinality(Threads) \in Nat
  BY <1>1, <1>2, FS_CardinalityType
<1>4. Cardinality(Counted) = 0 <=> Counted = {}
  BY <1>2, FS_EmptySet
<1> QED
  BY SMTT(30), <1>2, <1>3, <1>4, CountMaskAssumption

(* A thread more, and a thread less. *)
LEMMA OneMore ==
  ASSUME NEW t \in Threads, ~Counts(t), Counts(t)',
         \A u \in Threads \ {t} : Counts(u)' <=> Counts(u)
  PROVE  /\ Cardinality(Counted') = Cardinality(Counted) + 1
         /\ Cardinality(Counted') <= Cardinality(Threads)
<1>1. Counted' = Counted \cup {t} /\ t \notin Counted
  BY DEF Counted
<1>2. Counted' \subseteq Threads
  BY DEF Counted
<1> QED
  BY <1>1, <1>2, FewCounted, FS_AddElement, FS_Subset, CountMaskAssumption

LEMMA OneLess ==
  ASSUME NEW t \in Threads, Counts(t), ~Counts(t)',
         \A u \in Threads \ {t} : Counts(u)' <=> Counts(u)
  PROVE  Cardinality(Counted') = Cardinality(Counted) - 1
<1>1. Counted' = Counted \ {t} /\ t \in Counted
  BY DEF Counted
<1> QED
  BY <1>1, FewCounted, FS_RemoveElement

LEMMA SameCounted ==
  ASSUME \A u \in Threads : Counts(u)' <=> Counts(u)
  PROVE  Counted' = Counted
  BY DEF Counted

LEMMA InitIndInv == Init => IndInv
<1> SUFFICES ASSUME Init PROVE IndInv
  OBVIOUS
<1> USE DEF Init
<1>1. TypeOK
  BY Words DEF TypeOK, Labels
<1>2. MutexInv /\ LabelInv
  BY Words DEF MutexInv, LabelInv, InMutex
<1>3. Counted = {}
  BY DEF Counted, Counts
<1>4. CountInv
  BY <1>3, FS_EmptySet, Words DEF CountInv
<1>5. NoLostWakeup /\ EnsuresHold
  BY DEF NoLostWakeup, EnsuresHold
<1> QED
  BY <1>1, <1>2, <1>4, <1>5 DEF IndInv

(* Every step keeps every variable in its range; the count stays below   *)
(* the mask although it is incremented without a look.                   *)
LEMMA TypeStep == IndInv /\ [Next]_vars => TypeOK'
<1> SUFFICES ASSUME IndInv, [Next]_vars PROVE TypeOK'
  OBVIOUS
<1>0. TypeOK /\ MutexInv /\ LabelInv /\ CountInv
  BY DEF IndInv
<1> USE DEF TypeOK, Labels
<1>1. ASSUME NEW t \in Threads, NEW op \in {"read", "write"}, rwlock_mutex_lock(t, op) PROVE TypeOK'
  BY <1>0, <1>1, Words DEF rwlock_mutex_lock, Goto
<1>2. ASSUME NEW t \in Threads, pthread_rwlock_unlock(t) PROVE TypeOK'
  BY <1>0, <1>2, Words DEF pthread_rwlock_unlock, Goto
<1>3. ASSUME NEW t \in Threads, mutex_mark(t) PROVE TypeOK'
  BY SMTT(30), <1>0, <1>3, Words DEF mutex_mark, Goto, ensure
<1>4. ASSUME NEW t \in Threads, mutex_wait(t) PROVE TypeOK'
  BY <1>0, <1>4, Words DEF mutex_wait, sys_futex_wait
<1>5. ASSUME NEW t \in Threads, mutex_take(t) PROVE TypeOK'
  <2>1. state' \in MutexWord
    <3>1. CASE state = Free
      BY <1>5, <3>1, TakenWord DEF mutex_take
    <3>2. CASE state # Free
      BY <1>0, <1>5, <3>2 DEF mutex_take
    <3> QED
      BY <3>1, <3>2
  <2> QED
    BY <1>0, <1>5, <2>1 DEF mutex_take, Goto
<1>6. ASSUME NEW t \in Threads, reader_count(t) PROVE TypeOK'
  <2>1. ~Counts(t) /\ InMutex(t)
    BY <1>0, <1>6 DEF reader_count, LabelInv, Counts, InMutex
  <2>2. ~spoiled
    BY <1>0, <1>6, <2>1 DEF reader_count, MutexInv, CountInv, WriterLooks, InMutex
  <2>3. writer_notify.count < RC_COUNT_MASK
    BY <1>0, <2>2, FewCounted DEF CountInv
  <2>4. writer_notify' \in RcWord
    BY SMTT(30), <1>0, <1>6, <2>3, CountMaskAssumption DEF reader_count, RcWord
  <2> QED
    BY <1>0, <1>6, <2>4 DEF reader_count, Goto, locals
<1>7. ASSUME NEW t \in Threads, rwlock_mutex_unlock(t) PROVE TypeOK'
  BY SMTT(30), <1>0, <1>7, Words DEF rwlock_mutex_unlock, Goto, Return, HoldsAfter, locals
<1>8. ASSUME NEW t \in Threads, mutex_wake(t) PROVE TypeOK'
  BY <1>0, <1>8, Words DEF mutex_wake, sys_futex_wake_all, HoldsAfter
<1>9. ASSUME NEW t \in Threads, writer_load(t) PROVE TypeOK'
  BY <1>0, <1>9, Words DEF writer_load, Goto
<1>10. ASSUME NEW t \in Threads, writer_enter(t) PROVE TypeOK'
  BY <1>0, <1>10, Words DEF writer_enter, Goto, Return
<1>11. ASSUME NEW t \in Threads, writer_mark(t) PROVE TypeOK'
  <2>1. writer_notify' \in RcWord
    BY SMTT(30), <1>0, <1>11, CountMaskAssumption DEF writer_mark, RcWord
  <2>2. rc_expected' \in [Threads -> RcWord] /\ spoiled' \in BOOLEAN
    BY <1>0, <1>11 DEF writer_mark
  <2>3. pc' \in [Threads -> Labels]
    BY <1>0, <1>11 DEF writer_mark, Goto
  <2> QED
    BY <1>0, <1>11, <2>1, <2>2, <2>3 DEF writer_mark, ensure
<1>12. ASSUME NEW t \in Threads, writer_wait(t) PROVE TypeOK'
  BY <1>0, <1>12, Words DEF writer_wait, sys_futex_wait, locals
<1>13. ASSUME NEW t \in Threads, reader_leave(t) PROVE TypeOK'
  <2>1. writer_notify' \in RcWord
    BY SMTT(30), <1>0, <1>13, Words, CountMaskAssumption DEF reader_leave, RcWord, LabelInv
  <2>2. pc' \in [Threads -> Labels]
    BY <1>0, <1>13
       DEF reader_leave, Goto, Return, ReturnAndWake, sys_futex_wake_all
  <2> QED
    BY SMTT(30), <1>0, <1>13, <2>1, <2>2, Words
       DEF reader_leave, Return, ReturnAndWake, ensure
<1>14. ASSUME NEW t \in Threads, mutex_eintr(t) PROVE TypeOK'
  BY <1>0, <1>14, Words DEF mutex_eintr, Goto, locals
<1>15. ASSUME UNCHANGED vars PROVE TypeOK'
  BY <1>0, <1>15, Words DEF vars
<1> QED
  BY <1>1, <1>2, <1>3, <1>4, <1>5, <1>6, <1>7,
     <1>8, <1>9, <1>10, <1>11, <1>12, <1>13, <1>14, <1>15
     DEF Next, Call, Step, pthread_rwlock_rdlock, pthread_rwlock_wrlock

(* A reader that leaves looks again or takes itself off; the branch that   *)
(* wakes a writer is not reached.                                          *)
LEMMA LeavesQuietly ==
  ASSUME TypeOK, LabelInv, NEW t \in Threads, reader_leave(t)
  PROVE  /\ pc[t] = "unlock_check" /\ UNCHANGED <<state, spoiled>>
         /\ \/ /\ rc_expected' = [rc_expected EXCEPT ![t] = writer_notify]
               /\ UNCHANGED <<writer_notify, pc, want, expected, mode>>
            \/ /\ writer_notify = rc_expected[t]
               /\ writer_notify' = [writer_notify EXCEPT !.count = @ - 1]
               /\ Return(t, "none")
<1>1. NoReaders.waiters = FALSE /\ [NoReaders EXCEPT !.count = 1] \in [count : Nat, waiters : BOOLEAN]
  BY DEF NoReaders
<1>2. WithWaiters([NoReaders EXCEPT !.count = 1]).waiters = TRUE
  BY DEF WithWaiters, NoReaders
<1>3. rc_expected[t] # WithWaiters([NoReaders EXCEPT !.count = 1])
  BY <1>2 DEF LabelInv
<1> QED
  BY <1>3 DEF reader_leave

(* The small mutex keeps its one holder. *)
LEMMA MutexStep == IndInv /\ [Next]_vars => MutexInv'
<1> SUFFICES ASSUME IndInv, [Next]_vars PROVE MutexInv'
  OBVIOUS
<1>0. TypeOK /\ TypeOK' /\ MutexInv /\ LabelInv /\ CountInv /\ NoLostWakeup /\ EnsuresHold
  BY TypeStep DEF IndInv
<1> USE Words DEF TypeOK, MutexInv, InMutex
<1>1. ASSUME NEW t \in Threads, NEW op \in {"read", "write"}, rwlock_mutex_lock(t, op) PROVE MutexInv'
  BY SMTT(30), <1>0, <1>1 DEF rwlock_mutex_lock, Goto
<1>2. ASSUME NEW t \in Threads, pthread_rwlock_unlock(t) PROVE MutexInv'
  <2>1. mode[t] = "read" => writer_notify # NoReaders
    <3>1. mode[t] = "read" => t \in Counted
      BY DEF Counted, Counts
    <3> QED
      BY SMTT(30), <1>0, <3>1, FewCounted DEF CountInv
  <2> QED
    BY SMTT(30), <1>0, <1>2, <2>1 DEF pthread_rwlock_unlock, Goto
<1>3. ASSUME NEW t \in Threads, mutex_mark(t) PROVE MutexInv'
  BY SMTT(30), <1>0, <1>3 DEF mutex_mark, Goto, ensure
<1>4. ASSUME NEW t \in Threads, mutex_wait(t) PROVE MutexInv'
  BY SMTT(30), <1>0, <1>4 DEF mutex_wait, sys_futex_wait
<1>5. ASSUME NEW t \in Threads, mutex_take(t) PROVE MutexInv'
  <2>1. CASE state = Free
    <3>1. state'.owner = 1
      BY <1>0, <1>5, <2>1, TakenWord DEF mutex_take
    <3>2. \A u \in Threads : ~InMutex(u)
      BY SMTT(30), <1>0, <2>1
    <3> QED
      BY SMTT(30), <1>0, <1>5, <2>1, <3>1, <3>2 DEF mutex_take, Goto
  <2>2. CASE state # Free
    BY SMTT(30), <1>0, <1>5, <2>2 DEF mutex_take
  <2> QED
    BY <2>1, <2>2
<1>6. ASSUME NEW t \in Threads, reader_count(t) PROVE MutexInv'
  BY SMTT(30), <1>0, <1>6 DEF reader_count, Goto, locals
<1>7. ASSUME NEW t \in Threads, rwlock_mutex_unlock(t) PROVE MutexInv'
  <2>1. InMutex(t) /\ state' = Free
    BY <1>7 DEF rwlock_mutex_unlock
  <2>2. \A u \in Threads : InMutex(u)' => InMutex(u) /\ u # t
    <3>1. mode[t] # "write"
      BY <1>0, <1>7 DEF rwlock_mutex_unlock, LabelInv
    <3>2. CASE state.waiters
      BY SMTT(30), <1>0, <1>7, <2>1, <3>1, <3>2 DEF rwlock_mutex_unlock, Goto, locals
    <3>3. CASE ~state.waiters
      BY SMTT(30), <1>0, <1>7, <2>1, <3>3 DEF rwlock_mutex_unlock, Goto, Return, HoldsAfter
    <3> QED
      BY <3>2, <3>3
  <2>3. \A u \in Threads : expected'[u] \in {expected[u], Free}
    BY SMTT(30), <1>0, <1>7 DEF rwlock_mutex_unlock, Return, locals
  <2> QED
    BY SMTT(30), <1>0, <2>1, <2>2, <2>3
<1>8. ASSUME NEW t \in Threads, mutex_wake(t) PROVE MutexInv'
  BY SMTT(30), <1>0, <1>8 DEF mutex_wake, sys_futex_wake_all, HoldsAfter
<1>9. ASSUME NEW t \in Threads, writer_load(t) PROVE MutexInv'
  BY SMTT(30), <1>0, <1>9 DEF writer_load, Goto
<1>10. ASSUME NEW t \in Threads, writer_enter(t) PROVE MutexInv'
  BY SMTT(30), <1>0, <1>10 DEF writer_enter, Goto, Return
<1>11. ASSUME NEW t \in Threads, writer_mark(t) PROVE MutexInv'
  BY SMTT(30), <1>0, <1>11 DEF writer_mark, Goto, ensure
<1>12. ASSUME NEW t \in Threads, writer_wait(t) PROVE MutexInv'
  BY SMTT(30), <1>0, <1>12 DEF writer_wait, sys_futex_wait, locals
<1>13. ASSUME NEW t \in Threads, reader_leave(t) PROVE MutexInv'
  <2>1. \A u \in Threads : InMutex(u)' => InMutex(u)
    BY SMTT(30), <1>0, <1>13, LeavesQuietly DEF Return, Goto
  <2>2. state' = state /\ \A u \in Threads : expected'[u] \in {expected[u], Free}
    BY SMTT(30), <1>0, <1>13, LeavesQuietly DEF Return
  <2> QED
    BY <1>0, <2>1, <2>2
<1>14. ASSUME NEW t \in Threads, mutex_eintr(t) PROVE MutexInv'
  BY SMTT(30), <1>0, <1>14 DEF mutex_eintr, Goto, locals
<1>15. ASSUME UNCHANGED vars PROVE MutexInv'
  BY <1>0, <1>15 DEF vars
<1> QED
  BY <1>1, <1>2, <1>3, <1>4, <1>5, <1>6, <1>7,
     <1>8, <1>9, <1>10, <1>11, <1>12, <1>13, <1>14, <1>15
     DEF Next, Call, Step, pthread_rwlock_rdlock, pthread_rwlock_wrlock

(* Labels, modes and loaded words stay in step. *)
LEMMA LabelStep == IndInv /\ [Next]_vars => LabelInv'
<1> SUFFICES ASSUME IndInv, [Next]_vars PROVE LabelInv'
  OBVIOUS
<1>0. TypeOK /\ TypeOK' /\ MutexInv /\ LabelInv /\ CountInv /\ NoLostWakeup /\ EnsuresHold
  BY TypeStep DEF IndInv
<1> USE Words DEF TypeOK, LabelInv
<1>1. ASSUME NEW t \in Threads, NEW op \in {"read", "write"}, rwlock_mutex_lock(t, op) PROVE LabelInv'
  BY SMTT(30), <1>0, <1>1 DEF rwlock_mutex_lock, Goto
<1>2. ASSUME NEW t \in Threads, pthread_rwlock_unlock(t) PROVE LabelInv'
  BY SMTT(30), <1>0, <1>2 DEF pthread_rwlock_unlock, Goto
<1>3. ASSUME NEW t \in Threads, mutex_mark(t) PROVE LabelInv'
  BY SMTT(30), <1>0, <1>3 DEF mutex_mark, Goto, ensure
<1>4. ASSUME NEW t \in Threads, mutex_wait(t) PROVE LabelInv'
  BY SMTT(30), <1>0, <1>4 DEF mutex_wait, sys_futex_wait
<1>5. ASSUME NEW t \in Threads, mutex_take(t) PROVE LabelInv'
  BY SMTT(30), <1>0, <1>5 DEF mutex_take, Goto
<1>6. ASSUME NEW t \in Threads, reader_count(t) PROVE LabelInv'
  BY SMTT(30), <1>0, <1>6 DEF reader_count, Goto, locals, RcWord
<1>7. ASSUME NEW t \in Threads, rwlock_mutex_unlock(t) PROVE LabelInv'
  BY SMTT(30), <1>0, <1>7 DEF rwlock_mutex_unlock, Goto, Return, HoldsAfter, locals
<1>8. ASSUME NEW t \in Threads, mutex_wake(t) PROVE LabelInv'
  BY SMTT(30), <1>0, <1>8 DEF mutex_wake, sys_futex_wake_all, HoldsAfter
<1>9. ASSUME NEW t \in Threads, writer_load(t) PROVE LabelInv'
  BY SMTT(30), <1>0, <1>9 DEF writer_load, Goto
<1>10. ASSUME NEW t \in Threads, writer_enter(t) PROVE LabelInv'
  BY SMTT(30), <1>0, <1>10 DEF writer_enter, Goto, Return
<1>11. ASSUME NEW t \in Threads, writer_mark(t) PROVE LabelInv'
  <2>1. ~writer_notify'.waiters
    BY SMTT(30), <1>0, <1>11 DEF writer_mark, RcWord
  <2> QED
    BY SMTT(30), <1>0, <1>11, <2>1 DEF writer_mark, Goto
<1>12. ASSUME NEW t \in Threads, writer_wait(t) PROVE LabelInv'
  <2>1. writer_notify # WithWaiters(rc_expected[t])
    BY SMTT(30), <1>0
  <2> QED
    BY SMTT(30), <1>0, <1>12, <2>1 DEF writer_wait, sys_futex_wait, locals
<1>13. ASSUME NEW t \in Threads, reader_leave(t) PROVE LabelInv'
  <2>1. CASE /\ rc_expected' = [rc_expected EXCEPT ![t] = writer_notify]
             /\ UNCHANGED <<writer_notify, pc, want, expected, mode>>
    <3>1. writer_notify.count # 0
      <4>1. t \in Counted
        BY <1>0, <1>13, LeavesQuietly DEF Counted, Counts
      <4> QED
        BY SMTT(30), <1>0, <4>1, FewCounted DEF CountInv
    <3> QED
      BY SMTT(30), <1>0, <2>1, <3>1
  <2>2. CASE /\ writer_notify' = [writer_notify EXCEPT !.count = writer_notify.count - 1]
             /\ Return(t, "none")
    <3>1. writer_notify'.waiters = FALSE
      BY <1>0, <2>2 DEF RcWord
    <3> QED
      BY SMTT(30), <1>0, <2>2, <3>1 DEF Return, Goto
  <2> HIDE DEF TypeOK, LabelInv
  <2> QED
    BY <1>0, <1>13, <2>1, <2>2, LeavesQuietly
<1>14. ASSUME NEW t \in Threads, mutex_eintr(t) PROVE LabelInv'
  BY SMTT(30), <1>0, <1>14 DEF mutex_eintr, Goto, locals
<1>15. ASSUME UNCHANGED vars PROVE LabelInv'
  BY <1>0, <1>15 DEF vars
<1> QED
  BY <1>1, <1>2, <1>3, <1>4, <1>5, <1>6, <1>7,
     <1>8, <1>9, <1>10, <1>11, <1>12, <1>13, <1>14, <1>15
     DEF Next, Call, Step, pthread_rwlock_rdlock, pthread_rwlock_wrlock

(* No step forgets a sleeper of the small mutex. *)
LEMMA WakeStep == IndInv /\ [Next]_vars => NoLostWakeup'
<1> SUFFICES ASSUME IndInv, [Next]_vars PROVE NoLostWakeup'
  OBVIOUS
<1>0. TypeOK /\ TypeOK' /\ MutexInv /\ LabelInv /\ CountInv /\ NoLostWakeup /\ EnsuresHold
  BY TypeStep DEF IndInv
<1> USE Words DEF TypeOK, NoLostWakeup
<1>1. ASSUME NEW t \in Threads, NEW op \in {"read", "write"}, rwlock_mutex_lock(t, op) PROVE NoLostWakeup'
  BY SMTT(30), <1>0, <1>1 DEF rwlock_mutex_lock, Goto
<1>2. ASSUME NEW t \in Threads, pthread_rwlock_unlock(t) PROVE NoLostWakeup'
  BY SMTT(30), <1>0, <1>2 DEF pthread_rwlock_unlock, Goto
<1>3. ASSUME NEW t \in Threads, mutex_mark(t) PROVE NoLostWakeup'
  BY SMTT(30), <1>0, <1>3 DEF mutex_mark, Goto, ensure
<1>4. ASSUME NEW t \in Threads, mutex_wait(t) PROVE NoLostWakeup'
  BY SMTT(30), <1>0, <1>4 DEF mutex_wait, sys_futex_wait
<1>5. ASSUME NEW t \in Threads, mutex_take(t) PROVE NoLostWakeup'
  BY SMTT(30), <1>0, <1>5 DEF mutex_take, Goto
<1>6. ASSUME NEW t \in Threads, reader_count(t) PROVE NoLostWakeup'
  BY SMTT(30), <1>0, <1>6 DEF reader_count, Goto, locals
<1>7. ASSUME NEW t \in Threads, rwlock_mutex_unlock(t) PROVE NoLostWakeup'
  BY SMTT(30), <1>0, <1>7 DEF rwlock_mutex_unlock, Goto, Return, HoldsAfter, locals
<1>8. ASSUME NEW t \in Threads, mutex_wake(t) PROVE NoLostWakeup'
  BY SMTT(30), <1>0, <1>8 DEF mutex_wake, sys_futex_wake_all, HoldsAfter
<1>9. ASSUME NEW t \in Threads, writer_load(t) PROVE NoLostWakeup'
  BY SMTT(30), <1>0, <1>9 DEF writer_load, Goto
<1>10. ASSUME NEW t \in Threads, writer_enter(t) PROVE NoLostWakeup'
  BY SMTT(30), <1>0, <1>10 DEF writer_enter, Goto, Return
<1>11. ASSUME NEW t \in Threads, writer_mark(t) PROVE NoLostWakeup'
  BY SMTT(30), <1>0, <1>11 DEF writer_mark, Goto, ensure
<1>12. ASSUME NEW t \in Threads, writer_wait(t) PROVE NoLostWakeup'
  BY SMTT(30), <1>0, <1>12 DEF writer_wait, sys_futex_wait, locals
<1>13. ASSUME NEW t \in Threads, reader_leave(t) PROVE NoLostWakeup'
  BY SMTT(30), <1>0, <1>13, LeavesQuietly DEF Return, Goto
<1>14. ASSUME NEW t \in Threads, mutex_eintr(t) PROVE NoLostWakeup'
  BY SMTT(30), <1>0, <1>14 DEF mutex_eintr, Goto, locals
<1>15. ASSUME UNCHANGED vars PROVE NoLostWakeup'
  BY <1>0, <1>15 DEF vars
<1> QED
  BY <1>1, <1>2, <1>3, <1>4, <1>5, <1>6, <1>7,
     <1>8, <1>9, <1>10, <1>11, <1>12, <1>13, <1>14, <1>15
     DEF Next, Call, Step, pthread_rwlock_rdlock, pthread_rwlock_wrlock

(* No assertion fails. *)
LEMMA EnsureStep == IndInv /\ [Next]_vars => EnsuresHold'
<1> SUFFICES ASSUME IndInv, [Next]_vars PROVE EnsuresHold'
  OBVIOUS
<1>0. TypeOK /\ TypeOK' /\ MutexInv /\ LabelInv /\ CountInv /\ NoLostWakeup /\ EnsuresHold
  BY TypeStep DEF IndInv
<1> USE Words DEF TypeOK, EnsuresHold, LabelInv, MutexInv
<1>1. ASSUME NEW t \in Threads, NEW op \in {"read", "write"}, rwlock_mutex_lock(t, op) PROVE EnsuresHold'
  BY <1>0, <1>1 DEF rwlock_mutex_lock, Goto
<1>2. ASSUME NEW t \in Threads, pthread_rwlock_unlock(t) PROVE EnsuresHold'
  BY <1>0, <1>2 DEF pthread_rwlock_unlock, Goto
<1>3. ASSUME NEW t \in Threads, mutex_mark(t) PROVE EnsuresHold'
  BY <1>0, <1>3 DEF mutex_mark, Goto, ensure
<1>4. ASSUME NEW t \in Threads, mutex_wait(t) PROVE EnsuresHold'
  BY <1>0, <1>4 DEF mutex_wait, sys_futex_wait
<1>5. ASSUME NEW t \in Threads, mutex_take(t) PROVE EnsuresHold'
  BY <1>0, <1>5 DEF mutex_take, Goto
<1>6. ASSUME NEW t \in Threads, reader_count(t) PROVE EnsuresHold'
  BY <1>0, <1>6 DEF reader_count, Goto, locals
<1>7. ASSUME NEW t \in Threads, rwlock_mutex_unlock(t) PROVE EnsuresHold'
  BY <1>0, <1>7 DEF rwlock_mutex_unlock, Goto, Return, HoldsAfter, locals
<1>8. ASSUME NEW t \in Threads, mutex_wake(t) PROVE EnsuresHold'
  BY <1>0, <1>8 DEF mutex_wake, sys_futex_wake_all, HoldsAfter
<1>9. ASSUME NEW t \in Threads, writer_load(t) PROVE EnsuresHold'
  BY <1>0, <1>9 DEF writer_load, Goto
<1>10. ASSUME NEW t \in Threads, writer_enter(t) PROVE EnsuresHold'
  BY <1>0, <1>10 DEF writer_enter, Goto, Return
<1>11. ASSUME NEW t \in Threads, writer_mark(t) PROVE EnsuresHold'
  BY SMTT(30), <1>0, <1>11 DEF writer_mark, Goto, ensure
<1>12. ASSUME NEW t \in Threads, writer_wait(t) PROVE EnsuresHold'
  BY <1>0, <1>12 DEF writer_wait, sys_futex_wait, locals
<1>13. ASSUME NEW t \in Threads, reader_leave(t) PROVE EnsuresHold'
  BY <1>0, <1>13 DEF reader_leave, Goto, Return, ReturnAndWake, ensure
<1>14. ASSUME NEW t \in Threads, mutex_eintr(t) PROVE EnsuresHold'
  BY <1>0, <1>14 DEF mutex_eintr, Goto, locals
<1>15. ASSUME UNCHANGED vars PROVE EnsuresHold'
  BY <1>0, <1>15 DEF vars
<1> QED
  BY <1>1, <1>2, <1>3, <1>4, <1>5, <1>6, <1>7,
     <1>8, <1>9, <1>10, <1>11, <1>12, <1>13, <1>14, <1>15
     DEF Next, Call, Step, pthread_rwlock_rdlock, pthread_rwlock_wrlock

(* The word goes on counting the readers. *)
LEMMA CountStep == IndInv /\ [Next]_vars => CountInv'
<1> SUFFICES ASSUME IndInv, [Next]_vars PROVE CountInv'
  OBVIOUS
<1>0. TypeOK /\ TypeOK' /\ MutexInv /\ LabelInv /\ CountInv /\ NoLostWakeup /\ EnsuresHold
  BY TypeStep DEF IndInv
<1> USE Words DEF TypeOK, CountInv
<1>1. ASSUME NEW t \in Threads, NEW op \in {"read", "write"}, rwlock_mutex_lock(t, op) PROVE CountInv'
  <2>1. Counted' = Counted
    <3>1. \A u \in Threads : Counts(u)' <=> Counts(u)
      BY SMTT(30), <1>0, <1>1 DEF rwlock_mutex_lock, Goto, Counts, LabelInv
    <3> QED
      BY <3>1, SameCounted
  <2> QED
    BY SMTT(30), <1>0, <1>1, <2>1 DEF rwlock_mutex_lock, Goto, WriterLooks
<1>2. ASSUME NEW t \in Threads, pthread_rwlock_unlock(t) PROVE CountInv'
  <2>1. mode[t] = "read" => writer_notify # NoReaders
    BY SMTT(30), <1>0, <1>2, FewCounted DEF Counted, Counts
  <2>2. mode[t] = "write" => writer_notify = NoReaders
    <3>1. mode[t] = "write" => ~WriterLooks
      BY SMTT(30), <1>0, <1>2 DEF pthread_rwlock_unlock, WriterLooks, MutexInv, InMutex
    <3> QED
      BY SMTT(30), <1>0, <3>1, FewCounted DEF LabelInv
  <2>3. Counted' = Counted
    <3>1. \A u \in Threads : Counts(u)' <=> Counts(u)
      BY SMTT(30), <1>0, <1>2, <2>1, <2>2 DEF pthread_rwlock_unlock, Goto, Counts
    <3> QED
      BY <3>1, SameCounted
  <2> QED
    BY SMTT(30), <1>0, <1>2, <2>3 DEF pthread_rwlock_unlock, Goto, WriterLooks
<1>3. ASSUME NEW t \in Threads, mutex_mark(t) PROVE CountInv'
  <2>1. Counted' = Counted
    <3>1. \A u \in Threads : Counts(u)' <=> Counts(u)
      BY SMTT(30), <1>0, <1>3 DEF mutex_mark, Goto, ensure, Counts, LabelInv
    <3> QED
      BY <3>1, SameCounted
  <2> QED
    BY SMTT(30), <1>0, <1>3, <2>1 DEF mutex_mark, Goto, ensure, WriterLooks
<1>4. ASSUME NEW t \in Threads, mutex_wait(t) PROVE CountInv'
  <2>1. Counted' = Counted
    <3>1. \A u \in Threads : Counts(u)' <=> Counts(u)
      BY SMTT(30), <1>0, <1>4 DEF mutex_wait, sys_futex_wait, Counts, LabelInv
    <3> QED
      BY <3>1, SameCounted
  <2> QED
    BY SMTT(30), <1>0, <1>4, <2>1 DEF mutex_wait, sys_futex_wait, WriterLooks
<1>5. ASSUME NEW t \in Threads, mutex_take(t) PROVE CountInv'
  <2>1. Counted' = Counted
    <3>1. \A u \in Threads : Counts(u)' <=> Counts(u)
      BY SMTT(30), <1>0, <1>5 DEF mutex_take, Goto, Counts, LabelInv
    <3> QED
      BY <3>1, SameCounted
  <2>2. WriterLooks => WriterLooks'
    BY SMTT(30), <1>0, <1>5 DEF mutex_take, Goto, WriterLooks
  <2> QED
    BY SMTT(30), <1>0, <1>5, <2>1, <2>2 DEF mutex_take, Goto
<1>6. ASSUME NEW t \in Threads, reader_count(t) PROVE CountInv'
  <2>1. ~Counts(t) /\ Counts(t)' /\ InMutex(t)
    BY SMTT(30), <1>0, <1>6 DEF reader_count, Goto, locals, LabelInv, Counts, InMutex
  <2>2. \A u \in Threads \ {t} : Counts(u)' <=> Counts(u)
    BY SMTT(30), <1>0, <1>6 DEF reader_count, Goto, locals, Counts
  <2>3. Cardinality(Counted') = Cardinality(Counted) + 1
    BY <2>1, <2>2, OneMore
  <2>4. ~spoiled /\ ~spoiled'
    BY <1>0, <1>6, <2>1 DEF reader_count, MutexInv, WriterLooks, InMutex
  <2>5. \A u \in Threads : mode'[u] # "write" /\ pc'[u] # "writer_check"
    <3>1. \A u \in Threads : InMutex(u) => u = t
      BY <1>0, <2>1 DEF MutexInv
    <3>2. \A u \in Threads : mode[u] # "write" /\ pc[u] # "writer_check"
      BY <1>0, <1>6, <3>1 DEF reader_count, LabelInv, InMutex
    <3> QED
      BY SMTT(30), <1>0, <1>6, <3>2 DEF reader_count, Goto
  <2>6. writer_notify'.count = writer_notify.count + 1
    BY <1>0, <1>6 DEF reader_count, RcWord
  <2> QED
    BY <1>0, <2>3, <2>4, <2>5, <2>6
<1>7. ASSUME NEW t \in Threads, rwlock_mutex_unlock(t) PROVE CountInv'
  <2>1. Counted' = Counted
    <3>1. \A u \in Threads : Counts(u)' <=> Counts(u)
      BY SMTT(30), <1>0, <1>7 DEF rwlock_mutex_unlock, Goto, Return, HoldsAfter, locals, Counts, LabelInv
    <3> QED
      BY <3>1, SameCounted
  <2>2. ~spoiled
    BY SMTT(30), <1>0, <1>7 DEF rwlock_mutex_unlock, WriterLooks, MutexInv, InMutex
  <2>3. \A u \in Threads : mode'[u] = "write" => mode[u] = "write"
    BY SMTT(30), <1>0, <1>7 DEF rwlock_mutex_unlock, Goto, Return, HoldsAfter, locals
  <2>4. \A u \in Threads : pc'[u] = "writer_check" =>
          pc[u] = "writer_check" /\ rc_expected'[u] = rc_expected[u]
    BY SMTT(30), <1>0, <1>7 DEF rwlock_mutex_unlock, Goto, Return, locals
  <2> QED
    BY SMTT(30), <1>0, <1>7, <2>1, <2>2, <2>3, <2>4 DEF rwlock_mutex_unlock
<1>8. ASSUME NEW t \in Threads, mutex_wake(t) PROVE CountInv'
  <2>1. Counted' = Counted
    <3>1. \A u \in Threads : Counts(u)' <=> Counts(u)
      BY SMTT(30), <1>0, <1>8 DEF mutex_wake, sys_futex_wake_all, HoldsAfter, Counts, LabelInv
    <3> QED
      BY <3>1, SameCounted
  <2>2. \A u \in Threads : mode'[u] = "write" => mode[u] = "write"
    BY SMTT(30), <1>0, <1>8 DEF mutex_wake, HoldsAfter
  <2>3. \A u \in Threads :
          /\ pc'[u] = "writer_check" =>
               pc[u] = "writer_check" /\ rc_expected'[u] = rc_expected[u]
          /\ pc[u] \in {"writer_load", "writer_check", "writer_wait"} => pc'[u] = pc[u]
    BY SMTT(30), <1>0, <1>8 DEF mutex_wake, sys_futex_wake_all
  <2>4. WriterLooks => WriterLooks'
    BY <2>3 DEF WriterLooks
  <2> QED
    BY SMTT(30), <1>0, <1>8, <2>1, <2>2, <2>3, <2>4 DEF mutex_wake
<1>9. ASSUME NEW t \in Threads, writer_load(t) PROVE CountInv'
  <2>1. Counted' = Counted
    <3>1. \A u \in Threads : Counts(u)' <=> Counts(u)
      BY SMTT(30), <1>0, <1>9 DEF writer_load, Goto, Counts, LabelInv
    <3> QED
      BY <3>1, SameCounted
  <2>2. writer_notify = NoReaders => Counted = {} /\ ~spoiled
    BY SMTT(30), <1>0, FewCounted
  <2>3. WriterLooks'
    BY SMTT(30), <1>0, <1>9 DEF writer_load, Goto, WriterLooks
  <2> QED
    BY SMTT(30), <1>0, <1>9, <2>1, <2>2, <2>3 DEF writer_load, Goto
<1>10. ASSUME NEW t \in Threads, writer_enter(t) PROVE CountInv'
  <2>1. Counted' = Counted
    <3>1. ~Counts(t) /\ ~Counts(t)'
      BY SMTT(30), <1>0, <1>10 DEF writer_enter, Goto, Return, Counts, LabelInv
    <3>2. \A u \in Threads \ {t} : Counts(u)' <=> Counts(u)
      BY SMTT(30), <1>0, <1>10 DEF writer_enter, Goto, Return, Counts
    <3> QED
      BY <3>1, <3>2, SameCounted
  <2>2. Counted = {} /\ ~spoiled
    BY <1>0, <1>10 DEF writer_enter
  <2> QED
    BY <1>0, <1>10, <2>1, <2>2 DEF writer_enter
<1>11. ASSUME NEW t \in Threads, writer_mark(t) PROVE CountInv'
  <2>1. Counted' = Counted
    <3>1. \A u \in Threads : Counts(u)' <=> Counts(u)
      BY SMTT(30), <1>0, <1>11 DEF writer_mark, Goto, ensure, Counts, LabelInv
    <3> QED
      BY <3>1, SameCounted
  <2>2. WriterLooks'
    BY SMTT(30), <1>0, <1>11 DEF writer_mark, Goto, WriterLooks
  <2>3. writer_notify = NoReaders => Counted = {} /\ ~spoiled
    BY SMTT(30), <1>0, FewCounted
  <2>4. CASE ~UNCHANGED <<writer_notify, spoiled>>
    <3>1. /\ writer_notify' = [writer_notify EXCEPT !.count = RC_COUNT_MASK]
          /\ pc' = [pc EXCEPT ![t] = "writer_wait"] /\ spoiled'
      BY <1>11, <2>4 DEF writer_mark, Goto
    <3>2. writer_notify'.count = RC_COUNT_MASK
      BY <1>0, <3>1 DEF RcWord
    <3>3. \A u \in Threads : pc'[u] # "writer_check"
      BY SMTT(30), <1>0, <1>11, <3>1 DEF writer_mark, MutexInv, InMutex
    <3> QED
      BY SMTT(30), <1>0, <1>11, <2>1, <2>2, <3>1, <3>2, <3>3, FewCounted DEF writer_mark
  <2>5. CASE UNCHANGED <<writer_notify, spoiled>>
    BY SMTT(30), <1>0, <1>11, <2>1, <2>2, <2>3, <2>5 DEF writer_mark, Goto
  <2> QED
    BY <2>4, <2>5
<1>12. ASSUME NEW t \in Threads, writer_wait(t) PROVE CountInv'
  <2>1. Counted' = Counted
    <3>1. \A u \in Threads : Counts(u)' <=> Counts(u)
      BY SMTT(30), <1>0, <1>12 DEF writer_wait, sys_futex_wait, locals, Counts, LabelInv
    <3> QED
      BY <3>1, SameCounted
  <2>2. writer_notify # WithWaiters(rc_expected[t])
    BY SMTT(30), <1>0 DEF LabelInv
  <2>3. pc' = [pc EXCEPT ![t] = "writer_load"]
    BY <1>12, <2>2 DEF writer_wait, sys_futex_wait
  <2>4. WriterLooks'
    BY SMTT(30), <1>0, <2>3 DEF WriterLooks
  <2> QED
    BY SMTT(30), <1>0, <1>12, <2>1, <2>3, <2>4 DEF writer_wait, locals
<1>13. ASSUME NEW t \in Threads, reader_leave(t) PROVE CountInv'
  <2>1. pc[t] = "unlock_check" /\ UNCHANGED <<state, spoiled>> /\ t \in Counted
    BY <1>0, <1>13, LeavesQuietly DEF Counted, Counts
  <2>2. CASE /\ rc_expected' = [rc_expected EXCEPT ![t] = writer_notify]
             /\ UNCHANGED <<writer_notify, pc, want, expected, mode>>
    <3>1. Counted' = Counted
      BY <2>2 DEF Counted, Counts
    <3>2. WriterLooks' <=> WriterLooks
      BY <2>2 DEF WriterLooks
    <3> QED
      BY SMTT(30), <1>0, <2>1, <2>2, <3>1, <3>2
  <2>3. CASE /\ writer_notify' = [writer_notify EXCEPT !.count = writer_notify.count - 1]
             /\ Return(t, "none")
    <3>1. \A u \in Threads \ {t} : Counts(u)' <=> Counts(u)
      BY SMTT(30), <1>0, <2>3 DEF Return, Goto, Counts
    <3>2. Counts(t) /\ ~Counts(t)'
      BY SMTT(30), <1>0, <2>1, <2>3 DEF Return, Goto, Counts
    <3>3. Cardinality(Counted') = Cardinality(Counted) - 1
      BY <3>1, <3>2, OneLess
    <3>4. writer_notify'.count = writer_notify.count - 1
      BY <1>0, <2>3 DEF RcWord
    <3>5. \A u \in Threads : mode[u] # "write" /\ (pc[u] = "writer_check" => rc_expected[u] # NoReaders)
      BY <1>0, <2>1
    <3>6. \A u \in Threads : mode'[u] # "write" /\ (pc'[u] = "writer_check" => rc_expected'[u] # NoReaders)
      BY SMTT(30), <1>0, <2>3, <3>5 DEF Return, Goto
    <3>7. WriterLooks => WriterLooks'
      BY SMTT(30), <1>0, <2>1, <2>3 DEF WriterLooks, Return, Goto
    <3> QED
      BY SMTT(30), <1>0, <2>1, <3>3, <3>4, <3>6, <3>7, FewCounted
  <2> QED
    BY <1>0, <1>13, <2>2, <2>3, LeavesQuietly
<1>14. ASSUME NEW t \in Threads, mutex_eintr(t) PROVE CountInv'
  <2>1. Counted' = Counted
    <3>1. \A u \in Threads : Counts(u)' <=> Counts(u)
      BY SMTT(30), <1>0, <1>14 DEF mutex_eintr, Goto, locals, Counts, LabelInv
    <3> QED
      BY <3>1, SameCounted
  <2> QED
    BY SMTT(30), <1>0, <1>14, <2>1 DEF mutex_eintr, Goto, locals, WriterLooks
<1>15. ASSUME UNCHANGED vars PROVE CountInv'
  BY SMTT(30), <1>0, <1>15 DEF vars, Counted, Counts, WriterLooks
<1> QED
  BY <1>1, <1>2, <1>3, <1>4, <1>5, <1>6, <1>7,
     <1>8, <1>9, <1>10, <1>11, <1>12, <1>13, <1>14, <1>15
     DEF Next, Call, Step, pthread_rwlock_rdlock, pthread_rwlock_wrlock

-----------------------------------------------------------------------------

LEMMA Inductive == Spec => []IndInv
<1>1. IndInv /\ [Next]_vars => IndInv'
  BY TypeStep, MutexStep, LabelStep, WakeStep, EnsureStep, CountStep DEF IndInv
<1> QED
  BY InitIndInv, <1>1, PTL DEF Spec

(* A writer is alone, for any number of readers that come and go while it  *)
(* looks at their count.                                                   *)
THEOREM WriterAlone == Spec => []WriterIsAlone
<1>1. IndInv => WriterIsAlone
  <2> SUFFICES ASSUME IndInv, NEW t \in Threads, NEW u \in Threads,
                      mode[t] = "write", u # t
               PROVE  mode[u] = "none"
    BY DEF WriterIsAlone
  <2>1. mode[u] # "write"
    BY DEF IndInv, MutexInv, InMutex
  <2>2. mode[u] # "read"
    BY DEF IndInv, CountInv, Counted, Counts
  <2> QED
    BY <2>1, <2>2 DEF IndInv, TypeOK
<1> QED
  BY Inductive, <1>1, PTL

(* None of the assertions of the read-write lock fails. *)
THEOREM AssertionsHold == Spec => []EnsuresHold
<1>1. IndInv => EnsuresHold
  BY DEF IndInv
<1> QED
  BY Inductive, <1>1, PTL

(* A sleeper of the small mutex has its bit in the word, or a waker. *)
THEOREM WakeupSafe == Spec => []NoLostWakeup
<1>1. IndInv => NoLostWakeup
  BY DEF IndInv
<1> QED
  BY Inductive, <1>1, PTL

(* A writer that has met a reader and marked the count has spoiled the     *)
(* lock for every thread: nobody is given it again.                        *)
THEOREM NeverAgain == Spec => SpoiledForGood
<1>1. IndInv /\ [Next]_vars => [spoiled => NobodyIsGiven]_vars
  <2> SUFFICES ASSUME IndInv, Next, spoiled,
                      NEW u \in Threads, pc[u] # "mutex_wake"
               PROVE  mode'[u] \in {mode[u], "none"}
    BY DEF NobodyIsGiven
  <2>0. TypeOK /\ LabelInv /\ MutexInv /\ CountInv
    BY DEF IndInv
  <2>1. \A t \in Threads : pc[t] # "mutex_unlock"
    BY <2>0 DEF CountInv, WriterLooks, MutexInv, InMutex
  <2>2. \A t \in Threads : ~writer_enter(t)
    BY <2>0 DEF writer_enter, CountInv
  <2>3. ASSUME NEW t \in Threads, pthread_rwlock_unlock(t)
        PROVE  mode'[u] \in {mode[u], "none"}
    BY <2>0, <2>3 DEF pthread_rwlock_unlock, TypeOK
  <2>4. ASSUME NEW t \in Threads, mutex_wake(t)
        PROVE  mode'[u] \in {mode[u], "none"}
    BY <2>0, <2>4 DEF mutex_wake, TypeOK
  <2>5. ASSUME NEW t \in Threads, reader_leave(t)
        PROVE  mode'[u] \in {mode[u], "none"}
    BY <2>0, <2>5, LeavesQuietly DEF Return, TypeOK
  <2>6. ASSUME UNCHANGED mode PROVE mode'[u] \in {mode[u], "none"}
    BY <2>6
  <2> QED
    BY <2>1, <2>2, <2>3, <2>4, <2>5, <2>6
       DEF Next, Call, Step, pthread_rwlock_rdlock, pthread_rwlock_wrlock,
           rwlock_mutex_lock, mutex_mark, mutex_wait, mutex_take, reader_count,
           rwlock_mutex_unlock, writer_load, writer_mark, writer_wait, mutex_eintr
<1> QED
  BY Inductive, <1>1, PTL DEF Spec, SpoiledForGood

=============================================================================
