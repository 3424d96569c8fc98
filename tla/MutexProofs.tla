----------------------------- MODULE MutexProofs -----------------------------
(***************************************************************************)
(* Proofs about the mutex, for any set of threads and any nesting.         *)
(*                                                                         *)
(* Its properties are not inductive on their own: that the owner's         *)
(* `recursion' is right rests on nobody else being at a label from which   *)
(* it is written, and that a relock is recognised rests on the thread id   *)
(* in a stale `expected' still being in the word, because only its owner   *)
(* removes it.  IndInv adds these facts.                                   *)
(***************************************************************************)
EXTENDS Mutex, Integers, TLAPS

(* A leaf is left to Zenon for thirty seconds, or to the prover it names.  *)
USE ZenonT(30)

(* The word is the truth about who is inside: the owner's history agrees   *)
(* with `recursion', and everyone else has nothing and is nowhere near it. *)
OwnerInv ==
  \A t \in Threads :
    /\ state.owner = t =>
         /\ held[t] = IF pc[t] = "acquired" THEN 0 ELSE recursion
         /\ pc[t] \notin {"acquired", "unlock_exchange"} => recursion >= 1
    /\ state.owner # t =>
         /\ held[t] = 0
         /\ pc[t] \notin {"acquired", "unlock_dec", "unlock_exchange"}
    /\ pc[t] = "unlock_exchange" => recursion = 0

(* A word with FLAG_WAITING has an owner; a thread past its first          *)
(* compare-and-swap saw a non-zero word, and its own id there is current.  *)
WordInv ==
  /\ state.waiting => state.owner # NoThread
  /\ \A t \in Threads :
       pc[t] = "lock_check" =>
         /\ expected[t].owner # NoThread
         /\ expected[t].owner = t => state.owner = t

IndInv ==
  /\ TypeOK
  /\ OwnerInv
  /\ WordInv
  /\ NoLostWakeup
  /\ PanicOnlyOnMisuse
  /\ HonestCodes

-----------------------------------------------------------------------------

(* The words and the panic records the actions build have their shapes. *)
LEMMA WordShapes ==
  /\ Unlocked \in Word
  /\ \A t \in Threads : OwnedBy(t) \in Word
  /\ \A w \in Word : Flagged(w) \in Word
  BY DEF Unlocked, OwnedBy, Flagged, Word

(* What the fields of those words are, and that only 0 has neither part. *)
LEMMA WordFields ==
  /\ Unlocked.owner = NoThread /\ Unlocked.waiting = FALSE
  /\ \A t \in Threads : /\ OwnedBy(t).owner = t
                        /\ OwnedBy(t).waiting = FALSE
  /\ \A w \in Word : /\ w.owner \in Threads \cup {NoThread}
                     /\ w.waiting \in BOOLEAN
                     /\ Flagged(w).owner = w.owner
                     /\ Flagged(w).waiting = TRUE
                     /\ w.owner = NoThread /\ ~w.waiting => w = Unlocked
  BY SMTT(30) DEF Unlocked, OwnedBy, Flagged, Word

LEMMA PanicShapes ==
  /\ NoPanic \in Panics
  /\ \A t \in Threads : /\ PanicOf(t, "relock") \in Panics
                        /\ PanicOf(t, "not owner") \in Panics
  BY DEF NoPanic, PanicOf, Panics

LEMMA PanicFields ==
  /\ NoPanic.why = "none"
  /\ \A t \in Threads : /\ PanicOf(t, "relock").by = t
                        /\ PanicOf(t, "relock").why = "relock"
                        /\ PanicOf(t, "not owner").by = t
                        /\ PanicOf(t, "not owner").why = "not owner"
  BY DEF NoPanic, PanicOf

LEMMA InitIndInv == Init => IndInv
<1> SUFFICES ASSUME Init PROVE IndInv
  OBVIOUS
<1> USE ThreadsAssumption DEF Init
<1>1. TypeOK
  BY WordShapes, PanicShapes DEF TypeOK, Kinds, Labels, Codes
<1>2. OwnerInv
  BY DEF OwnerInv, Unlocked
<1>3. WordInv
  BY DEF WordInv, Unlocked
<1>4. NoLostWakeup /\ PanicOnlyOnMisuse /\ HonestCodes
  BY DEF NoLostWakeup, PanicOnlyOnMisuse, HonestCodes, NoPanic
<1> QED
  BY <1>1, <1>2, <1>3, <1>4 DEF IndInv

LEMMA RelockType ==
  ASSUME TypeOK, NEW t \in Threads, RelockByOwner(t)
  PROVE  TypeOK'
<1> USE DEF TypeOK, Labels, Codes, Return
<1>1. CASE kind = "RECURSIVE"
  BY SMTT(30), <1>1 DEF RelockByOwner
<1>2. CASE kind = "ERRORCHECK"
  BY <1>2 DEF RelockByOwner
<1>3. CASE kind = "NORMAL"
  BY <1>3, PanicShapes DEF RelockByOwner, panic
<1> QED
  BY <1>1, <1>2, <1>3 DEF Kinds

(* Every step keeps every variable in its range. *)
LEMMA TypeStep == IndInv /\ [Next]_vars => TypeOK'
<1> SUFFICES ASSUME IndInv, [Next]_vars PROVE TypeOK'
  OBVIOUS
<1>0. TypeOK /\ OwnerInv
  BY DEF IndInv
<1> USE <1>0 DEF TypeOK, Labels, Codes, Return, panic
<1>1. ASSUME NEW t \in Threads, manual_lock(t) PROVE TypeOK'
  BY <1>1, WordShapes DEF manual_lock
<1>2. ASSUME NEW t \in Threads, try_manual_lock(t) PROVE TypeOK'
  BY <1>2, WordShapes, RelockType DEF try_manual_lock
<1>3. ASSUME NEW t \in Threads, manual_unlock(t) PROVE TypeOK'
  BY <1>3, PanicShapes DEF manual_unlock, UnlockByOther
<1>4. ASSUME NEW t \in Threads, manual_lock_acquire(t) PROVE TypeOK'
  BY <1>4, WordShapes DEF manual_lock_acquire
<1>5. ASSUME NEW t \in Threads, manual_lock_acquired(t) PROVE TypeOK'
  BY SMTT(30), <1>5 DEF manual_lock_acquired
<1>6. ASSUME NEW t \in Threads, manual_lock_owner(t) PROVE TypeOK'
  BY <1>6, RelockType DEF manual_lock_owner
<1>7. ASSUME NEW t \in Threads, manual_lock_set_flag(t) PROVE TypeOK'
  BY SMTT(30), <1>7, WordShapes DEF manual_lock_set_flag
<1>8. ASSUME NEW t \in Threads, manual_lock_wait(t) PROVE TypeOK'
  BY <1>8 DEF manual_lock_wait, sys_futex_wait
<1>9. ASSUME NEW t \in Threads, manual_unlock_dec(t) PROVE TypeOK'
  BY SMTT(30), <1>9 DEF manual_unlock_dec, OwnerInv
<1>10. ASSUME NEW t \in Threads, manual_unlock_exchange(t) PROVE TypeOK'
  BY <1>10, WordShapes DEF manual_unlock_exchange
<1>11. ASSUME NEW t \in Threads, manual_unlock_wake(t) PROVE TypeOK'
  BY <1>11 DEF manual_unlock_wake, sys_futex_wake_all
<1>12. ASSUME NEW t \in Threads, manual_lock_eintr(t) PROVE TypeOK'
  BY <1>12 DEF manual_lock_eintr
<1>13. ASSUME UNCHANGED vars PROVE TypeOK'
  BY <1>13 DEF vars
<1> QED
  BY <1>1, <1>2, <1>3, <1>4, <1>5, <1>6, <1>7, <1>8, <1>9, <1>10, <1>11,
     <1>12, <1>13 DEF Next, Call, Continue, Aborted

(* A thread that finds its own id, in the word or in `expected', does hold *)
(* the mutex, and whatever the kind of the mutex prescribes keeps IndInv.  *)
LEMMA RelockInv ==
  ASSUME IndInv, Running, NEW t \in Threads, RelockByOwner(t),
         state.owner = t, pc[t] \in {"idle", "lock_check"}
  PROVE  /\ OwnerInv' /\ WordInv' /\ NoLostWakeup'
         /\ PanicOnlyOnMisuse' /\ HonestCodes'
<1> USE DEF IndInv, TypeOK, Return
<1>1. CASE kind = "RECURSIVE"
  <2> USE <1>1 DEF RelockByOwner
  <2>1. OwnerInv' /\ WordInv'
    BY SMTT(30), ThreadsAssumption DEF OwnerInv, WordInv
  <2>2. NoLostWakeup'
    BY DEF NoLostWakeup
  <2>3. PanicOnlyOnMisuse'
    BY PanicFields DEF PanicOnlyOnMisuse, Running
  <2>4. HonestCodes'
    BY DEF HonestCodes
  <2> QED
    BY <2>1, <2>2, <2>3, <2>4
<1>2. CASE kind = "ERRORCHECK"
  <2> USE <1>2 DEF RelockByOwner
  <2>1. OwnerInv' /\ WordInv'
    BY SMTT(30), ThreadsAssumption DEF OwnerInv, WordInv
  <2>2. NoLostWakeup'
    BY DEF NoLostWakeup
  <2>3. PanicOnlyOnMisuse'
    BY DEF PanicOnlyOnMisuse
  <2>4. HonestCodes'
    BY SMTT(30) DEF HonestCodes, OwnerInv
  <2> QED
    BY <2>1, <2>2, <2>3, <2>4
<1>3. CASE kind = "NORMAL"
  <2>1. /\ panicked' = PanicOf(t, "relock")
        /\ UNCHANGED <<state, recursion, kind, pc, expected, ret, held>>
    BY <1>3 DEF RelockByOwner, panic
  <2>2. OwnerInv' /\ WordInv' /\ NoLostWakeup' /\ HonestCodes'
    BY <2>1 DEF OwnerInv, WordInv, NoLostWakeup, HonestCodes
  <2>3. PanicOnlyOnMisuse'
    <3>1. held[t] > 0
      BY SMTT(30) DEF OwnerInv
    <3> QED
      BY <1>3, <2>1, <3>1, PanicFields DEF PanicOnlyOnMisuse
  <2> QED
    BY <2>2, <2>3
<1> QED
  BY <1>1, <1>2, <1>3 DEF Kinds

(* A thread whose id is not in the word holds nothing, and is told so. *)
LEMMA UnlockByOtherInv ==
  ASSUME IndInv, Running, NEW t \in Threads, UnlockByOther(t),
         state.owner # t, pc[t] = "idle"
  PROVE  /\ OwnerInv' /\ WordInv' /\ NoLostWakeup'
         /\ PanicOnlyOnMisuse' /\ HonestCodes'
<1> USE DEF IndInv, TypeOK
<1>1. CASE kind = "NORMAL"
  <2>1. /\ panicked' = PanicOf(t, "not owner")
        /\ UNCHANGED <<state, recursion, kind, pc, expected, ret, held>>
    BY <1>1 DEF UnlockByOther, panic
  <2>2. OwnerInv' /\ WordInv' /\ NoLostWakeup' /\ HonestCodes'
    BY <2>1 DEF OwnerInv, WordInv, NoLostWakeup, HonestCodes
  <2>3. PanicOnlyOnMisuse'
    BY <1>1, <2>1, PanicFields DEF PanicOnlyOnMisuse, OwnerInv
  <2> QED
    BY <2>2, <2>3
<1>2. CASE kind # "NORMAL"
  <2>1. /\ pc' = [pc EXCEPT ![t] = "idle"]
        /\ ret' = [ret EXCEPT ![t] = "EPERM"]
        /\ UNCHANGED <<state, recursion, kind, expected, held, panicked>>
    BY <1>2 DEF UnlockByOther, Return
  <2>2. OwnerInv' /\ WordInv'
    BY <2>1 DEF OwnerInv, WordInv
  <2>3. NoLostWakeup' /\ PanicOnlyOnMisuse'
    BY <2>1 DEF NoLostWakeup, PanicOnlyOnMisuse
  <2>4. HonestCodes'
    BY <2>1 DEF HonestCodes, OwnerInv
  <2> QED
    BY <2>2, <2>3, <2>4
<1> QED
  BY <1>1, <1>2

(* Only the owner touches `recursion' or removes itself from the word. *)
LEMMA OwnerStep == IndInv /\ [Next]_vars => OwnerInv'
<1> SUFFICES ASSUME IndInv, [Next]_vars PROVE OwnerInv'
  OBVIOUS
<1>0. TypeOK /\ OwnerInv /\ WordInv
  BY DEF IndInv
<1> USE <1>0, ThreadsAssumption, WordFields DEF TypeOK, Return, panic, OwnerInv, WordInv
<1>1. ASSUME NEW t \in Threads, Running, manual_lock(t)
      PROVE  OwnerInv'
  BY SMTT(30), <1>1 DEF manual_lock
<1>2. ASSUME NEW t \in Threads, Running, try_manual_lock(t)
      PROVE  OwnerInv'
  <2>1. CASE state.owner = t
    BY <1>2, <2>1, RelockInv DEF try_manual_lock
  <2>2. CASE state.owner # t
    BY SMTT(30), <1>2, <2>2 DEF try_manual_lock
  <2> QED
    BY <2>1, <2>2
<1>3. ASSUME NEW t \in Threads, Running, manual_unlock(t)
      PROVE  OwnerInv'
  <2>1. CASE state.owner = t
    BY SMTT(30), <1>3, <2>1 DEF manual_unlock
  <2>2. CASE state.owner # t
    BY <1>3, <2>2, UnlockByOtherInv DEF manual_unlock
  <2> QED
    BY <2>1, <2>2
<1>4. ASSUME NEW t \in Threads, Running, manual_lock_acquire(t)
      PROVE  OwnerInv'
  BY SMTT(30), <1>4 DEF manual_lock_acquire
<1>5. ASSUME NEW t \in Threads, Running, manual_lock_acquired(t)
      PROVE  OwnerInv'
  BY SMTT(30), <1>5 DEF manual_lock_acquired
<1>6. ASSUME NEW t \in Threads, Running, manual_lock_owner(t)
      PROVE  OwnerInv'
  BY <1>6, RelockInv DEF manual_lock_owner
<1>7. ASSUME NEW t \in Threads, Running, manual_lock_set_flag(t)
      PROVE  OwnerInv'
  BY SMTT(30), <1>7 DEF manual_lock_set_flag
<1>8. ASSUME NEW t \in Threads, Running, manual_lock_wait(t)
      PROVE  OwnerInv'
  BY SMTT(30), <1>8 DEF manual_lock_wait, sys_futex_wait
<1>9. ASSUME NEW t \in Threads, Running, manual_unlock_dec(t)
      PROVE  OwnerInv'
  BY SMTT(30), <1>9 DEF manual_unlock_dec
<1>10. ASSUME NEW t \in Threads, Running, manual_unlock_exchange(t)
      PROVE  OwnerInv'
  BY SMTT(30), <1>10 DEF manual_unlock_exchange
<1>11. ASSUME NEW t \in Threads, Running, manual_unlock_wake(t)
      PROVE  OwnerInv'
  BY SMTT(30), <1>11 DEF manual_unlock_wake, sys_futex_wake_all
<1>12. ASSUME NEW t \in Threads, Running, manual_lock_eintr(t)
      PROVE  OwnerInv'
  BY SMTT(30), <1>12 DEF manual_lock_eintr
<1>13. ASSUME UNCHANGED vars PROVE OwnerInv'
  BY <1>13 DEF vars
<1> QED
  BY <1>1, <1>2, <1>3, <1>4, <1>5, <1>6, <1>7, <1>8, <1>9, <1>10, <1>11,
     <1>12, <1>13 DEF Next, Call, Continue, Aborted

(* A stale `expected' that names its own thread is never out of date. *)
LEMMA WordStep == IndInv /\ [Next]_vars => WordInv'
<1> SUFFICES ASSUME IndInv, [Next]_vars PROVE WordInv'
  OBVIOUS
<1>0. TypeOK /\ OwnerInv /\ WordInv
  BY DEF IndInv
<1> USE <1>0, ThreadsAssumption, WordFields DEF TypeOK, Return, panic, OwnerInv, WordInv
<1>1. ASSUME NEW t \in Threads, Running, manual_lock(t)
      PROVE  WordInv'
  BY SMTT(30), <1>1 DEF manual_lock
<1>2. ASSUME NEW t \in Threads, Running, try_manual_lock(t)
      PROVE  WordInv'
  <2>1. CASE state.owner = t
    BY <1>2, <2>1, RelockInv DEF try_manual_lock
  <2>2. CASE state.owner # t
    BY SMTT(30), <1>2, <2>2 DEF try_manual_lock
  <2> QED
    BY <2>1, <2>2
<1>3. ASSUME NEW t \in Threads, Running, manual_unlock(t)
      PROVE  WordInv'
  <2>1. CASE state.owner = t
    BY SMTT(30), <1>3, <2>1 DEF manual_unlock
  <2>2. CASE state.owner # t
    BY <1>3, <2>2, UnlockByOtherInv DEF manual_unlock
  <2> QED
    BY <2>1, <2>2
<1>4. ASSUME NEW t \in Threads, Running, manual_lock_acquire(t)
      PROVE  WordInv'
  BY SMTT(30), <1>4 DEF manual_lock_acquire
<1>5. ASSUME NEW t \in Threads, Running, manual_lock_acquired(t)
      PROVE  WordInv'
  BY SMTT(30), <1>5 DEF manual_lock_acquired
<1>6. ASSUME NEW t \in Threads, Running, manual_lock_owner(t)
      PROVE  WordInv'
  BY <1>6, RelockInv DEF manual_lock_owner
<1>7. ASSUME NEW t \in Threads, Running, manual_lock_set_flag(t)
      PROVE  WordInv'
  BY SMTT(30), <1>7 DEF manual_lock_set_flag
<1>8. ASSUME NEW t \in Threads, Running, manual_lock_wait(t)
      PROVE  WordInv'
  BY SMTT(30), <1>8 DEF manual_lock_wait, sys_futex_wait
<1>9. ASSUME NEW t \in Threads, Running, manual_unlock_dec(t)
      PROVE  WordInv'
  BY SMTT(30), <1>9 DEF manual_unlock_dec
<1>10. ASSUME NEW t \in Threads, Running, manual_unlock_exchange(t)
      PROVE  WordInv'
  BY SMTT(30), <1>10 DEF manual_unlock_exchange
<1>11. ASSUME NEW t \in Threads, Running, manual_unlock_wake(t)
      PROVE  WordInv'
  BY SMTT(30), <1>11 DEF manual_unlock_wake, sys_futex_wake_all
<1>12. ASSUME NEW t \in Threads, Running, manual_lock_eintr(t)
      PROVE  WordInv'
  BY SMTT(30), <1>12 DEF manual_lock_eintr
<1>13. ASSUME UNCHANGED vars PROVE WordInv'
  BY <1>13 DEF vars
<1> QED
  BY <1>1, <1>2, <1>3, <1>4, <1>5, <1>6, <1>7, <1>8, <1>9, <1>10, <1>11,
     <1>12, <1>13 DEF Next, Call, Continue, Aborted

(* A sleeper keeps its flag, or its waker. *)
LEMMA WakeStep == IndInv /\ [Next]_vars => NoLostWakeup'
<1> SUFFICES ASSUME IndInv, [Next]_vars PROVE NoLostWakeup'
  OBVIOUS
<1>0. TypeOK /\ OwnerInv /\ WordInv /\ NoLostWakeup
  BY DEF IndInv
<1> USE <1>0, ThreadsAssumption, WordFields DEF TypeOK, Return, panic, NoLostWakeup
<1>1. ASSUME NEW t \in Threads, Running, manual_lock(t)
      PROVE  NoLostWakeup'
  BY SMTT(30), <1>1 DEF manual_lock
<1>2. ASSUME NEW t \in Threads, Running, try_manual_lock(t)
      PROVE  NoLostWakeup'
  <2>1. CASE state.owner = t
    BY <1>2, <2>1, RelockInv DEF try_manual_lock
  <2>2. CASE state.owner # t
    BY SMTT(30), <1>2, <2>2 DEF try_manual_lock
  <2> QED
    BY <2>1, <2>2
<1>3. ASSUME NEW t \in Threads, Running, manual_unlock(t)
      PROVE  NoLostWakeup'
  <2>1. CASE state.owner = t
    BY SMTT(30), <1>3, <2>1 DEF manual_unlock
  <2>2. CASE state.owner # t
    BY <1>3, <2>2, UnlockByOtherInv DEF manual_unlock
  <2> QED
    BY <2>1, <2>2
<1>4. ASSUME NEW t \in Threads, Running, manual_lock_acquire(t)
      PROVE  NoLostWakeup'
  BY SMTT(30), <1>4 DEF manual_lock_acquire
<1>5. ASSUME NEW t \in Threads, Running, manual_lock_acquired(t)
      PROVE  NoLostWakeup'
  BY SMTT(30), <1>5 DEF manual_lock_acquired
<1>6. ASSUME NEW t \in Threads, Running, manual_lock_owner(t)
      PROVE  NoLostWakeup'
  BY <1>6, RelockInv DEF manual_lock_owner, WordInv
<1>7. ASSUME NEW t \in Threads, Running, manual_lock_set_flag(t)
      PROVE  NoLostWakeup'
  BY SMTT(30), <1>7 DEF manual_lock_set_flag
<1>8. ASSUME NEW t \in Threads, Running, manual_lock_wait(t)
      PROVE  NoLostWakeup'
  BY SMTT(30), <1>8 DEF manual_lock_wait, sys_futex_wait
<1>9. ASSUME NEW t \in Threads, Running, manual_unlock_dec(t)
      PROVE  NoLostWakeup'
  BY SMTT(30), <1>9 DEF manual_unlock_dec
<1>10. ASSUME NEW t \in Threads, Running, manual_unlock_exchange(t)
      PROVE  NoLostWakeup'
  BY SMTT(30), <1>10 DEF manual_unlock_exchange
<1>11. ASSUME NEW t \in Threads, Running, manual_unlock_wake(t)
      PROVE  NoLostWakeup'
  BY SMTT(30), <1>11 DEF manual_unlock_wake, sys_futex_wake_all
<1>12. ASSUME NEW t \in Threads, Running, manual_lock_eintr(t)
      PROVE  NoLostWakeup'
  BY SMTT(30), <1>12 DEF manual_lock_eintr
<1>13. ASSUME UNCHANGED vars PROVE NoLostWakeup'
  BY <1>13 DEF vars
<1> QED
  BY <1>1, <1>2, <1>3, <1>4, <1>5, <1>6, <1>7, <1>8, <1>9, <1>10, <1>11,
     <1>12, <1>13 DEF Next, Call, Continue, Aborted

(* A panic is raised for the reason it gives. *)
LEMMA PanicStep == IndInv /\ [Next]_vars => PanicOnlyOnMisuse'
<1> SUFFICES ASSUME IndInv, [Next]_vars PROVE PanicOnlyOnMisuse'
  OBVIOUS
<1>0. TypeOK /\ OwnerInv /\ WordInv /\ PanicOnlyOnMisuse
  BY DEF IndInv
<1> USE <1>0, WordFields, PanicFields DEF TypeOK, Return, panic, OwnerInv, WordInv, PanicOnlyOnMisuse, Running
<1>1. ASSUME NEW t \in Threads, Running, manual_lock(t)
      PROVE  PanicOnlyOnMisuse'
  BY <1>1 DEF manual_lock
<1>2. ASSUME NEW t \in Threads, Running, try_manual_lock(t)
      PROVE  PanicOnlyOnMisuse'
  <2>1. CASE state.owner = t
    BY <1>2, <2>1, RelockInv DEF try_manual_lock
  <2>2. CASE state.owner # t
    BY <1>2, <2>2 DEF try_manual_lock
  <2> QED
    BY <2>1, <2>2
<1>3. ASSUME NEW t \in Threads, Running, manual_unlock(t)
      PROVE  PanicOnlyOnMisuse'
  <2>1. CASE state.owner = t
    BY <1>3, <2>1 DEF manual_unlock
  <2>2. CASE state.owner # t
    BY <1>3, <2>2, UnlockByOtherInv DEF manual_unlock
  <2> QED
    BY <2>1, <2>2
<1>4. ASSUME NEW t \in Threads, Running, manual_lock_acquire(t)
      PROVE  PanicOnlyOnMisuse'
  BY <1>4 DEF manual_lock_acquire
<1>5. ASSUME NEW t \in Threads, Running, manual_lock_acquired(t)
      PROVE  PanicOnlyOnMisuse'
  BY <1>5 DEF manual_lock_acquired
<1>6. ASSUME NEW t \in Threads, Running, manual_lock_owner(t)
      PROVE  PanicOnlyOnMisuse'
  BY <1>6, RelockInv DEF manual_lock_owner
<1>7. ASSUME NEW t \in Threads, Running, manual_lock_set_flag(t)
      PROVE  PanicOnlyOnMisuse'
  BY <1>7 DEF manual_lock_set_flag
<1>8. ASSUME NEW t \in Threads, Running, manual_lock_wait(t)
      PROVE  PanicOnlyOnMisuse'
  BY <1>8 DEF manual_lock_wait, sys_futex_wait
<1>9. ASSUME NEW t \in Threads, Running, manual_unlock_dec(t)
      PROVE  PanicOnlyOnMisuse'
  BY <1>9 DEF manual_unlock_dec
<1>10. ASSUME NEW t \in Threads, Running, manual_unlock_exchange(t)
      PROVE  PanicOnlyOnMisuse'
  BY <1>10 DEF manual_unlock_exchange
<1>11. ASSUME NEW t \in Threads, Running, manual_unlock_wake(t)
      PROVE  PanicOnlyOnMisuse'
  BY <1>11 DEF manual_unlock_wake, sys_futex_wake_all
<1>12. ASSUME NEW t \in Threads, Running, manual_lock_eintr(t)
      PROVE  PanicOnlyOnMisuse'
  BY <1>12 DEF manual_lock_eintr
<1>13. ASSUME UNCHANGED vars PROVE PanicOnlyOnMisuse'
  BY <1>13 DEF vars
<1> QED
  BY <1>1, <1>2, <1>3, <1>4, <1>5, <1>6, <1>7, <1>8, <1>9, <1>10, <1>11,
     <1>12, <1>13 DEF Next, Call, Continue, Aborted

(* A code stays true until the thread's next call. *)
LEMMA CodeStep == IndInv /\ [Next]_vars => HonestCodes'
<1> SUFFICES ASSUME IndInv, [Next]_vars PROVE HonestCodes'
  OBVIOUS
<1>0. TypeOK /\ OwnerInv /\ WordInv /\ HonestCodes
  BY DEF IndInv
<1> USE <1>0, ThreadsAssumption, WordFields DEF TypeOK, Return, panic, OwnerInv, WordInv, HonestCodes
<1>1. ASSUME NEW t \in Threads, Running, manual_lock(t)
      PROVE  HonestCodes'
  BY SMTT(30), <1>1 DEF manual_lock
<1>2. ASSUME NEW t \in Threads, Running, try_manual_lock(t)
      PROVE  HonestCodes'
  <2>1. CASE state.owner = t
    BY <1>2, <2>1, RelockInv DEF try_manual_lock
  <2>2. CASE state.owner # t
    BY SMTT(30), <1>2, <2>2 DEF try_manual_lock
  <2> QED
    BY <2>1, <2>2
<1>3. ASSUME NEW t \in Threads, Running, manual_unlock(t)
      PROVE  HonestCodes'
  <2>1. CASE state.owner = t
    BY SMTT(30), <1>3, <2>1 DEF manual_unlock
  <2>2. CASE state.owner # t
    BY <1>3, <2>2, UnlockByOtherInv DEF manual_unlock
  <2> QED
    BY <2>1, <2>2
<1>4. ASSUME NEW t \in Threads, Running, manual_lock_acquire(t)
      PROVE  HonestCodes'
  BY SMTT(30), <1>4 DEF manual_lock_acquire
<1>5. ASSUME NEW t \in Threads, Running, manual_lock_acquired(t)
      PROVE  HonestCodes'
  BY SMTT(30), <1>5 DEF manual_lock_acquired
<1>6. ASSUME NEW t \in Threads, Running, manual_lock_owner(t)
      PROVE  HonestCodes'
  BY <1>6, RelockInv DEF manual_lock_owner
<1>7. ASSUME NEW t \in Threads, Running, manual_lock_set_flag(t)
      PROVE  HonestCodes'
  BY SMTT(30), <1>7 DEF manual_lock_set_flag
<1>8. ASSUME NEW t \in Threads, Running, manual_lock_wait(t)
      PROVE  HonestCodes'
  BY SMTT(30), <1>8 DEF manual_lock_wait, sys_futex_wait
<1>9. ASSUME NEW t \in Threads, Running, manual_unlock_dec(t)
      PROVE  HonestCodes'
  BY SMTT(30), <1>9 DEF manual_unlock_dec
<1>10. ASSUME NEW t \in Threads, Running, manual_unlock_exchange(t)
      PROVE  HonestCodes'
  BY SMTT(30), <1>10 DEF manual_unlock_exchange
<1>11. ASSUME NEW t \in Threads, Running, manual_unlock_wake(t)
      PROVE  HonestCodes'
  BY SMTT(30), <1>11 DEF manual_unlock_wake, sys_futex_wake_all
<1>12. ASSUME NEW t \in Threads, Running, manual_lock_eintr(t)
      PROVE  HonestCodes'
  BY SMTT(30), <1>12 DEF manual_lock_eintr
<1>13. ASSUME UNCHANGED vars PROVE HonestCodes'
  BY <1>13 DEF vars
<1> QED
  BY <1>1, <1>2, <1>3, <1>4, <1>5, <1>6, <1>7, <1>8, <1>9, <1>10, <1>11,
     <1>12, <1>13 DEF Next, Call, Continue, Aborted

-----------------------------------------------------------------------------

LEMMA Inductive == Spec => []IndInv
<1>1. IndInv /\ [Next]_vars => IndInv'
  BY TypeStep, OwnerStep, WordStep, WakeStep, PanicStep, CodeStep DEF IndInv
<1> QED
  BY InitIndInv, <1>1, PTL DEF Spec

(* Every variable of the mutex keeps to its range, and manual_unlock never *)
(* takes `recursion' below zero.                                           *)
THEOREM TypeCorrect == Spec => []TypeOK
<1>1. IndInv => TypeOK
  BY DEF IndInv
<1> QED
  BY Inductive, <1>1, PTL

(* Any number of threads that lock, try to lock and unlock in any order,   *)
(* correctly or not, are never told twice at once that they hold it.       *)
THEOREM Exclusion == Spec => []MutualExclusion
<1>1. IndInv => MutualExclusion
  BY SMTT(30) DEF IndInv, OwnerInv, TypeOK, MutualExclusion
<1> QED
  BY Inductive, <1>1, PTL

(* The assertion of manual_unlock holds, and the depth it decrements is    *)
(* that of the thread that decrements it.                                  *)
THEOREM RecursionSafe == Spec => []RecursionIsOwners
<1>1. IndInv => RecursionIsOwners
  BY DEF IndInv, OwnerInv, TypeOK, RecursionIsOwners
<1> QED
  BY Inductive, <1>1, PTL

(* A sleeper of manual_lock always has a flag in the word or a waker.      *)
THEOREM WakeupSafe == Spec => []NoLostWakeup
<1>1. IndInv => NoLostWakeup
  BY DEF IndInv
<1> QED
  BY Inductive, <1>1, PTL

(* No interleaving makes a mutex operation abort a well-behaved client, or *)
(* return it a code that is not true of it.                                *)
THEOREM ErrorsHonest == Spec => [](PanicOnlyOnMisuse /\ HonestCodes)
<1>1. IndInv => PanicOnlyOnMisuse /\ HonestCodes
  BY DEF IndInv
<1> QED
  BY Inductive, <1>1, PTL

-----------------------------------------------------------------------------
(* The refinement *)

(* A step that leaves the word, the kind and the depth, and moves no       *)
(* thread into or out of the two labels where the depth is not yet (or no  *)
(* longer) in `recursion', is not seen by the abstract mutex.              *)
LEMMA Unseen ==
  ASSUME TypeOK, TypeOK', UNCHANGED <<state, kind, recursion>>,
         \A u \in Threads : pc'[u] \in {"acquired", "unlock_exchange"}
                              <=> pc[u] \in {"acquired", "unlock_exchange"}
  PROVE  UNCHANGED AM!vars
<1>1. state.owner \in Threads \cup {NoThread} /\ state'.owner = state.owner
  BY WordFields DEF TypeOK
<1>2. UNCHANGED Depth
  BY <1>1, ThreadsAssumption DEF Depth
<1> QED
  BY <1>1, <1>2 DEF AM!vars

(* A lock by the owner nests, is refused, or ends the process. *)
LEMMA RelockSimulates ==
  ASSUME IndInv, IndInv', NEW t \in Threads, RelockByOwner(t),
         state.owner = t, pc[t] \notin {"acquired", "unlock_exchange"}
  PROVE  [AM!Next]_AM!vars
<1>0. TypeOK /\ TypeOK'
  BY DEF IndInv
<1>1. CASE kind = "RECURSIVE"
  <2>1. /\ state' = state /\ kind' = kind /\ recursion' = recursion + 1
        /\ pc'[t] = "idle"
    BY <1>0, <1>1 DEF RelockByOwner, Return, TypeOK
  <2>2. Depth = recursion /\ Depth' = recursion + 1
    BY <2>1, ThreadsAssumption DEF Depth
  <2>3. AM!Nest(t)
    BY <1>1, <2>1, <2>2 DEF AM!Nest
  <2> QED
    BY <2>3 DEF AM!Next
<1>2. CASE kind = "ERRORCHECK"
  <2>1. UNCHANGED <<state, kind, recursion>>
    BY <1>2 DEF RelockByOwner
  <2>2. \A u \in Threads : pc'[u] = IF u = t THEN "idle" ELSE pc[u]
    BY <1>0, <1>2 DEF RelockByOwner, Return, TypeOK
  <2> QED
    BY <1>0, <2>1, <2>2, Unseen
<1>3. CASE kind = "NORMAL"
  BY <1>0, <1>3, Unseen DEF RelockByOwner, panic
<1> QED
  BY <1>0, <1>1, <1>2, <1>3 DEF TypeOK, Kinds

(* A thread that finds the word free becomes the holder. *)
LEMMA AcquireSimulates ==
  ASSUME TypeOK, NEW t \in Threads, state = Unlocked, state' = OwnedBy(t),
         pc' = [pc EXCEPT ![t] = "acquired"], kind' = kind
  PROVE  AM!Acquire(t)
<1>1. state.owner = NoThread /\ state'.owner = t
  BY WordFields
<1>2. Depth = 0 /\ Depth' = 1
  BY <1>1, ThreadsAssumption DEF Depth, TypeOK
<1> QED
  BY <1>1, <1>2 DEF AM!Acquire

(* Every step of the futex mutex is a step of the abstract one, or none. *)
LEMMA StepSimulates == IndInv /\ IndInv' /\ [Next]_vars => [AM!Next]_AM!vars
<1> SUFFICES ASSUME IndInv, IndInv', [Next]_vars PROVE [AM!Next]_AM!vars
  OBVIOUS
<1>0. TypeOK /\ TypeOK' /\ OwnerInv /\ OwnerInv' /\ WordInv
  BY DEF IndInv
<1>1. ASSUME NEW t \in Threads, manual_lock(t) PROVE [AM!Next]_AM!vars
  BY <1>0, <1>1, Unseen DEF manual_lock, TypeOK
<1>2. ASSUME NEW t \in Threads, manual_lock_acquire(t) PROVE [AM!Next]_AM!vars
  <2>1. CASE state = Unlocked
    BY <1>0, <1>2, <2>1, AcquireSimulates DEF manual_lock_acquire, AM!Next
  <2>2. CASE state # Unlocked
    BY <1>0, <1>2, <2>2, Unseen DEF manual_lock_acquire, TypeOK
  <2> QED
    BY <2>1, <2>2
<1>3. ASSUME NEW t \in Threads, manual_lock_acquired(t) PROVE [AM!Next]_AM!vars
  <2>1. state.owner = t /\ state' = state /\ kind' = kind
    BY <1>0, <1>3 DEF manual_lock_acquired, OwnerInv
  <2>2. pc[t] = "acquired" /\ pc'[t] = "idle" /\ recursion' = 1
    BY <1>0, <1>3 DEF manual_lock_acquired, Return, TypeOK
  <2> QED
    BY <2>1, <2>2, ThreadsAssumption DEF Depth, AM!vars
<1>4. ASSUME NEW t \in Threads, manual_lock_owner(t) PROVE [AM!Next]_AM!vars
  BY <1>0, <1>4, RelockSimulates DEF manual_lock_owner, WordInv
<1>5. ASSUME NEW t \in Threads, manual_lock_set_flag(t) PROVE [AM!Next]_AM!vars
  <2>1. CASE state = expected[t]
    <3>1. state' = Flagged(state) /\ UNCHANGED <<pc, kind, recursion>>
      BY <1>5, <2>1 DEF manual_lock_set_flag
    <3>2. state'.owner = state.owner
      BY <1>0, <3>1, WordFields DEF TypeOK
    <3> QED
      BY <3>1, <3>2 DEF Depth, AM!vars
  <2>2. CASE state # expected[t]
    BY <1>0, <1>5, <2>2, Unseen DEF manual_lock_set_flag, TypeOK
  <2> QED
    BY <2>1, <2>2
<1>6. ASSUME NEW t \in Threads, manual_lock_wait(t) PROVE [AM!Next]_AM!vars
  BY <1>0, <1>6, Unseen DEF manual_lock_wait, sys_futex_wait, TypeOK
<1>7. ASSUME NEW t \in Threads, try_manual_lock(t) PROVE [AM!Next]_AM!vars
  <2>1. CASE state = Unlocked /\ state' = OwnedBy(t)
    BY <1>0, <1>7, <2>1, AcquireSimulates, WordFields, ThreadsAssumption
       DEF try_manual_lock, RelockByOwner, AM!Next
  <2>2. CASE state.owner = t /\ RelockByOwner(t)
    BY <1>0, <1>7, <2>2, RelockSimulates DEF try_manual_lock
  <2>3. CASE state # Unlocked /\ state.owner # t
    BY <1>0, <1>7, <2>3, Unseen DEF try_manual_lock, Return, TypeOK
  <2> QED
    BY <1>7, <2>1, <2>2, <2>3 DEF try_manual_lock
<1>8. ASSUME NEW t \in Threads, manual_unlock(t) PROVE [AM!Next]_AM!vars
  BY <1>0, <1>8, Unseen DEF manual_unlock, UnlockByOther, panic, Return, TypeOK
<1>9. ASSUME NEW t \in Threads, manual_unlock_dec(t) PROVE [AM!Next]_AM!vars
  <2>1. /\ pc[t] = "unlock_dec" /\ state.owner = t /\ recursion >= 1
        /\ state' = state /\ kind' = kind /\ recursion' = recursion - 1
    BY <1>0, <1>9 DEF manual_unlock_dec, OwnerInv
  <2>2. Depth = recursion
    BY <2>1, ThreadsAssumption DEF Depth
  <2>3. CASE recursion' > 0
    <3>1. pc'[t] = "idle"
      BY <1>0, <1>9, <2>3 DEF manual_unlock_dec, Return, TypeOK
    <3>2. Depth' = recursion - 1
      BY <2>1, <3>1, ThreadsAssumption DEF Depth
    <3>3. AM!Unnest(t)
      BY SMTT(30), <1>0, <2>1, <2>2, <2>3, <3>2 DEF AM!Unnest, TypeOK
    <3> QED
      BY <3>3 DEF AM!Next
  <2>4. CASE ~(recursion' > 0)
    <3>1. pc'[t] = "unlock_exchange" /\ recursion = 1
      BY SMTT(30), <1>0, <1>9, <2>1, <2>4 DEF manual_unlock_dec, TypeOK
    <3>2. Depth' = 1
      BY <2>1, <3>1, ThreadsAssumption DEF Depth
    <3> QED
      BY <2>1, <2>2, <3>1, <3>2 DEF AM!vars
  <2> QED
    BY <2>3, <2>4
<1>10. ASSUME NEW t \in Threads, manual_unlock_exchange(t)
       PROVE  [AM!Next]_AM!vars
  <2>1. pc[t] = "unlock_exchange" /\ state.owner = t /\ kind' = kind
    BY <1>0, <1>10 DEF manual_unlock_exchange, OwnerInv
  <2>2. state'.owner = NoThread
    BY <1>10, WordFields DEF manual_unlock_exchange
  <2>3. Depth = 1 /\ Depth' = 0
    BY <2>1, <2>2, ThreadsAssumption DEF Depth
  <2> QED
    BY <2>1, <2>2, <2>3 DEF AM!Release, AM!Next
<1>11. ASSUME NEW t \in Threads, manual_unlock_wake(t) PROVE [AM!Next]_AM!vars
  BY <1>0, <1>11, Unseen DEF manual_unlock_wake, sys_futex_wake_all, TypeOK
<1>12. ASSUME NEW t \in Threads, manual_lock_eintr(t) PROVE [AM!Next]_AM!vars
  BY <1>0, <1>12, Unseen DEF manual_lock_eintr, TypeOK
<1>13. ASSUME UNCHANGED vars PROVE [AM!Next]_AM!vars
  BY <1>0, <1>13, Unseen DEF vars
<1> QED
  BY <1>1, <1>2, <1>3, <1>4, <1>5, <1>6, <1>7, <1>8, <1>9, <1>10, <1>11,
     <1>12, <1>13 DEF Next, Call, Continue, Aborted

(* The futex mutex is a mutex: for any number of threads, whoever looks at *)
(* the owner in the word and at the depth sees the abstract one, although  *)
(* waiters set the flag and the depth is stored after the swap.            *)
THEOREM Refinement == Spec => ImplementsAbstractMutex
<1>1. Init => AM!Init
  BY WordFields DEF Init, AM!Init, Depth
<1> QED
  BY Inductive, <1>1, StepSimulates, PTL DEF Spec, AM!Spec, ImplementsAbstractMutex

==============================================================================
