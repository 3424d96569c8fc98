---------------------------- MODULE AbstractMutex ----------------------------
(***************************************************************************)
(* What a mutex of the library promises: it has at most one holder, the    *)
(* holder alone may nest (when the mutex is recursive) and give it up, and *)
(* it becomes free exactly when the holder gives up the outermost level.   *)
(* Module Mutex implements this specification; module Cond is composed     *)
(* with it.                                                                *)
(***************************************************************************)
EXTENDS Naturals

CONSTANTS Threads, NoThread

VARIABLES holder,     \* the thread that owns the mutex, or NoThread
          depth,      \* how many levels of it the holder owns
          recursive   \* whether the mutex may be nested

vars == <<holder, depth, recursive>>

Init ==
  /\ holder = NoThread
  /\ depth = 0
  /\ recursive \in BOOLEAN

Acquire(t) ==
  /\ holder = NoThread
  /\ holder' = t
  /\ depth' = 1
  /\ recursive' = recursive

Nest(t) ==
  /\ recursive
  /\ holder = t
  /\ depth' = depth + 1
  /\ UNCHANGED <<holder, recursive>>

Unnest(t) ==
  /\ holder = t
  /\ depth > 1
  /\ depth' = depth - 1
  /\ UNCHANGED <<holder, recursive>>

Release(t) ==
  /\ holder = t
  /\ depth = 1
  /\ holder' = NoThread
  /\ depth' = 0
  /\ recursive' = recursive

Next == \E t \in Threads : Acquire(t) \/ Nest(t) \/ Unnest(t) \/ Release(t)

Spec == Init /\ [][Next]_vars

=============================================================================
