---------------------------- MODULE LoaderLocks -----------------------------
(***************************************************************************)
(* The spin locks of src/rtld: OBJECT_STORAGE->lock, the lock around the   *)
(* list of objects and the one around runtime_tls_map, in the order each   *)
(* entry point takes and releases them, with the calls back into the       *)
(* program that happen while some of them are held.  The locks are not     *)
(* recursive.                                                              *)
(***************************************************************************)
EXTENDS Naturals, Sequences

CONSTANTS LockThreads, NoHolder,
          MaxCalls  \* bound: calls of the loader within calls

ASSUME NoHolderAssumption == NoHolder \notin LockThreads

VARIABLES holder,   \* of each lock
          calls,    \* per thread, the entry points it is in and where
          lock_over \* whether exit was called: it is called once

lockVars == <<holder, calls, lock_over>>

Locks == {"storage", "objects", "tls"}

L(lock) == [do |-> "lock", lock |-> lock]
U(lock) == [do |-> "unlock", lock |-> lock]
Program == [do |-> "program", lock |-> "none"]

(* object_from_addr, init_tls and the like *)
Objects == <<L("objects"), U("objects")>>

(* Mutant: the list is locked before the storage. *)
OpenWrongOrder ==
  <<L("objects"), U("objects"),
    L("objects"), L("storage"), L("tls"), U("tls"), U("storage"),
    U("objects"), L("objects"), U("objects"),
    L("objects"), U("objects"), Program>>

(* __dlapi_open of an object that is not loaded, with one constructor:     *)
(* object_from_addr, the loading and then init_tls under the storage's     *)
(* lock, the constructor's object.                                         *)
OpenSteps ==
  <<L("objects"), U("objects"),
    L("storage"), L("objects"), L("tls"), U("tls"), U("objects"),
    L("objects"), U("objects"), U("storage"),
    L("objects"), U("objects"), Program>>

(* Each entry point of the loader.  `exit' is __dlapi_exit with one        *)
(* destructor, then __dlapi_destroy; `join' and `create' are what          *)
(* thread_join and thread_create ask of the loader.                        *)
Steps(op) ==
  CASE op = "open"    -> OpenSteps
    [] op = "sym"     -> Objects                             \* __dlapi_get_sym
    [] op = "next"    -> <<L("objects"), L("objects"), U("objects"), U("objects")>>
    [] op = "addr"    -> Objects             \* __dlapi_dladdr, _dl_find_object
    [] op = "iterate" -> <<L("objects"), Program, U("objects")>>
    [] op = "tls"     -> <<L("tls"), U("tls")>>       \* access_tls_for_object
    [] op = "create"  -> <<L("storage"), L("objects"), U("objects"), U("storage")>>
    [] op = "join"    -> <<L("storage"), U("storage")>>
    [] op = "exit"    -> <<L("storage"), Program, U("storage"), L("objects"), U("objects")>>

Ops == {"open", "sym", "next", "addr", "iterate", "tls", "create", "join", "exit"}

LockInit ==
  /\ holder = [l \in Locks |-> NoHolder]
  /\ calls = [t \in LockThreads |-> <<>>]
  /\ lock_over = FALSE

TopCall(t) == calls[t][Len(calls[t])]
Step(t) == Steps(TopCall(t).op)[TopCall(t).at]
Active(t) == calls[t] # <<>> /\ TopCall(t).at <= Len(Steps(TopCall(t).op))
Advanced(stack) == [stack EXCEPT ![Len(stack)].at = @ + 1]
OuterCalls(stack) == SubSeq(stack, 1, Len(stack) - 1)
LockAdvance(t) == calls' = [calls EXCEPT ![t] = Advanced(@)]

(* A call from the program, or the one call that a constructor, destructor *)
(* or callback makes.                                                      *)
lock_call(t, op) ==
  /\ op = "exit" => ~lock_over
  /\ lock_over' = (lock_over \/ op = "exit")
  /\ LET call == [op |-> op, at |-> 1]
     IN  \/ calls[t] = <<>> /\ calls' = [calls EXCEPT ![t] = <<call>>]
         \/ /\ Active(t) /\ Step(t).do = "program" /\ Len(calls[t]) < MaxCalls
            /\ calls' = [calls EXCEPT ![t] = Append(Advanced(@), call)]
  /\ UNCHANGED holder

lock_take(t) ==
  /\ Active(t) /\ Step(t).do = "lock" /\ holder[Step(t).lock] = NoHolder
  /\ holder' = [holder EXCEPT ![Step(t).lock] = t]
  /\ LockAdvance(t)
  /\ UNCHANGED lock_over

lock_release(t) ==
  /\ Active(t) /\ Step(t).do = "unlock"
  /\ holder' = [holder EXCEPT ![Step(t).lock] = NoHolder]
  /\ LockAdvance(t)
  /\ UNCHANGED lock_over

(* The constructor, destructor or callback returns. *)
lock_program(t) ==
  /\ Active(t) /\ Step(t).do = "program"
  /\ LockAdvance(t)
  /\ UNCHANGED <<holder, lock_over>>

lock_return(t) ==
  /\ calls[t] # <<>> /\ ~Active(t)
  /\ calls' = [calls EXCEPT ![t] = OuterCalls(@)]
  /\ UNCHANGED <<holder, lock_over>>

LockStep(t) == lock_take(t) \/ lock_release(t) \/ lock_program(t) \/ lock_return(t)

LockNext == \E t \in LockThreads :
              LockStep(t) \/ \E op \in Ops : lock_call(t, op)

LockSpec == LockInit /\ [][LockNext]_lockVars

(* A thread in a call gets to run.  Nothing is assumed about the order in  *)
(* which a lock that is free goes to the threads that spin for it.         *)
LockFairness == \A t \in LockThreads : WF_lockVars(LockStep(t))

-----------------------------------------------------------------------------

Waits(t) == Active(t) /\ Step(t).do = "lock" /\ holder[Step(t).lock] # NoHolder
WaitsFor(t) == holder[Step(t).lock]
Stuck(t) == Waits(t) /\ WaitsFor(t) = t
Inside(t, op) == \E k \in DOMAIN calls[t] : calls[t][k].op = op

(* A call of the loader from a callback of dl_iterate_phdr. *)
FromCallback(t) == Len(calls[t]) > 1 /\ Inside(t, "iterate")

(* Threads never wait for each other in a circle: among any threads there  *)
(* is one that waits for none of the others -- unless a callback of        *)
(* dl_iterate_phdr, which holds the list of objects, asks for the storage  *)
(* (by creating or joining a thread) that another thread holds while it    *)
(* asks for the list.                                                      *)
LocksOrdered ==
  (\A u \in LockThreads : ~FromCallback(u)) =>
    \A S \in (SUBSET LockThreads) \ {{}} :
      \E t \in S : Waits(t) => WaitsFor(t) \notin S \ {t}

(* A thread waits for a lock of its own in three places only: dlsym with   *)
(* RTLD_NEXT, a call that needs the list of objects from a callback of     *)
(* dl_iterate_phdr, and one that needs the storage -- opening an object,   *)
(* creating or joining a thread -- from a destructor during exit.          *)
SelfWaits ==
  \A t \in LockThreads :
    Stuck(t) => \/ TopCall(t).op = "next"
                \/ Inside(t, "iterate") /\ Step(t).lock = "objects"
                \/ /\ Inside(t, "exit") /\ Step(t).lock = "storage"
                   /\ TopCall(t).op \in {"open", "create", "join"}

(* Every call of the loader returns, unless a thread waits for itself or   *)
(* calls from a callback of dl_iterate_phdr, or another thread goes on     *)
(* making calls for ever, which may always find the lock free first.       *)
LoaderCallsReturn ==
  \A t \in LockThreads :
    \/ []<>(calls[t] = <<>> \/ \E u \in LockThreads : Stuck(u) \/ FromCallback(u))
    \/ []<><<\E u \in LockThreads \ {t} : calls[u] = <<>> /\ calls'[u] # <<>>>>_lockVars

(* The locks of the loader block nobody for ever, but for the thread that  *)
(* waits for itself in one of three places and a callback that asks for    *)
(* the storage.                                                            *)
LocksGiveWay == LocksOrdered /\ SelfWaits
=============================================================================
