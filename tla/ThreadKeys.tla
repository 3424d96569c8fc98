----------------------------- MODULE ThreadKeys -----------------------------
(***************************************************************************)
(* Thread-specific data of src/internal/thread.cpp: the process-wide table *)
(* KEYS, each thread's own slots, and the destructors that a thread runs   *)
(* when it exits.  A slot of KEYS is used again after thread_key_delete;   *)
(* its generation tells a thread that its slot holds a value of an earlier *)
(* key.  KEYS_MUTEX makes each look at KEYS one step (module Mutex); the   *)
(* destructor that a scan finds is called after the mutex is released.     *)
(***************************************************************************)
EXTENDS Integers, Functions

CONSTANTS Threads,
          KeysMax,      \* PTHREAD_KEYS_MAX, 1024 in the code
          Iterations,   \* PTHREAD_DESTRUCTOR_ITERATIONS, 4 in the code
          GenMod,       \* 2^32 in the code: `generation' is an int
          Destructors,  \* functions given to thread_key_create
          Values,       \* pointers given to thread_setspecific
          NULL,
          MaxCreates    \* bound: keys that are ever created

ASSUME KeysMaxAssumption == KeysMax \in Nat \ {0}
ASSUME IterationsAssumption == Iterations \in Nat \ {0}
ASSUME GenModAssumption == GenMod \in Nat \ {0}
ASSUME NullAssumption == NULL \notin Destructors \cup Values

VARIABLES
  KEYS,       \* per key: used, destructor, generation
  local,      \* per thread and key: value, generation (Tcb::keys)
  pc,         \* "running", "scan", "call", "in_destructor", "done"
  iterations, i, destructor,  \* the locals of thread_call_destructors
  panicked,
  creates,    \* history: times that each slot of KEYS was created
  last,       \* history: the value each thread has stored for each slot,
              \* for which creation of it, and that key's destructor
  refilled    \* history: a destructor of the last pass stored a value

vars == <<KEYS, local, pc, iterations, i, destructor, panicked, creates, last,
          refilled>>

-----------------------------------------------------------------------------

Keys == 0..(KeysMax - 1)

(* Keys that a client may pass; KeysMax is none. *)
KeyArgs == 0..KeysMax

(* No value stored. *)
Nothing == [value |-> NULL, creation |-> 0, destructor |-> NULL]

Init ==
  /\ KEYS = [k \in Keys |-> [used |-> FALSE, destructor |-> NULL,
                             generation |-> 0]]
  /\ local = [t \in Threads |-> [k \in Keys |-> [value |-> NULL,
                                                 generation |-> 0]]]
  /\ pc = [t \in Threads |-> "running"]
  /\ iterations = [t \in Threads |-> 0]
  /\ i = [t \in Threads |-> 0]
  /\ destructor = [t \in Threads |-> NULL]
  /\ panicked = FALSE
  /\ creates = [k \in Keys |-> 0]
  /\ last = [t \in Threads |-> [k \in Keys |-> Nothing]]
  /\ refilled = [t \in Threads |-> FALSE]

Goto(t, label) == pc' = [pc EXCEPT ![t] = label]

-----------------------------------------------------------------------------
(* The calls, from a thread's own code or from a destructor it runs. *)

InClientCode(t) == ~panicked /\ pc[t] \in {"running", "in_destructor"}

ValidKey(k) == k \in Keys /\ KEYS[k].used

FreeKeys == {k \in Keys : ~KEYS[k].used}

Created == FoldFunction(+, 0, creates)

(* Mutant: a new key keeps the generation of the one before. *)
CreateKeepsGeneration(t, d) ==
  /\ InClientCode(t)
  /\ Created < MaxCreates
  /\ \E k \in FreeKeys :
       /\ \A g \in FreeKeys : k <= g
       /\ KEYS' = [KEYS EXCEPT ![k].used = TRUE, ![k].destructor = d]
       /\ creates' = [creates EXCEPT ![k] = @ + 1]
  /\ UNCHANGED <<local, pc, iterations, i, destructor, panicked, last,
                 refilled>>

(* The first free slot; EAGAIN, and no change, when there is none. *)
thread_key_create(t, d) ==
  /\ InClientCode(t)
  /\ Created < MaxCreates
  /\ \E k \in FreeKeys :
       /\ \A g \in FreeKeys : k <= g
       /\ KEYS' = [KEYS EXCEPT ![k] =
                     [used |-> TRUE, destructor |-> d,
                      generation |-> (@.generation + 1) % GenMod]]
       /\ creates' = [creates EXCEPT ![k] = @ + 1]
  /\ UNCHANGED <<local, pc, iterations, i, destructor, panicked, last,
                 refilled>>

(* EINVAL, and no change, for a key that is not in use. *)
thread_key_delete(t, k) ==
  /\ InClientCode(t)
  /\ ValidKey(k)
  /\ KEYS' = [KEYS EXCEPT ![k].used = FALSE, ![k].destructor = NULL]
  /\ UNCHANGED <<local, pc, iterations, i, destructor, panicked, creates,
                 last, refilled>>

(* What a valid call of thread_getspecific returns. *)
GetValue(t, k) ==
  IF local[t][k].generation = KEYS[k].generation THEN local[t][k].value
                                                 ELSE NULL

(* Any other key makes the process panic. *)
thread_getspecific(t, k) ==
  /\ InClientCode(t)
  /\ IF ValidKey(k)
       THEN /\ local' = [local EXCEPT ![t][k] =
                           [value |-> GetValue(t, k),
                            generation |-> KEYS[k].generation]]
            /\ UNCHANGED panicked
       ELSE /\ panicked' = TRUE
            /\ UNCHANGED local
  /\ UNCHANGED <<KEYS, pc, iterations, i, destructor, creates, last, refilled>>

Remember(t, k, v) ==
  last' = [last EXCEPT ![t][k] =
             IF v = NULL THEN Nothing
             ELSE [value |-> v, creation |-> creates[k],
                   destructor |-> KEYS[k].destructor]]

LastPass(t) == pc[t] = "in_destructor" /\ iterations[t] = Iterations - 1

(* EINVAL, and no change, for any other key. *)
thread_setspecific(t, k, v) ==
  /\ InClientCode(t)
  /\ ValidKey(k)
  /\ local' = [local EXCEPT ![t][k] =
                 [value |-> v, generation |-> KEYS[k].generation]]
  /\ Remember(t, k, v)
  /\ refilled' = [refilled EXCEPT ![t] = @ \/ LastPass(t)]
  /\ UNCHANGED <<KEYS, pc, iterations, i, destructor, panicked, creates>>

-----------------------------------------------------------------------------
(* thread_call_destructors is entered, from hzlibc_thread_exit *)

thread_call_destructors(t) ==
  /\ ~panicked
  /\ pc[t] = "running"
  /\ Goto(t, "scan")
  /\ UNCHANGED <<KEYS, local, iterations, i, destructor, panicked, creates,
                 last, refilled>>

(* One slot under KEYS_MUTEX. *)
Pending(t, k) ==
  /\ KEYS[k].used
  /\ KEYS[k].generation = local[t][k].generation
  /\ local[t][k].value # NULL

scan(t) ==
  /\ ~panicked
  /\ pc[t] = "scan"
  /\ i[t] < KeysMax
  /\ IF Pending(t, i[t]) /\ KEYS[i[t]].destructor # NULL
       THEN /\ destructor' = [destructor EXCEPT ![t] = KEYS[i[t]].destructor]
            /\ Goto(t, "call")
            /\ UNCHANGED i
       ELSE /\ i' = [i EXCEPT ![t] = @ + 1]
            /\ UNCHANGED <<pc, destructor>>
  /\ UNCHANGED <<KEYS, local, iterations, panicked, creates, last, refilled>>

(* Mutant: one pass is made. *)
OnePass(t) ==
  /\ ~panicked
  /\ pc[t] = "scan"
  /\ i[t] = KeysMax
  /\ Goto(t, "done")
  /\ UNCHANGED <<KEYS, local, iterations, i, destructor, panicked, creates,
                 last, refilled>>

(* Mutant: the passes are not counted. *)
PassUncounted(t) ==
  /\ ~panicked
  /\ pc[t] = "scan"
  /\ i[t] = KeysMax
  /\ i' = [i EXCEPT ![t] = 0]
  /\ IF iterations[t] + 1 < Iterations THEN UNCHANGED pc ELSE Goto(t, "done")
  /\ UNCHANGED <<KEYS, local, iterations, destructor, panicked, creates, last, refilled>>

next_pass(t) ==
  /\ ~panicked
  /\ pc[t] = "scan"
  /\ i[t] = KeysMax
  /\ i' = [i EXCEPT ![t] = 0]
  /\ IF iterations[t] + 1 < Iterations
       THEN /\ iterations' = [iterations EXCEPT ![t] = @ + 1]
            /\ UNCHANGED pc
       ELSE /\ Goto(t, "done")
            /\ UNCHANGED iterations
  /\ UNCHANGED <<KEYS, local, destructor, panicked, creates, last, refilled>>

(* Mutant: the destructor is looked up again at the call. *)
CallLooksAgain(t) ==
  /\ ~panicked
  /\ pc[t] = "call"
  /\ destructor' = [destructor EXCEPT ![t] = KEYS[i[t]].destructor]
  /\ local' = [local EXCEPT ![t][i[t]].value = NULL]
  /\ Goto(t, "in_destructor")
  /\ UNCHANGED <<KEYS, iterations, i, panicked, creates, last, refilled>>

(* The slot is cleared and the destructor called, with no mutex held. *)
call(t) ==
  /\ ~panicked
  /\ pc[t] = "call"
  /\ local' = [local EXCEPT ![t][i[t]].value = NULL]
  /\ last' = [last EXCEPT ![t][i[t]] = Nothing]
  /\ Goto(t, "in_destructor")
  /\ UNCHANGED <<KEYS, iterations, i, destructor, panicked, creates, refilled>>

(* The destructor returns. *)
destructor_returns(t) ==
  /\ ~panicked
  /\ pc[t] = "in_destructor"
  /\ destructor' = [destructor EXCEPT ![t] = NULL]
  /\ i' = [i EXCEPT ![t] = @ + 1]
  /\ Goto(t, "scan")
  /\ UNCHANGED <<KEYS, local, iterations, panicked, creates, last, refilled>>

-----------------------------------------------------------------------------

Call(t) ==
  \/ \E d \in Destructors \cup {NULL} : thread_key_create(t, d)
  \/ \E k \in KeyArgs : thread_key_delete(t, k) \/ thread_getspecific(t, k)
  \/ \E k \in KeyArgs, v \in Values \cup {NULL} : thread_setspecific(t, k, v)

Exit(t) == scan(t) \/ next_pass(t) \/ call(t) \/ destructor_returns(t)

Next ==
  \/ \E t \in Threads : Call(t)
  \/ \E t \in Threads : thread_call_destructors(t)
  \/ \E t \in Threads : Exit(t)

Spec == Init /\ [][Next]_vars

(* An exiting thread is scheduled and the destructors it runs return. *)
FairSpec == Spec /\ \A t \in Threads : WF_vars(Exit(t))

-----------------------------------------------------------------------------
(* Properties *)

TypeOK ==
  /\ KEYS \in [Keys -> [used : BOOLEAN, destructor : Destructors \cup {NULL},
                        generation : 0..(GenMod - 1)]]
  /\ local \in [Threads -> [Keys -> [value : Values \cup {NULL},
                                     generation : 0..(GenMod - 1)]]]
  /\ pc \in [Threads -> {"running", "scan", "call", "in_destructor", "done"}]
  /\ iterations \in [Threads -> 0..(Iterations - 1)]
  /\ i \in [Threads -> 0..KeysMax]
  /\ destructor \in [Threads -> Destructors \cup {NULL}]
  /\ panicked \in BOOLEAN
  /\ creates \in [Keys -> Nat]
  /\ last \in [Threads -> [Keys ->
                [value : Values \cup {NULL}, creation : Nat,
                 destructor : Destructors \cup {NULL}]]]
  /\ refilled \in [Threads -> BOOLEAN]

(* The slot was created GenMod times or more since the thread stored its   *)
(* value, so that its generation may have come round.                      *)
MayAlias(t, k) ==
  last[t][k] # Nothing /\ creates[k] - last[t][k].creation >= GenMod

(* What a thread gets for a key is what it last stored for this very key:  *)
(* never a value of a deleted key that had the same number.  It takes      *)
(* GenMod creations of one slot for the generation to be mistaken.         *)
SeesOwnValues ==
  \A t \in Threads, k \in Keys :
    KEYS[k].used /\ ~MayAlias(t, k) =>
      GetValue(t, k) =
        IF last[t][k].creation = creates[k] THEN last[t][k].value ELSE NULL

(* The destructor a thread runs is that of the key the value was stored    *)
(* for, although other threads may delete the key and create another of    *)
(* the same number between the look at KEYS and the call.                  *)
RightDestructor ==
  [][\A t \in Threads :
       pc[t] = "call" /\ pc'[t] = "in_destructor" =>
         \/ destructor'[t] = last[t][i[t]].destructor
         \/ MayAlias(t, i[t])]_vars

(* A thread that is done has no value left that a destructor should see,   *)
(* except what a destructor stored in the last pass allowed.               *)
NothingLeft ==
  \A t \in Threads :
    pc[t] = "done" /\ ~refilled[t] =>
      \A k \in Keys :
        Pending(t, k) => KEYS[k].destructor = NULL \/ MayAlias(t, k)

(* A thread that exits gets to the end, although its destructors may store *)
(* values again for ever.                                                  *)
ExitEnds ==
  \A t \in Threads : pc[t] = "scan" ~> pc[t] = "done" \/ panicked

=============================================================================
