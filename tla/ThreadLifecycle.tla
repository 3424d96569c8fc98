-------------------------- MODULE ThreadLifecycle --------------------------
(***************************************************************************)
(* How a thread comes and goes: thread_create, hzlibc_thread_entry,        *)
(* hzlibc_thread_exit, thread_join of src/internal/thread.cpp and          *)
(* pthread_detach of src/posix/pthread.cpp.  For each thread w there are   *)
(* its creator, itself and the user of its handle, each with its own       *)
(* program counter.  They meet in the thread's control block (TCB), whose  *)
(* memory the allocator hands out again once it is freed: a late access of *)
(* one thread then reaches the block of another.                           *)
(***************************************************************************)
EXTENDS Naturals, FiniteSets

CONSTANTS Workers,  \* threads that may be created
          Addrs,    \* addresses the allocator has for control blocks
          None

ASSUME NoneAssumption == None \notin Workers \cup Addrs

VARIABLES
  mem,       \* per address: owner, detached, tid, exited, exit_status
  at,        \* the address of each thread's control block
  creator,   \* where thread_create is for each thread
  worker,    \* where the thread itself is
  user,      \* where the user of its handle is
  result,    \* what thread_join returned through `ret'
  stomped,   \* history: threads whose block another wrote to or released
  wrote_late,      \* history: threads that wrote to their block after its release
  freed,     \* history: who released each thread's block
  missed     \* history: threads detached after they looked at `detached'

lifeVars == <<mem, at, creator, worker, user, result, stomped, wrote_late, freed,
          missed>>

-----------------------------------------------------------------------------

LifeInit ==
  /\ mem = [a \in Addrs |-> [owner |-> None, detached |-> FALSE,
                             tid |-> FALSE, exited |-> FALSE,
                             exit_status |-> None]]
  /\ at = [w \in Workers |-> None]
  /\ creator = [w \in Workers |-> "none"]
  /\ worker = [w \in Workers |-> "none"]
  /\ user = [w \in Workers |-> "none"]
  /\ result = [w \in Workers |-> None]
  /\ stomped = {} /\ wrote_late = {} /\ missed = {}
  /\ freed = [w \in Workers |-> {}]

Owns(w) == at[w] # None /\ mem[at[w]].owner = w

(* The thread, other than w, that owns what w takes for its block. *)
Others(w) == {mem[at[w]].owner} \ {w, None}

(* __dlapi_destroy_tcb *)
Free(w, by) ==
  /\ mem' = [mem EXCEPT ![at[w]].owner = None]
  /\ freed' = [freed EXCEPT ![w] = @ \cup {by}
                                     \cup IF Owns(w) THEN {} ELSE {"foreign"}]
  /\ stomped' = stomped \cup Others(w)

-----------------------------------------------------------------------------
(* thread_create *)

(* A zeroed block; with none the call returns ENOMEM and changes nothing. *)
thread_create(w, detached) ==
  /\ creator[w] = "none"
  /\ \E a \in Addrs :
       /\ mem[a].owner = None
       /\ mem' = [mem EXCEPT ![a] = [owner |-> w, detached |-> detached,
                                     tid |-> FALSE, exited |-> FALSE,
                                     exit_status |-> None]]
       /\ at' = [at EXCEPT ![w] = a]
  /\ creator' = [creator EXCEPT ![w] = "clone"]
  /\ UNCHANGED <<worker, user, result, stomped, wrote_late, freed, missed>>

(* sys_thread_create: the new thread starts in hzlibc_thread_entry. *)
clone(w) ==
  /\ creator[w] = "clone"
  /\ creator' = [creator EXCEPT ![w] = "set_tid"]
  /\ worker' = [worker EXCEPT ![w] = "load_tid"]
  /\ UNCHANGED <<mem, at, user, result, stomped, wrote_late, freed, missed>>

clone_fails(w) ==
  /\ creator[w] = "clone"
  /\ Free(w, "create")
  /\ creator' = [creator EXCEPT ![w] = "failed"]
  /\ UNCHANGED <<at, worker, user, result, wrote_late, missed>>

set_tid(w) ==
  /\ creator[w] = "set_tid"
  /\ mem' = [mem EXCEPT ![at[w]].tid = TRUE]
  /\ creator' = [creator EXCEPT ![w] = "wake_tid"]
  /\ UNCHANGED <<at, worker, user, result, stomped, wrote_late, freed, missed>>

(* Threads asleep on a word of the block at address a, in `pcs'. *)
SleepersAt(a, pcs) == {v \in Workers : pcs[v] = "asleep" /\ at[v] = a}

(* sys_futex_wake: one sleeper at the address, whoever's block it is now. *)
wake_tid(w) ==
  /\ creator[w] = "wake_tid"
  /\ creator' = [creator EXCEPT ![w] = "created"]
  /\ LET sleepers == SleepersAt(at[w], worker)
     IN  IF sleepers = {}
           THEN UNCHANGED worker
           ELSE \E v \in sleepers : worker' = [worker EXCEPT ![v] = "load_tid"]
  /\ UNCHANGED <<mem, at, user, result, stomped, wrote_late, freed, missed>>

-----------------------------------------------------------------------------
(* hzlibc_thread_entry, hzlibc_thread_exit *)

load_tid(w) ==
  /\ worker[w] = "load_tid"
  /\ worker' = [worker EXCEPT ![w] =
                  IF mem[at[w]].tid THEN "fn" ELSE "wait_tid"]
  /\ UNCHANGED <<mem, at, creator, user, result, stomped, wrote_late, freed, missed>>

wait_tid(w) ==
  /\ worker[w] = "wait_tid"
  /\ worker' = [worker EXCEPT ![w] =
                  IF mem[at[w]].tid THEN "load_tid" ELSE "asleep"]
  /\ UNCHANGED <<mem, at, creator, user, result, stomped, wrote_late, freed, missed>>

tid_eintr(w) ==
  /\ worker[w] = "asleep"
  /\ worker' = [worker EXCEPT ![w] = "load_tid"]
  /\ UNCHANGED <<mem, at, creator, user, result, stomped, wrote_late, freed, missed>>

(* Mutant: every thread releases its block when it exits. *)
ExitAlwaysFrees(w) ==
  /\ worker[w] = "fn"
  /\ worker' = [worker EXCEPT ![w] = "destroy"]
  /\ UNCHANGED <<mem, at, creator, user, result, stomped, wrote_late, freed, missed>>

(* The start function returns or calls pthread_exit, and the destructors   *)
(* run (module ThreadKeys); then the thread looks whether it is detached.  *)
hzlibc_thread_exit(w) ==
  /\ worker[w] = "fn"
  /\ worker' = [worker EXCEPT ![w] =
                  IF mem[at[w]].detached THEN "destroy" ELSE "status"]
  /\ UNCHANGED <<mem, at, creator, user, result, stomped, wrote_late, freed, missed>>

destroy(w) ==
  /\ worker[w] = "destroy"
  /\ Free(w, "exit")
  /\ worker' = [worker EXCEPT ![w] = "status"]
  /\ UNCHANGED <<at, creator, user, result, wrote_late, missed>>

(* A write of w's exit to the block that it takes for its own. *)
WriteBlock(w, block) ==
  /\ mem' = [mem EXCEPT ![at[w]] = block]
  /\ wrote_late' = IF Owns(w) THEN wrote_late ELSE wrote_late \cup {w}
  /\ stomped' = stomped \cup Others(w)

(* Mutant: the thread is marked as exited before its status is there. *)
ExitedFirst(w) ==
  /\ worker[w] = "status"
  /\ WriteBlock(w, [mem[at[w]] EXCEPT !.exited = TRUE])
  /\ worker' = [worker EXCEPT ![w] = "exited"]
  /\ UNCHANGED <<at, creator, user, result, freed, missed>>

(* A thread returns a value of its own: its name. *)
status(w) ==
  /\ worker[w] = "status"
  /\ WriteBlock(w, [mem[at[w]] EXCEPT !.exit_status = w])
  /\ worker' = [worker EXCEPT ![w] = "exited"]
  /\ UNCHANGED <<at, creator, user, result, freed, missed>>

exited(w) ==
  /\ worker[w] = "exited"
  /\ WriteBlock(w, [mem[at[w]] EXCEPT !.exited = TRUE])
  /\ worker' = [worker EXCEPT ![w] = "wake"]
  /\ UNCHANGED <<at, creator, user, result, freed, missed>>

(* Mutant: those who wait for the thread are not woken. *)
ExitNeverWakes(w) ==
  /\ worker[w] = "wake"
  /\ worker' = [worker EXCEPT ![w] = "gone"]
  /\ UNCHANGED <<mem, at, creator, user, result, stomped, wrote_late, freed, missed>>

(* sys_futex_wake_all and sys_exit_thread. *)
wake_joiner(w) ==
  /\ worker[w] = "wake"
  /\ worker' = [worker EXCEPT ![w] = "gone"]
  /\ user' = [v \in Workers |-> IF v \in SleepersAt(at[w], user)
                                  THEN "load_exited" ELSE user[v]]
  /\ UNCHANGED <<mem, at, creator, result, stomped, wrote_late, freed, missed>>

-----------------------------------------------------------------------------
(* thread_join and pthread_detach, on a handle that is still good *)

(* EINVAL for a detached thread. *)
thread_join(w) ==
  /\ creator[w] = "created"
  /\ user[w] \in {"none", "detached"}
  /\ Owns(w)
  /\ user' = [user EXCEPT ![w] =
                IF mem[at[w]].detached THEN "einval" ELSE "load_exited"]
  /\ UNCHANGED <<mem, at, creator, worker, result, stomped, wrote_late, freed,
                 missed>>

pthread_detach(w) ==
  /\ creator[w] = "created"
  /\ user[w] = "none"
  /\ Owns(w)
  /\ mem' = [mem EXCEPT ![at[w]].detached = TRUE]
  /\ missed' = IF worker[w] \in {"status", "exited", "wake", "gone"}
                    /\ ~mem[at[w]].detached
                 THEN missed \cup {w} ELSE missed
  /\ user' = [user EXCEPT ![w] = "detached"]
  /\ UNCHANGED <<at, creator, worker, result, stomped, wrote_late, freed>>

load_exited(w) ==
  /\ user[w] = "load_exited"
  /\ user' = [user EXCEPT ![w] =
                IF mem[at[w]].exited THEN "read_status" ELSE "wait_exited"]
  /\ UNCHANGED <<mem, at, creator, worker, result, stomped, wrote_late, freed,
                 missed>>

wait_exited(w) ==
  /\ user[w] = "wait_exited"
  /\ user' = [user EXCEPT ![w] =
                IF mem[at[w]].exited THEN "load_exited" ELSE "asleep"]
  /\ UNCHANGED <<mem, at, creator, worker, result, stomped, wrote_late, freed,
                 missed>>

exited_eintr(w) ==
  /\ user[w] = "asleep"
  /\ user' = [user EXCEPT ![w] = "load_exited"]
  /\ UNCHANGED <<mem, at, creator, worker, result, stomped, wrote_late, freed,
                 missed>>

read_status(w) ==
  /\ user[w] = "read_status"
  /\ result' = [result EXCEPT ![w] = mem[at[w]].exit_status]
  /\ user' = [user EXCEPT ![w] = "join_destroy"]
  /\ UNCHANGED <<mem, at, creator, worker, stomped, wrote_late, freed, missed>>

join_destroy(w) ==
  /\ user[w] = "join_destroy"
  /\ Free(w, "join")
  /\ user' = [user EXCEPT ![w] = "joined"]
  /\ UNCHANGED <<at, creator, worker, result, wrote_late, missed>>

-----------------------------------------------------------------------------

Creator(w) == clone(w) \/ clone_fails(w) \/ set_tid(w) \/ wake_tid(w)

Worker(w) ==
  \/ load_tid(w) \/ wait_tid(w) \/ hzlibc_thread_exit(w)
  \/ destroy(w) \/ status(w) \/ exited(w) \/ wake_joiner(w)

Joiner(w) ==
  load_exited(w) \/ wait_exited(w) \/ read_status(w) \/ join_destroy(w)

Interrupt(w) == tid_eintr(w) \/ exited_eintr(w)

LifeNext ==
  \/ \E w \in Workers, d \in BOOLEAN : thread_create(w, d)
  \/ \E w \in Workers : thread_join(w)
  \/ \E w \in Workers : pthread_detach(w)
  \/ \E w \in Workers : Creator(w)
  \/ \E w \in Workers : Worker(w)
  \/ \E w \in Workers : Joiner(w)
  \/ \E w \in Workers : Interrupt(w)

LifeSpec == LifeInit /\ [][LifeNext]_lifeVars

(* All threads are scheduled, and a thread's start function returns. *)
LifeFairSpec ==
  /\ LifeSpec
  /\ \A w \in Workers :
       WF_lifeVars(Creator(w)) /\ WF_lifeVars(Worker(w)) /\ WF_lifeVars(Joiner(w))

-----------------------------------------------------------------------------
(* Properties *)

LifeTypeOK ==
  /\ mem \in [Addrs -> [owner : Workers \cup {None}, detached : BOOLEAN,
                        tid : BOOLEAN, exited : BOOLEAN,
                        exit_status : Workers \cup {None}]]
  /\ at \in [Workers -> Addrs \cup {None}]
  /\ creator \in [Workers -> {"none", "clone", "set_tid", "wake_tid",
                              "created", "failed"}]
  /\ worker \in [Workers -> {"none", "load_tid", "wait_tid", "asleep", "fn",
                             "destroy", "status", "exited", "wake", "gone"}]
  /\ user \in [Workers -> {"none", "detached", "einval", "load_exited",
                           "wait_exited", "asleep", "read_status",
                           "join_destroy", "joined"}]
  /\ result \in [Workers -> Workers \cup {None}]
  /\ stomped \subseteq Workers /\ wrote_late \subseteq Workers
  /\ missed \subseteq Workers
  /\ freed \in [Workers -> SUBSET {"create", "exit", "join", "foreign"}]

(* thread_join returns the value its thread exited with, unless a detached *)
(* thread that exits has written over the joined thread's control block.   *)
JoinGetsStatus ==
  \A w \in Workers : user[w] = "joined" => result[w] = w \/ w \in stomped

(* A control block is released once, while it belongs to the thread, in    *)
(* every order of exit, join and detach, unless it was written over.       *)
FreesItsOwn ==
  \A w \in Workers \ stomped :
    Cardinality(freed[w]) <= 1 /\ "foreign" \notin freed[w]

(* The only threads that write to a control block after its release are    *)
(* those that were detached when they exited (they release it first, and   *)
(* record their status after) and those that a join was deceived about by  *)
(* such a write.                                                           *)
LateWrites == \A w \in wrote_late : "exit" \in freed[w] \/ w \in stomped

(* The block of a thread that is gone and was joined or detached has been  *)
(* released, unless it was detached after its exit looked at the flag.     *)
NoLeak ==
  \A w \in Workers :
    worker[w] = "gone" /\ user[w] \in {"joined", "detached"} =>
      ~Owns(w) \/ w \in missed

(* A thread that was started gets to its start function. *)
ThreadStarts ==
  \A w \in Workers : worker[w] = "load_tid" ~> worker[w] = "fn"

(* A call of thread_join returns once the thread's function has returned. *)
JoinReturns ==
  \A w \in Workers : user[w] = "load_exited" ~> user[w] = "joined"

(* A control block is released once, by whoever should, and not left       *)
(* behind: the exceptions are a thread detached while it exits, and blocks *)
(* written to by a detached thread that has released its own.              *)
BlocksReleased == FreesItsOwn /\ LateWrites /\ NoLeak
=============================================================================
