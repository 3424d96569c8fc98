---------------------------- MODULE ThreadProofs ----------------------------
(***************************************************************************)
(* Proofs about module Once, for any set of threads.  That init_fn runs    *)
(* once and that nobody returns before it has run both rest on the word    *)
(* being RUNNING or QUEUED exactly while some one thread is between its    *)
(* compare-and-swap and its exchange (RunnerInv), and on COMPLETE being    *)
(* final, so that a value read earlier is still true (StateInv).           *)
(*                                                                         *)
(* And proofs about module ThreadLifecycle, for any number of workers and  *)
(* blocks: thread_join returns the status of the thread it was called for, *)
(* and a block is released once and by whoever should.  What a thread finds *)
(* in its block holds while no thread that has released its own has written *)
(* to it (UnstompedInv); the rest holds of every thread (AlwaysInv).       *)
(***************************************************************************)
EXTENDS Once, ThreadLifecycle, FiniteSetTheorems, TLAPS

(* A leaf is left to Zenon for thirty seconds, or to the prover it names.  *)
USE ZenonT(30)

(* The threads between their compare-and-swap and their exchange. *)
Runners == {t \in Threads : pc[t] \in {"init", "complete"}}

(* The word says whether somebody runs init_fn and whether it has          *)
(* returned.                                                               *)
RunnerInv ==
  /\ once = "INCOMPLETE" => starts = 0
  /\ once # "INCOMPLETE" => starts = 1
  /\ once \in {"INCOMPLETE", "COMPLETE"} => Runners = {}
  /\ \A t, u \in Runners : t = u
  /\ \A t \in Runners : pc[t] = "complete" => done
  /\ once = "COMPLETE" => done

(* What a thread has read of the word is still true of it. *)
StateInv ==
  \A t \in Threads :
    /\ pc[t] = "check" /\ state[t] = "COMPLETE" => once = "COMPLETE"
    /\ pc[t] \in {"wake", "returned"} => once = "COMPLETE"
    /\ pc[t] \in {"wait", "asleep"} => once \in {"QUEUED", "COMPLETE"}
    /\ pc[t] = "check" /\ state[t] = "QUEUED" => once \in {"QUEUED", "COMPLETE"}

(* The inductive invariant of pthread_once. *)
IndInv == TypeOK /\ RunnerInv /\ StateInv /\ NoLostWakeup

-----------------------------------------------------------------------------

(* The invariant holds at first, and every step keeps it. *)
LEMMA InitIndInv == Init => IndInv
<1> SUFFICES ASSUME Init PROVE IndInv
  OBVIOUS
<1>1. TypeOK
  BY DEF Init, TypeOK, States, Labels
<1>2. RunnerInv
  BY DEF Init, RunnerInv, Runners
<1>3. StateInv /\ NoLostWakeup
  BY DEF Init, StateInv, NoLostWakeup
<1> QED
  BY <1>1, <1>2, <1>3 DEF IndInv

(* Every step keeps the invariant. *)
LEMMA NextIndInv == IndInv /\ [Next]_vars => IndInv'
<1> SUFFICES ASSUME IndInv, [Next]_vars PROVE IndInv'
  OBVIOUS
<1> USE DEF IndInv, TypeOK, RunnerInv, StateInv, NoLostWakeup, Runners,
            States, Labels, Goto
<1>1. ASSUME NEW t \in Threads, thread_once(t) PROVE IndInv'
  BY SMTT(30), <1>1 DEF thread_once
<1>2. ASSUME NEW t \in Threads, load(t) PROVE IndInv'
  BY SMTT(30), <1>2 DEF load
<1>3. ASSUME NEW t \in Threads, run(t) PROVE IndInv'
  BY SMTT(30), <1>3 DEF run
<1>4. ASSUME NEW t \in Threads, init_fn(t) PROVE IndInv'
  BY SMTT(30), <1>4 DEF init_fn
<1>5. ASSUME NEW t \in Threads, complete(t) PROVE IndInv'
  BY SMTT(30), <1>5 DEF complete
<1>6. ASSUME NEW t \in Threads, wake(t) PROVE IndInv'
  BY <1>6 DEF wake, sys_futex_wake_all
<1>7. ASSUME NEW t \in Threads, queue(t) PROVE IndInv'
  BY SMTT(30), <1>7 DEF queue
<1>8. ASSUME NEW t \in Threads, queued(t) PROVE IndInv'
  BY SMTT(30), <1>8 DEF queued
<1>9. ASSUME NEW t \in Threads, wait(t) PROVE IndInv'
  BY SMTT(30), <1>9 DEF wait, sys_futex_wait
<1>10. ASSUME NEW t \in Threads, eintr(t) PROVE IndInv'
  BY SMTT(30), <1>10 DEF eintr
<1>11. ASSUME NEW t \in Threads, return(t) PROVE IndInv'
  BY <1>11 DEF return
<1>12. ASSUME UNCHANGED vars PROVE IndInv'
  BY <1>12 DEF vars
<1> QED
  BY <1>1, <1>2, <1>3, <1>4, <1>5, <1>6, <1>7, <1>8, <1>9, <1>10, <1>11,
     <1>12 DEF Next, Step, AllReturned

(* It holds always. *)
LEMMA Inductive == Spec => []IndInv
  BY InitIndInv, NextIndInv, PTL DEF Spec

(* init_fn runs at most once for any number of concurrent callers, and     *)
(* nobody returns from thread_once before it has returned.                 *)
THEOREM RunsOnce == Spec => []InitRunsOnce
<1>1. IndInv => InitRunsOnce
  BY SMTT(30) DEF IndInv, RunnerInv, StateInv, InitRunsOnce
<1> QED
  BY Inductive, <1>1, PTL

(* A thread asleep in thread_once always has somebody to wake it. *)
THEOREM WakeupSafe == Spec => []NoLostWakeup
<1>1. IndInv => NoLostWakeup
  BY DEF IndInv
<1> QED
  BY Inductive, <1>1, PTL

-----------------------------------------------------------------------------
(* Threads that come and go.  A block has the owner the allocator gave it  *)
(* to (OwnersInv).  AlwaysInv holds of every thread; UnstompedInv of those *)
(* whose block nobody else has written to or released: such a thread owns  *)
(* its block until it is released, by its creator, by its exit if it was   *)
(* detached when it looked, or else by the join, which sees `exited' only  *)
(* behind the status.                                                      *)

(* Where a thread is before and after its function, and where the one that *)
(* joins it is.                                                            *)
Early == {"load_tid", "wait_tid", "asleep", "fn"}
After == {"status", "exited", "wake", "gone"}
Marked == {"wake", "gone"}
Polling == {"load_exited", "wait_exited", "asleep"}
Joining == Polling \cup {"read_status", "join_destroy"}

(* A block belongs to the worker it was allocated for. *)
OwnersInv == \A a \in Addrs, w \in Workers : mem[a].owner = w => at[w] = a

(* What holds of every worker. *)
AlwaysInv(w) ==
  /\ at[w] = None <=> creator[w] = "none"
  /\ worker[w] = "none" <=> creator[w] \in {"none", "clone", "failed"}
  /\ user[w] # "none" => creator[w] = "created"
  /\ creator[w] = "none" => freed[w] = {}
  /\ freed[w] # {} => ~Owns(w)
  /\ user[w] = "joined" => freed[w] # {}
  /\ Owns(w) /\ user[w] = "detached" => mem[at[w]].detached
  /\ Owns(w) /\ mem[at[w]].detached /\ worker[w] \in After => w \in missed

(* What holds of a worker whose block only those entitled to it have       *)
(* written to.                                                             *)
UnstompedInv(w) ==
  /\ creator[w] # "none" /\ freed[w] = {} => Owns(w)
  /\ creator[w] = "clone" => freed[w] = {}
  /\ worker[w] = "destroy" => freed[w] = {} /\ mem[at[w]].detached
  /\ user[w] \in Joining => freed[w] = {} /\ ~mem[at[w]].detached
  /\ user[w] \in {"read_status", "join_destroy", "joined"} => worker[w] \in Marked
  /\ Owns(w) /\ mem[at[w]].exited => worker[w] \in Marked
  /\ Owns(w) /\ worker[w] \in {"exited", "wake", "gone"} => mem[at[w]].exit_status = w
  /\ user[w] \in {"join_destroy", "joined"} => result[w] = w
  /\ \/ freed[w] = {}
     \/ freed[w] = {"create"} /\ worker[w] = "none"
     \/ freed[w] = {"exit"} /\ worker[w] \in After
     \/ freed[w] = {"join"} /\ user[w] = "joined"

(* What holds of a worker. *)
ThreadInv(w) == AlwaysInv(w) /\ (w \notin stomped => UnstompedInv(w))

(* The inductive invariant of thread creation, exit and join. *)
LifeInv == LifeTypeOK /\ OwnersInv /\ LateWrites /\ \A w \in Workers : ThreadInv(w)

-----------------------------------------------------------------------------
(* What a step of another thread may do to the block of u. *)
BlockKept(u) ==
  /\ Owns(u)' => Owns(u) /\ mem'[at[u]].detached = mem[at[u]].detached
  /\ u \notin stomped' /\ Owns(u) => /\ Owns(u)'
                                     /\ mem'[at[u]].exited = mem[at[u]].exited
                                     /\ mem'[at[u]].exit_status = mem[at[u]].exit_status

(* u goes on, if at all, in a way that asks nothing of its block. *)
Moved(u) ==
  /\ at'[u] = at[u] /\ creator'[u] = creator[u]
  /\ result'[u] = result[u] /\ freed'[u] = freed[u]
  /\ \/ worker'[u] = worker[u]
     \/ worker[u] \in Early /\ worker'[u] \in Early
  /\ \/ user'[u] = user[u]
     \/ user[u] \in Polling /\ user'[u] \in Polling
  /\ u \in missed => u \in missed'

(* Such a worker keeps its invariant while its block is left alone. *)
LEMMA OtherKeeps ==
  ASSUME NEW u \in Workers, ThreadInv(u), BlockKept(u), Moved(u), stomped \subseteq stomped'
  PROVE  ThreadInv(u)'
<1>1. /\ worker'[u] = "none" <=> worker[u] = "none"
      /\ worker'[u] = "destroy" <=> worker[u] = "destroy"
      /\ worker'[u] \in After <=> worker[u] \in After
      /\ worker'[u] \in Marked <=> worker[u] \in Marked
      /\ worker'[u] \in {"exited", "wake", "gone"} <=> worker[u] \in {"exited", "wake", "gone"}
  BY DEF Moved, Early, After, Marked
<1>2. /\ user'[u] # "none" <=> user[u] # "none"
      /\ user'[u] = "joined" <=> user[u] = "joined"
      /\ user'[u] = "detached" <=> user[u] = "detached"
      /\ user'[u] \in Joining <=> user[u] \in Joining
      /\ user'[u] \in {"read_status", "join_destroy", "joined"}
           <=> user[u] \in {"read_status", "join_destroy", "joined"}
      /\ user'[u] \in {"join_destroy", "joined"} <=> user[u] \in {"join_destroy", "joined"}
  BY DEF Moved, Polling, Joining
<1>3. AlwaysInv(u)'
  BY <1>1, <1>2 DEF ThreadInv, AlwaysInv, Moved, BlockKept
<1>4. ASSUME u \notin stomped' PROVE UnstompedInv(u)'
  <2>1. UnstompedInv(u) /\ AlwaysInv(u)
    BY <1>4 DEF ThreadInv
  <2>2. Owns(u)' <=> Owns(u)
    BY <1>4 DEF BlockKept
  <2>3. Owns(u) => /\ mem'[at'[u]].detached = mem[at[u]].detached
                   /\ mem'[at'[u]].exited = mem[at[u]].exited
                   /\ mem'[at'[u]].exit_status = mem[at[u]].exit_status
    BY <1>4 DEF BlockKept, Moved
  <2>4. worker[u] = "destroy" \/ user[u] \in Joining => Owns(u)
    BY <2>1 DEF UnstompedInv, AlwaysInv, Joining, Polling
  <2> QED
    BY <1>1, <1>2, <2>1, <2>2, <2>3, <2>4 DEF UnstompedInv, Moved
<1> QED
  BY <1>3, <1>4 DEF ThreadInv

(* A step that writes to no block leaves every one alone. *)
LEMMA SameBlocks ==
  ASSUME NEW u \in Workers, UNCHANGED <<mem, at>>
  PROVE  BlockKept(u)
BY DEF BlockKept, Owns

(* A worker that was created has a block. *)
LEMMA HasBlock ==
  ASSUME LifeInv, NEW w \in Workers, creator[w] # "none"
  PROVE  at[w] \in Addrs
BY SMTT(30), NoneAssumption DEF LifeInv, LifeTypeOK, ThreadInv, AlwaysInv

(* __dlapi_destroy_tcb: the block is nobody's, and if it was another's     *)
(* then that one is stomped on.                                            *)
LEMMA FreeBlocks ==
  ASSUME LifeInv, NEW w \in Workers, creator[w] # "none", NEW by \in {"create", "exit", "join"},
         Free(w, by), at' = at
  PROVE  /\ mem' \in [Addrs -> [owner : Workers \cup {None}, detached : BOOLEAN,
                                tid : BOOLEAN, exited : BOOLEAN,
                                exit_status : Workers \cup {None}]]
         /\ stomped \subseteq stomped' /\ stomped' \subseteq Workers
         /\ w \in stomped' => w \in stomped
         /\ freed' \in [Workers -> SUBSET {"create", "exit", "join", "foreign"}]
         /\ \A u \in Workers : u # w => freed'[u] = freed[u]
         /\ freed[w] \cup {by} \subseteq freed'[w]
         /\ Owns(w) => freed'[w] = freed[w] \cup {by}
         /\ OwnersInv' /\ ~Owns(w)'
         /\ \A u \in Workers : u # w => BlockKept(u)
<1>1. at[w] \in Addrs /\ LifeTypeOK /\ OwnersInv
  BY HasBlock DEF LifeInv
<1>2. /\ mem' = [mem EXCEPT ![at[w]].owner = None]
      /\ stomped' = stomped \cup ({mem[at[w]].owner} \ {w, None})
      /\ freed' = [freed EXCEPT ![w] = @ \cup {by} \cup IF Owns(w) THEN {} ELSE {"foreign"}]
  BY DEF Free, Others
<1>3. mem[at[w]] \in [owner : Workers \cup {None}, detached : BOOLEAN, tid : BOOLEAN,
                      exited : BOOLEAN, exit_status : Workers \cup {None}]
  BY <1>1 DEF LifeTypeOK
<1>4. [mem[at[w]] EXCEPT !.owner = None] =
        [owner |-> None, detached |-> mem[at[w]].detached, tid |-> mem[at[w]].tid,
         exited |-> mem[at[w]].exited, exit_status |-> mem[at[w]].exit_status]
  BY SMTT(30), <1>3
<1>5. mem' = [mem EXCEPT ![at[w]] =
                [owner |-> None, detached |-> mem[at[w]].detached, tid |-> mem[at[w]].tid,
                 exited |-> mem[at[w]].exited, exit_status |-> mem[at[w]].exit_status]]
  BY <1>2, <1>4
<1>6. mem' \in [Addrs -> [owner : Workers \cup {None}, detached : BOOLEAN, tid : BOOLEAN,
                          exited : BOOLEAN, exit_status : Workers \cup {None}]]
  BY <1>1, <1>3, <1>5 DEF LifeTypeOK
<1>7. \A a \in Addrs : /\ a # at[w] => mem'[a] = mem[a]
                       /\ a = at[w] => mem'[a].owner = None
  BY <1>1, <1>5 DEF LifeTypeOK
<1>8. stomped \subseteq stomped' /\ stomped' \subseteq Workers /\ (w \in stomped' => w \in stomped)
  BY <1>1, <1>2, <1>3 DEF LifeTypeOK
<1>9. /\ freed' \in [Workers -> SUBSET {"create", "exit", "join", "foreign"}]
      /\ \A u \in Workers : u # w => freed'[u] = freed[u]
      /\ freed[w] \cup {by} \subseteq freed'[w]
      /\ Owns(w) => freed'[w] = freed[w] \cup {by}
  BY <1>1, <1>2 DEF LifeTypeOK
<1>10. OwnersInv'
  BY SMTT(30), <1>1, <1>7, NoneAssumption DEF OwnersInv
<1>11. ~Owns(w)'
  BY <1>1, <1>7, NoneAssumption DEF Owns
<1>12. ASSUME NEW u \in Workers, u # w PROVE BlockKept(u)
  <2>1. CASE at[u] = None
    BY <2>1 DEF BlockKept, Owns
  <2>2. CASE at[u] # None /\ at[u] # at[w]
    BY <1>1, <1>7, <2>2 DEF BlockKept, Owns, LifeTypeOK
  <2>3. CASE at[u] # None /\ at[u] = at[w]
    <3>1. ~Owns(u)'
      BY <1>1, <1>7, <2>3, NoneAssumption DEF Owns
    <3>2. Owns(u) => u \in stomped'
      BY <1>2, <1>12, <2>3, NoneAssumption DEF Owns
    <3> QED
      BY <3>1, <3>2 DEF BlockKept
  <2> QED
    BY <2>1, <2>2, <2>3
<1> QED
  BY <1>6, <1>8, <1>9, <1>10, <1>11, <1>12

(* A write of an exit: the block keeps its owner, and if that is another   *)
(* thread then that one is stomped on.                                     *)
LEMMA WriteBlocks ==
  ASSUME LifeInv, NEW w \in Workers, creator[w] # "none",
         NEW block, WriteBlock(w, block), at' = at,
         block \in [owner : Workers \cup {None}, detached : BOOLEAN, tid : BOOLEAN,
                    exited : BOOLEAN, exit_status : Workers \cup {None}],
         block.owner = mem[at[w]].owner, block.detached = mem[at[w]].detached
  PROVE  /\ mem' \in [Addrs -> [owner : Workers \cup {None}, detached : BOOLEAN,
                                tid : BOOLEAN, exited : BOOLEAN,
                                exit_status : Workers \cup {None}]]
         /\ mem'[at[w]] = block
         /\ stomped \subseteq stomped' /\ stomped' \subseteq Workers
         /\ w \in stomped' => w \in stomped
         /\ wrote_late' \subseteq Workers
         /\ wrote_late' \subseteq wrote_late \cup IF Owns(w) THEN {} ELSE {w}
         /\ OwnersInv' /\ (Owns(w)' <=> Owns(w))
         /\ \A u \in Workers : u # w => BlockKept(u)
<1>1. at[w] \in Addrs /\ LifeTypeOK /\ OwnersInv
  BY HasBlock DEF LifeInv
<1>2. /\ mem' = [mem EXCEPT ![at[w]] = block]
      /\ stomped' = stomped \cup ({mem[at[w]].owner} \ {w, None})
      /\ wrote_late' = IF Owns(w) THEN wrote_late ELSE wrote_late \cup {w}
  BY DEF WriteBlock, Others
<1>3. mem' \in [Addrs -> [owner : Workers \cup {None}, detached : BOOLEAN, tid : BOOLEAN,
                          exited : BOOLEAN, exit_status : Workers \cup {None}]]
  BY <1>1, <1>2 DEF LifeTypeOK
<1>4. /\ mem'[at[w]] = block
      /\ \A a \in Addrs : /\ a # at[w] => mem'[a] = mem[a]
                          /\ mem'[a].owner = mem[a].owner
                          /\ mem'[a].detached = mem[a].detached
  BY <1>1, <1>2 DEF LifeTypeOK
<1>5. mem[at[w]].owner \in Workers \cup {None}
  BY <1>1 DEF LifeTypeOK
<1>6. stomped \subseteq stomped' /\ stomped' \subseteq Workers /\ (w \in stomped' => w \in stomped)
  BY <1>1, <1>2, <1>5 DEF LifeTypeOK
<1>7. /\ wrote_late' \subseteq Workers
      /\ wrote_late' \subseteq wrote_late \cup IF Owns(w) THEN {} ELSE {w}
  BY <1>1, <1>2 DEF LifeTypeOK
<1>8. OwnersInv' /\ (Owns(w)' <=> Owns(w))
  BY SMTT(30), <1>1, <1>4 DEF OwnersInv, Owns
<1>9. ASSUME NEW u \in Workers, u # w PROVE BlockKept(u)
  <2>1. CASE at[u] = None
    BY <2>1 DEF BlockKept, Owns
  <2>2. CASE at[u] # None /\ at[u] # at[w]
    BY SMTT(30), <1>1, <1>4, <2>2 DEF BlockKept, Owns, LifeTypeOK
  <2>3. CASE at[u] # None /\ at[u] = at[w]
    <3>1. Owns(u)' => Owns(u) /\ mem'[at[u]].detached = mem[at[u]].detached
      BY <1>1, <1>4, <2>3 DEF Owns
    <3>2. Owns(u) => u \in stomped'
      BY <1>2, <1>9, <2>3, NoneAssumption DEF Owns
    <3> QED
      BY <3>1, <3>2 DEF BlockKept
  <2> QED
    BY <2>1, <2>2, <2>3
<1> QED
  BY <1>3, <1>4, <1>6, <1>7, <1>8, <1>9

-----------------------------------------------------------------------------
(* One lemma per action, or per group of actions that move a thread only.  *)

(* The invariant holds before any thread is created. *)
LEMMA LifeStart == LifeInit => LifeInv
<1> SUFFICES ASSUME LifeInit PROVE LifeInv
  OBVIOUS
<1>1. LifeTypeOK
  BY DEF LifeInit, LifeTypeOK
<1>2. OwnersInv /\ LateWrites
  BY NoneAssumption DEF LifeInit, OwnersInv, LateWrites
<1>3. ASSUME NEW w \in Workers PROVE ThreadInv(w)
  BY DEF LifeInit, ThreadInv, AlwaysInv, UnstompedInv, Owns, After, Joining, Polling
<1> QED
  BY <1>1, <1>2, <1>3 DEF LifeInv

(* The steps that write nothing: a thread, its creator or the user of its  *)
(* handle goes on, or is woken, among places that the invariant does not   *)
(* tell apart.                                                             *)
LEMMA MoveKeeps ==
  ASSUME LifeInv, LifeTypeOK',
         UNCHANGED <<mem, at, freed, stomped, wrote_late, missed>>,
         \A u \in Workers : Moved(u)
  PROVE  LifeInv'
<1>1. OwnersInv' /\ LateWrites'
  BY DEF LifeInv, OwnersInv, LateWrites
<1>2. \A u \in Workers : ThreadInv(u)'
  BY OtherKeeps, SameBlocks DEF LifeInv
<1> QED
  BY <1>1, <1>2 DEF LifeInv

(* The steps that only read or sleep. *)
LEMMA MovesKeep ==
  ASSUME LifeInv, NEW w \in Workers,
         \/ load_tid(w) \/ wait_tid(w) \/ tid_eintr(w)
         \/ wait_exited(w) \/ exited_eintr(w)
  PROVE  LifeInv'
<1>1. LifeTypeOK
  BY DEF LifeInv
<1>2. UNCHANGED <<mem, at, creator, result, freed, stomped, wrote_late, missed>>
  BY DEF load_tid, wait_tid, tid_eintr, wait_exited, exited_eintr
<1>3. LifeTypeOK'
  BY SMTT(30), <1>1, <1>2 DEF LifeTypeOK, load_tid, wait_tid, tid_eintr, wait_exited, exited_eintr
<1>4. \A u \in Workers : Moved(u)
  BY SMTT(30), <1>1, <1>2 DEF LifeTypeOK, Moved, Early, Polling, load_tid, wait_tid, tid_eintr,
                    wait_exited, exited_eintr
<1> QED
  BY <1>2, <1>3, <1>4, MoveKeeps

(* thread_create takes a free block. *)
LEMMA CreateKeepsLife ==
  ASSUME LifeInv, NEW w \in Workers, NEW d \in BOOLEAN, thread_create(w, d)
  PROVE  LifeInv'
<1>1. PICK a \in Addrs :
        /\ mem[a].owner = None
        /\ mem' = [mem EXCEPT ![a] = [owner |-> w, detached |-> d, tid |-> FALSE,
                                      exited |-> FALSE, exit_status |-> None]]
        /\ at' = [at EXCEPT ![w] = a]
  BY DEF thread_create
<1>2. /\ creator[w] = "none" /\ creator' = [creator EXCEPT ![w] = "clone"]
      /\ UNCHANGED <<worker, user, result, stomped, wrote_late, freed, missed>>
  BY DEF thread_create
<1>3. LifeTypeOK /\ OwnersInv /\ LateWrites /\ ThreadInv(w)
  BY DEF LifeInv
<1>4. LifeTypeOK'
  <2>1. mem' \in [Addrs -> [owner : Workers \cup {None}, detached : BOOLEAN, tid : BOOLEAN,
                            exited : BOOLEAN, exit_status : Workers \cup {None}]]
    BY <1>1, <1>3 DEF LifeTypeOK
  <2>2. at' \in [Workers -> Addrs \cup {None}]
    BY <1>1, <1>3 DEF LifeTypeOK
  <2> QED
    BY <1>2, <1>3, <2>1, <2>2 DEF LifeTypeOK
<1>5. /\ \A b \in Addrs : b # a => mem'[b] = mem[b]
      /\ mem'[a] = [owner |-> w, detached |-> d, tid |-> FALSE, exited |-> FALSE,
                    exit_status |-> None]
      /\ \A u \in Workers : u # w => at'[u] = at[u] /\ creator'[u] = creator[u]
      /\ at'[w] = a /\ creator'[w] = "clone"
  BY <1>1, <1>2, <1>3 DEF LifeTypeOK
<1>6. at[w] = None /\ freed[w] = {} /\ worker[w] = "none" /\ user[w] = "none"
  BY <1>2, <1>3 DEF ThreadInv, AlwaysInv
<1>7. OwnersInv'
  BY SMTT(30), <1>3, <1>5, <1>6, NoneAssumption DEF OwnersInv
<1>8. LateWrites'
  BY <1>2, <1>3 DEF LateWrites
<1>9. ThreadInv(w)'
  <2>1. Owns(w)' /\ ~mem'[at'[w]].exited
    BY SMTT(30), <1>5, NoneAssumption DEF Owns
  <2> QED
    BY <1>2, <1>5, <1>6, <2>1, NoneAssumption
       DEF ThreadInv, AlwaysInv, UnstompedInv, After, Marked, Joining, Polling
<1>10. ASSUME NEW u \in Workers, u # w PROVE ThreadInv(u)'
  <2>1. Moved(u)
    BY <1>2, <1>5, <1>10 DEF Moved
  <2>2. BlockKept(u)
    <3>1. CASE at[u] = None
      BY <1>5, <1>10, <3>1 DEF BlockKept, Owns
    <3>2. CASE at[u] = a
      <4>1. mem'[a].owner = w
        BY SMTT(30), <1>5
      <4> QED
        BY <1>1, <1>5, <1>10, <3>2, <4>1, NoneAssumption DEF BlockKept, Owns
    <3>3. CASE at[u] \in Addrs /\ at[u] # a
      BY <1>5, <1>10, <3>3 DEF BlockKept, Owns
    <3> QED
      BY <1>3, <3>1, <3>2, <3>3 DEF LifeTypeOK
  <2> QED
    BY <1>2, <2>1, <2>2, OtherKeeps DEF LifeInv
<1> QED
  BY <1>4, <1>7, <1>8, <1>9, <1>10 DEF LifeInv

(* The kernel starts the thread. *)
LEMMA CloneKeeps ==
  ASSUME LifeInv, NEW w \in Workers, clone(w)
  PROVE  LifeInv'
<1>1. /\ creator[w] = "clone" /\ creator' = [creator EXCEPT ![w] = "set_tid"]
      /\ worker' = [worker EXCEPT ![w] = "load_tid"]
      /\ UNCHANGED <<mem, at, user, result, stomped, wrote_late, freed, missed>>
  BY DEF clone
<1>2. LifeTypeOK /\ OwnersInv /\ LateWrites /\ ThreadInv(w)
  BY DEF LifeInv
<1>3. LifeTypeOK' /\ OwnersInv' /\ LateWrites'
  BY <1>1, <1>2 DEF LifeTypeOK, OwnersInv, LateWrites
<1>4. /\ creator'[w] = "set_tid" /\ worker'[w] = "load_tid"
      /\ \A u \in Workers : u # w => creator'[u] = creator[u] /\ worker'[u] = worker[u]
  BY <1>1, <1>2 DEF LifeTypeOK
<1>5. ThreadInv(w)'
  BY <1>1, <1>2, <1>4
     DEF ThreadInv, AlwaysInv, UnstompedInv, Owns, After, Marked, Joining,
                          Polling
<1>6. \A u \in Workers : u # w => ThreadInv(u)'
  BY <1>1, <1>4, OtherKeeps, SameBlocks DEF LifeInv, Moved
<1> QED
  BY <1>3, <1>5, <1>6 DEF LifeInv

(* The creator stores the identifier, perhaps into a block that is         *)
(* another's by now.                                                       *)
LEMMA TidKeeps ==
  ASSUME LifeInv, NEW w \in Workers, set_tid(w)
  PROVE  LifeInv'
<1>1. /\ creator[w] = "set_tid" /\ creator' = [creator EXCEPT ![w] = "wake_tid"]
      /\ mem' = [mem EXCEPT ![at[w]].tid = TRUE]
      /\ UNCHANGED <<at, worker, user, result, stomped, wrote_late, freed, missed>>
  BY DEF set_tid
<1>2. LifeTypeOK /\ OwnersInv /\ LateWrites /\ ThreadInv(w) /\ at[w] \in Addrs
  BY <1>1, HasBlock DEF LifeInv
<1>3. mem[at[w]] \in [owner : Workers \cup {None}, detached : BOOLEAN, tid : BOOLEAN,
                      exited : BOOLEAN, exit_status : Workers \cup {None}]
  BY <1>2 DEF LifeTypeOK
<1>4. [mem[at[w]] EXCEPT !.tid = TRUE] =
        [owner |-> mem[at[w]].owner, detached |-> mem[at[w]].detached, tid |-> TRUE,
         exited |-> mem[at[w]].exited, exit_status |-> mem[at[w]].exit_status]
  <2>1. ASSUME NEW b PROVE [mem[at[w]] EXCEPT !.tid = b] =
              [owner |-> mem[at[w]].owner, detached |-> mem[at[w]].detached, tid |-> b,
               exited |-> mem[at[w]].exited, exit_status |-> mem[at[w]].exit_status]
    BY SMTT(30), <1>3
  <2> QED
    BY <2>1
<1>5. mem' = [mem EXCEPT ![at[w]] =
                [owner |-> mem[at[w]].owner, detached |-> mem[at[w]].detached, tid |-> TRUE,
                 exited |-> mem[at[w]].exited, exit_status |-> mem[at[w]].exit_status]]
  BY <1>1, <1>4
<1>6. mem' \in [Addrs -> [owner : Workers \cup {None}, detached : BOOLEAN, tid : BOOLEAN,
                          exited : BOOLEAN, exit_status : Workers \cup {None}]]
  BY <1>2, <1>3, <1>5 DEF LifeTypeOK
<1>7. \A a \in Addrs : /\ mem'[a].owner = mem[a].owner
                       /\ mem'[a].detached = mem[a].detached
                       /\ mem'[a].exited = mem[a].exited
                       /\ mem'[a].exit_status = mem[a].exit_status
  BY <1>2, <1>5 DEF LifeTypeOK
<1>8. LifeTypeOK'
  BY <1>1, <1>2, <1>6 DEF LifeTypeOK
<1>9. OwnersInv' /\ LateWrites'
  BY SMTT(30), <1>1, <1>2, <1>7 DEF OwnersInv, LateWrites
<1>10. \A u \in Workers : Owns(u)' <=> Owns(u)
  BY SMTT(30), <1>1, <1>2, <1>7 DEF Owns, LifeTypeOK
<1>11. /\ creator'[w] = "wake_tid" /\ \A u \in Workers : u # w => creator'[u] = creator[u]
  BY <1>1, <1>2 DEF LifeTypeOK
<1>12. ThreadInv(w)'
  BY SMTT(30), <1>1, <1>2, <1>7, <1>10, <1>11
     DEF ThreadInv, AlwaysInv, UnstompedInv, After, Marked, Joining, Polling
<1>13. ASSUME NEW u \in Workers, u # w PROVE ThreadInv(u)'
  <2>1. Moved(u)
    BY <1>1, <1>11, <1>13 DEF Moved
  <2>2. BlockKept(u)
    BY SMTT(30), <1>2, <1>7, <1>10 DEF BlockKept, Owns, LifeTypeOK
  <2> QED
    BY <1>1, <2>1, <2>2, OtherKeeps DEF LifeInv
<1> QED
  BY <1>8, <1>9, <1>12, <1>13 DEF LifeInv

(* The creator wakes the thread that waits for its identifier. *)
LEMMA WakeTidKeeps ==
  ASSUME LifeInv, NEW w \in Workers, wake_tid(w)
  PROVE  LifeInv'
<1>1. /\ creator[w] = "wake_tid" /\ creator' = [creator EXCEPT ![w] = "created"]
      /\ UNCHANGED <<mem, at, user, result, stomped, wrote_late, freed, missed>>
  BY DEF wake_tid
<1>2. LifeTypeOK /\ OwnersInv /\ LateWrites
  BY DEF LifeInv
<1>3. \/ worker' = worker
      \/ \E v \in Workers : worker[v] = "asleep" /\ worker' = [worker EXCEPT ![v] = "load_tid"]
  BY DEF wake_tid, SleepersAt
<1>4. /\ worker' \in [Workers -> {"none", "load_tid", "wait_tid", "asleep", "fn",
                                  "destroy", "status", "exited", "wake", "gone"}]
      /\ \A u \in Workers : \/ worker'[u] = worker[u]
                            \/ worker[u] = "asleep" /\ worker'[u] = "load_tid"
  BY <1>2, <1>3 DEF LifeTypeOK
<1>5. LifeTypeOK'
  BY <1>1, <1>2, <1>4 DEF LifeTypeOK
<1>6. OwnersInv' /\ LateWrites'
  BY <1>1, <1>2 DEF OwnersInv, LateWrites
<1>7. creator'[w] = "created" /\ \A u \in Workers : u # w => creator'[u] = creator[u]
  BY <1>1, <1>2 DEF LifeTypeOK
<1>8. ThreadInv(w)'
  <2>1. ThreadInv(w)
    BY DEF LifeInv
  <2> QED
    BY <1>1, <1>4, <1>7, <2>1
       DEF ThreadInv, AlwaysInv, UnstompedInv, Owns, After, Marked, Joining, Polling
<1>9. ASSUME NEW u \in Workers, u # w PROVE ThreadInv(u)'
  <2>1. Moved(u)
    BY <1>1, <1>4, <1>7, <1>9 DEF Moved, Early
  <2> QED
    BY <1>1, <2>1, OtherKeeps, SameBlocks DEF LifeInv
<1> QED
  BY <1>5, <1>6, <1>8, <1>9 DEF LifeInv

(* The three places that release a block. *)
LEMMA ReleaseKeeps ==
  ASSUME LifeInv, NEW w \in Workers, clone_fails(w) \/ destroy(w) \/ join_destroy(w)
  PROVE  LifeInv'
<1>1. LifeTypeOK /\ OwnersInv /\ LateWrites /\ ThreadInv(w)
  BY DEF LifeInv
<1>2. UNCHANGED <<at, result, wrote_late, missed>>
  BY DEF clone_fails, destroy, join_destroy
<1>3. PICK by \in {"create", "exit", "join"} :
        /\ Free(w, by)
        /\ \/ by = "create" /\ clone_fails(w)
           \/ by = "exit" /\ destroy(w)
           \/ by = "join" /\ join_destroy(w)
  BY DEF clone_fails, destroy, join_destroy
<1>4. creator[w] # "none"
  BY <1>1, <1>3 DEF clone_fails, destroy, join_destroy, ThreadInv, AlwaysInv
<1>5. /\ mem' \in [Addrs -> [owner : Workers \cup {None}, detached : BOOLEAN,
                             tid : BOOLEAN, exited : BOOLEAN,
                             exit_status : Workers \cup {None}]]
      /\ stomped \subseteq stomped' /\ stomped' \subseteq Workers
      /\ w \in stomped' => w \in stomped
      /\ freed' \in [Workers -> SUBSET {"create", "exit", "join", "foreign"}]
      /\ \A u \in Workers : u # w => freed'[u] = freed[u]
      /\ freed[w] \cup {by} \subseteq freed'[w]
      /\ Owns(w) => freed'[w] = freed[w] \cup {by}
      /\ OwnersInv' /\ ~Owns(w)'
      /\ \A u \in Workers : u # w => BlockKept(u)
  BY <1>2, <1>3, <1>4, FreeBlocks
<1>6. LifeTypeOK'
  BY SMTT(30), <1>1, <1>2, <1>3, <1>5 DEF LifeTypeOK, clone_fails, destroy, join_destroy
<1>7. LateWrites'
  BY <1>1, <1>2, <1>5 DEF LateWrites, LifeTypeOK
<1>8. \A u \in Workers : u # w => Moved(u)
  BY SMTT(30), <1>1, <1>2, <1>3, <1>5 DEF LifeTypeOK, Moved, clone_fails, destroy, join_destroy
<1>9. \A u \in Workers : u # w => ThreadInv(u)'
  BY <1>5, <1>8, OtherKeeps DEF LifeInv
<1>10. w \notin stomped => Owns(w) /\ freed[w] = {}
  BY <1>1, <1>3, <1>4
     DEF ThreadInv, UnstompedInv, clone_fails, destroy, join_destroy, Joining
<1>11. w \notin stomped => freed'[w] = {by}
  BY <1>5, <1>10
<1>12. ThreadInv(w)'
  <2>1. CASE by = "create"
    <3>1. /\ creator[w] = "clone" /\ creator'[w] = "failed" /\ worker' = worker /\ user' = user
          /\ worker[w] = "none" /\ user[w] = "none"
      BY <1>1, <1>3, <2>1 DEF clone_fails, LifeTypeOK, ThreadInv, AlwaysInv
    <3> QED
      BY <1>1, <1>2, <1>5, <1>11, <2>1, <3>1
         DEF ThreadInv, AlwaysInv, UnstompedInv, After, Marked, Joining, Polling
  <2>2. CASE by = "exit"
    <3>1. /\ worker[w] = "destroy" /\ worker'[w] = "status" /\ creator' = creator
          /\ user' = user
      BY <1>1, <1>3, <2>2 DEF destroy, LifeTypeOK
    <3> QED
      BY <1>1, <1>2, <1>5, <1>11, <2>2, <3>1
         DEF ThreadInv, AlwaysInv, UnstompedInv, After, Marked, Joining, Polling
  <2>3. CASE by = "join"
    <3>1. /\ user[w] = "join_destroy" /\ user'[w] = "joined" /\ creator' = creator
          /\ worker' = worker
      BY <1>1, <1>3, <2>3 DEF join_destroy, LifeTypeOK
    <3> QED
      BY <1>1, <1>2, <1>5, <1>11, <2>3, <3>1
         DEF ThreadInv, AlwaysInv, UnstompedInv, After, Marked, Joining, Polling
  <2> QED
    BY <2>1, <2>2, <2>3
<1> QED
  BY <1>5, <1>6, <1>7, <1>9, <1>12 DEF LifeInv

(* The thread looks at `detached' when its function has returned. *)
LEMMA ExitKeeps ==
  ASSUME LifeInv, NEW w \in Workers, hzlibc_thread_exit(w)
  PROVE  LifeInv'
<1>1. /\ worker[w] = "fn"
      /\ worker' = [worker EXCEPT ![w] = IF mem[at[w]].detached THEN "destroy" ELSE "status"]
      /\ UNCHANGED <<mem, at, creator, user, result, stomped, wrote_late, freed, missed>>
  BY DEF hzlibc_thread_exit
<1>2. LifeTypeOK /\ OwnersInv /\ LateWrites /\ ThreadInv(w)
  BY DEF LifeInv
<1>3. LifeTypeOK' /\ OwnersInv' /\ LateWrites'
  BY <1>1, <1>2 DEF LifeTypeOK, OwnersInv, LateWrites
<1>4. /\ worker'[w] = IF mem[at[w]].detached THEN "destroy" ELSE "status"
      /\ \A u \in Workers : u # w => worker'[u] = worker[u]
  BY <1>1, <1>2 DEF LifeTypeOK
<1>5. PICK x \in {"destroy", "status"} : /\ worker'[w] = x
                                         /\ x = "destroy" => mem[at[w]].detached
                                         /\ x = "status" => ~mem[at[w]].detached
  BY <1>4
<1>6. Owns(w)' <=> Owns(w)
  BY <1>1 DEF Owns
<1>7. AlwaysInv(w)'
  BY <1>1, <1>2, <1>5, <1>6 DEF ThreadInv, AlwaysInv, After
<1>8. ASSUME w \notin stomped PROVE UnstompedInv(w)'
  <2>1. UnstompedInv(w)
    BY <1>2, <1>8 DEF ThreadInv
  <2>2. freed[w] = {}
    BY <1>1, <1>2, <2>1 DEF ThreadInv, AlwaysInv, UnstompedInv, After, Marked
  <2> QED
    BY <1>1, <1>5, <1>6, <2>1, <2>2 DEF UnstompedInv, Marked
<1>9. ThreadInv(w)'
  BY <1>1, <1>7, <1>8 DEF ThreadInv
<1>10. \A u \in Workers : u # w => ThreadInv(u)'
  BY <1>1, <1>4, OtherKeeps, SameBlocks DEF LifeInv, Moved
<1> QED
  BY <1>3, <1>9, <1>10 DEF LifeInv

(* The two writes of an exit. *)
LEMMA RecordKeeps ==
  ASSUME LifeInv, NEW w \in Workers, status(w) \/ exited(w)
  PROVE  LifeInv'
<1>1. LifeTypeOK /\ OwnersInv /\ LateWrites /\ ThreadInv(w)
  BY DEF LifeInv
<1>2. UNCHANGED <<at, creator, user, result, freed, missed>>
  BY DEF status, exited
<1>3. worker[w] \in {"status", "exited"} /\ creator[w] # "none" /\ at[w] \in Addrs
  <2>1. worker[w] \in {"status", "exited"}
    BY DEF status, exited
  <2>2. creator[w] # "none"
    BY <1>1, <2>1 DEF ThreadInv, AlwaysInv
  <2> QED
    BY <2>1, <2>2, HasBlock
<1>4. mem[at[w]] \in [owner : Workers \cup {None}, detached : BOOLEAN, tid : BOOLEAN,
                      exited : BOOLEAN, exit_status : Workers \cup {None}]
  BY <1>1, <1>3 DEF LifeTypeOK
<1>5. PICK block :
        /\ WriteBlock(w, block)
        /\ block \in [owner : Workers \cup {None}, detached : BOOLEAN, tid : BOOLEAN,
                      exited : BOOLEAN, exit_status : Workers \cup {None}]
        /\ block.owner = mem[at[w]].owner /\ block.detached = mem[at[w]].detached
        /\ status(w) => block.exit_status = w /\ block.exited = mem[at[w]].exited
        /\ exited(w) => block.exit_status = mem[at[w]].exit_status
  <2>1. CASE status(w)
    <3>1. [mem[at[w]] EXCEPT !.exit_status = w] =
            [owner |-> mem[at[w]].owner, detached |-> mem[at[w]].detached,
             tid |-> mem[at[w]].tid, exited |-> mem[at[w]].exited, exit_status |-> w]
      BY SMTT(30), <1>4
    <3>2. WriteBlock(w, [mem[at[w]] EXCEPT !.exit_status = w]) /\ ~exited(w)
      BY <2>1 DEF status, exited
    <3> QED
      BY <1>4, <3>1, <3>2
  <2>2. CASE exited(w)
    <3>1. [mem[at[w]] EXCEPT !.exited = TRUE] =
            [owner |-> mem[at[w]].owner, detached |-> mem[at[w]].detached,
             tid |-> mem[at[w]].tid, exited |-> TRUE, exit_status |-> mem[at[w]].exit_status]
      <4>1. ASSUME NEW b PROVE [mem[at[w]] EXCEPT !.exited = b] =
                [owner |-> mem[at[w]].owner, detached |-> mem[at[w]].detached,
                 tid |-> mem[at[w]].tid, exited |-> b, exit_status |-> mem[at[w]].exit_status]
        BY SMTT(30), <1>4
      <4> QED
        BY <4>1
    <3>2. WriteBlock(w, [mem[at[w]] EXCEPT !.exited = TRUE]) /\ ~status(w)
      BY <2>2 DEF status, exited
    <3> QED
      BY <1>4, <3>1, <3>2
  <2> QED
    BY <2>1, <2>2
<1>6. /\ mem' \in [Addrs -> [owner : Workers \cup {None}, detached : BOOLEAN,
                             tid : BOOLEAN, exited : BOOLEAN,
                             exit_status : Workers \cup {None}]]
      /\ mem'[at[w]] = block
      /\ stomped \subseteq stomped' /\ stomped' \subseteq Workers
      /\ w \in stomped' => w \in stomped
      /\ wrote_late' \subseteq Workers
      /\ wrote_late' \subseteq wrote_late \cup IF Owns(w) THEN {} ELSE {w}
      /\ OwnersInv' /\ (Owns(w)' <=> Owns(w))
      /\ \A u \in Workers : u # w => BlockKept(u)
  BY <1>2, <1>3, <1>5, WriteBlocks
<1>7. LifeTypeOK'
  BY <1>1, <1>2, <1>6 DEF LifeTypeOK, status, exited
<1>8. w \notin stomped /\ ~Owns(w) => "exit" \in freed[w]
  BY <1>1, <1>3 DEF ThreadInv, UnstompedInv, AlwaysInv, Marked
<1>9. LateWrites'
  BY <1>1, <1>2, <1>6, <1>8 DEF LateWrites
<1>10. \A u \in Workers : u # w => Moved(u)
  BY <1>1, <1>2 DEF LifeTypeOK, Moved, status, exited
<1>11. \A u \in Workers : u # w => ThreadInv(u)'
  BY <1>6, <1>10, OtherKeeps DEF LifeInv
<1>12. ThreadInv(w)'
  <2>1. CASE status(w)
    <3>1. worker[w] = "status" /\ worker'[w] = "exited"
      BY <1>1, <2>1 DEF status, LifeTypeOK
    <3> QED
      BY <1>1, <1>2, <1>5, <1>6, <2>1, <3>1
         DEF ThreadInv, AlwaysInv, UnstompedInv, After, Marked, Joining, Polling
  <2>2. CASE exited(w)
    <3>1. worker[w] = "exited" /\ worker'[w] = "wake"
      BY <1>1, <2>2 DEF exited, LifeTypeOK
    <3> QED
      BY <1>1, <1>2, <1>5, <1>6, <2>2, <3>1
         DEF ThreadInv, AlwaysInv, UnstompedInv, After, Marked, Joining, Polling
  <2> QED
    BY <2>1, <2>2
<1> QED
  BY <1>6, <1>7, <1>9, <1>11, <1>12 DEF LifeInv

(* The thread wakes the one that joins it. *)
LEMMA WakeJoinerKeeps ==
  ASSUME LifeInv, NEW w \in Workers, wake_joiner(w)
  PROVE  LifeInv'
<1>1. /\ worker[w] = "wake" /\ worker' = [worker EXCEPT ![w] = "gone"]
      /\ user' = [v \in Workers |-> IF v \in SleepersAt(at[w], user)
                                      THEN "load_exited" ELSE user[v]]
      /\ UNCHANGED <<mem, at, creator, result, stomped, wrote_late, freed, missed>>
  BY DEF wake_joiner
<1>2. LifeTypeOK /\ OwnersInv /\ LateWrites /\ ThreadInv(w)
  BY DEF LifeInv
<1>3. /\ worker'[w] = "gone" /\ \A u \in Workers : u # w => worker'[u] = worker[u]
      /\ \A u \in Workers : \/ user'[u] = user[u]
                            \/ user[u] \in Polling /\ user'[u] \in Polling
  BY <1>1, <1>2 DEF LifeTypeOK, SleepersAt, Polling
<1>4. LifeTypeOK'
  <2>1. user' \in [Workers -> {"none", "detached", "einval", "load_exited",
                               "wait_exited", "asleep", "read_status",
                               "join_destroy", "joined"}]
    BY <1>1, <1>2 DEF LifeTypeOK
  <2> QED
    BY <1>1, <1>2, <2>1 DEF LifeTypeOK
<1>5. OwnersInv' /\ LateWrites'
  BY <1>1, <1>2 DEF OwnersInv, LateWrites
<1>6. ThreadInv(w)'
  <2>1. CASE user'[w] = user[w]
    BY <1>1, <1>2, <1>3, <2>1
       DEF ThreadInv, AlwaysInv, UnstompedInv, Owns, After, Marked, Joining, Polling
  <2>2. CASE user[w] \in Polling /\ user'[w] \in Polling
    BY <1>1, <1>2, <1>3, <2>2
       DEF ThreadInv, AlwaysInv, UnstompedInv, Owns, After, Marked, Joining, Polling
  <2> QED
    BY <1>3, <2>1, <2>2
<1>7. \A u \in Workers : u # w => ThreadInv(u)'
  BY <1>1, <1>3, OtherKeeps, SameBlocks DEF LifeInv, Moved
<1> QED
  BY <1>4, <1>5, <1>6, <1>7 DEF LifeInv

(* What the user of the handle does without writing to the block. *)
LEMMA UserKeeps ==
  ASSUME LifeInv, NEW w \in Workers, thread_join(w) \/ load_exited(w) \/ read_status(w)
  PROVE  LifeInv'
<1>1. UNCHANGED <<mem, at, creator, worker, stomped, wrote_late, freed, missed>>
  BY DEF thread_join, load_exited, read_status
<1>2. LifeTypeOK /\ OwnersInv /\ LateWrites /\ ThreadInv(w)
  BY DEF LifeInv
<1>3. OwnersInv' /\ LateWrites'
  BY <1>1, <1>2 DEF OwnersInv, LateWrites
<1>4. \A u \in Workers : u # w => user'[u] = user[u] /\ result'[u] = result[u]
  BY <1>2 DEF thread_join, load_exited, read_status, LifeTypeOK
<1>5. \A u \in Workers : u # w => ThreadInv(u)'
  BY <1>1, <1>4, OtherKeeps, SameBlocks DEF LifeInv, Moved
<1>6. CASE thread_join(w)
  <2>1. /\ creator[w] = "created" /\ user[w] \in {"none", "detached"} /\ Owns(w)
        /\ user' = [user EXCEPT ![w] =
                      IF mem[at[w]].detached THEN "einval" ELSE "load_exited"]
        /\ result' = result
    BY <1>6 DEF thread_join
  <2>2. PICK x \in {"einval", "load_exited"} :
          x = IF mem[at[w]].detached THEN "einval" ELSE "load_exited"
    OBVIOUS
  <2>3. user' = [user EXCEPT ![w] = x]
    BY <2>1, <2>2
  <2>4. LifeTypeOK' /\ user'[w] = x
    BY <1>1, <1>2, <2>1, <2>3 DEF LifeTypeOK
  <2>5. Owns(w)' <=> Owns(w)
    BY <1>1 DEF Owns
  <2>6. x = "load_exited" => ~mem[at[w]].detached
    BY <2>2
  <2>7. AlwaysInv(w)'
    BY <1>1, <1>2, <2>1, <2>4, <2>5 DEF ThreadInv, AlwaysInv
  <2>8. ASSUME w \notin stomped PROVE UnstompedInv(w)'
    <3>1. UnstompedInv(w)
      BY <1>2, <2>8 DEF ThreadInv
    <3>2. freed[w] = {}
      BY <1>2, <2>1 DEF ThreadInv, AlwaysInv
    <3> QED
      BY <1>1, <2>1, <2>4, <2>5, <2>6, <3>1, <3>2
         DEF UnstompedInv, Joining, Polling
  <2> QED
    BY <1>1, <1>3, <1>5, <2>4, <2>7, <2>8 DEF LifeInv, ThreadInv
<1>7. CASE load_exited(w)
  <2>1. /\ user[w] = "load_exited" /\ result' = result
        /\ user' = [user EXCEPT ![w] =
                      IF mem[at[w]].exited THEN "read_status" ELSE "wait_exited"]
    BY <1>7 DEF load_exited
  <2>2. PICK x \in {"read_status", "wait_exited"} :
          x = IF mem[at[w]].exited THEN "read_status" ELSE "wait_exited"
    OBVIOUS
  <2>3. user' = [user EXCEPT ![w] = x]
    BY <2>1, <2>2
  <2>4. LifeTypeOK' /\ user'[w] = x
    BY <1>1, <1>2, <2>1, <2>3 DEF LifeTypeOK
  <2>5. Owns(w)' <=> Owns(w)
    BY <1>1 DEF Owns
  <2>6. x = "read_status" => mem[at[w]].exited
    BY <2>2
  <2>7. AlwaysInv(w)'
    BY <1>1, <1>2, <2>1, <2>4, <2>5 DEF ThreadInv, AlwaysInv
  <2>8. ASSUME w \notin stomped PROVE UnstompedInv(w)'
    <3>1. UnstompedInv(w)
      BY <1>2, <2>8 DEF ThreadInv
    <3>2. creator[w] = "created" /\ user[w] \in Joining
      BY <1>2, <2>1 DEF ThreadInv, AlwaysInv, Joining, Polling
    <3>3. freed[w] = {} /\ Owns(w) /\ ~mem[at[w]].detached
      BY <3>1, <3>2 DEF UnstompedInv
    <3>4. x = "read_status" => worker[w] \in Marked
      BY <2>6, <3>1, <3>3 DEF UnstompedInv
    <3> QED
      BY <1>1, <2>1, <2>4, <2>5, <3>1, <3>3, <3>4
         DEF UnstompedInv, Joining, Polling
  <2> QED
    BY <1>1, <1>3, <1>5, <2>4, <2>7, <2>8 DEF LifeInv, ThreadInv
<1>8. CASE read_status(w)
  <2>1. /\ user[w] = "read_status" /\ user' = [user EXCEPT ![w] = "join_destroy"]
        /\ result' = [result EXCEPT ![w] = mem[at[w]].exit_status]
    BY <1>8 DEF read_status
  <2>2. creator[w] # "none" /\ at[w] \in Addrs
    BY <1>2, <2>1, HasBlock DEF ThreadInv, AlwaysInv
  <2>3. mem[at[w]].exit_status \in Workers \cup {None}
    BY <1>2, <2>2 DEF LifeTypeOK
  <2>4. LifeTypeOK' /\ user'[w] = "join_destroy" /\ result'[w] = mem[at[w]].exit_status
    BY <1>1, <1>2, <2>1, <2>3 DEF LifeTypeOK
  <2>5. ThreadInv(w)'
    BY <1>1, <1>2, <2>1, <2>2, <2>4
       DEF ThreadInv, AlwaysInv, UnstompedInv, Owns, Marked, Joining, Polling
  <2> QED
    BY <1>3, <1>5, <2>4, <2>5 DEF LifeInv
<1> QED
  BY <1>6, <1>7, <1>8

(* pthread_detach sets the flag the exit looks at. *)
LEMMA DetachKeeps ==
  ASSUME LifeInv, NEW w \in Workers, pthread_detach(w)
  PROVE  LifeInv'
<1>1. /\ creator[w] = "created" /\ user[w] = "none" /\ Owns(w)
      /\ mem' = [mem EXCEPT ![at[w]].detached = TRUE]
      /\ user' = [user EXCEPT ![w] = "detached"]
      /\ missed' = IF worker[w] \in After /\ ~mem[at[w]].detached
                     THEN missed \cup {w} ELSE missed
      /\ UNCHANGED <<at, creator, worker, result, stomped, wrote_late, freed>>
  BY DEF pthread_detach, After
<1>2. LifeTypeOK /\ OwnersInv /\ LateWrites /\ ThreadInv(w) /\ at[w] \in Addrs
  BY <1>1, HasBlock DEF LifeInv
<1>3. mem[at[w]] \in [owner : Workers \cup {None}, detached : BOOLEAN, tid : BOOLEAN,
                      exited : BOOLEAN, exit_status : Workers \cup {None}]
  BY <1>2 DEF LifeTypeOK
<1>4. [mem[at[w]] EXCEPT !.detached = TRUE] =
        [owner |-> mem[at[w]].owner, detached |-> TRUE, tid |-> mem[at[w]].tid,
         exited |-> mem[at[w]].exited, exit_status |-> mem[at[w]].exit_status]
  <2>1. ASSUME NEW b PROVE [mem[at[w]] EXCEPT !.detached = b] =
              [owner |-> mem[at[w]].owner, detached |-> b, tid |-> mem[at[w]].tid,
               exited |-> mem[at[w]].exited, exit_status |-> mem[at[w]].exit_status]
    BY SMTT(30), <1>3
  <2> QED
    BY <2>1
<1>5. mem' = [mem EXCEPT ![at[w]] =
                [owner |-> mem[at[w]].owner, detached |-> TRUE, tid |-> mem[at[w]].tid,
                 exited |-> mem[at[w]].exited, exit_status |-> mem[at[w]].exit_status]]
  BY <1>1, <1>4
<1>6. mem' \in [Addrs -> [owner : Workers \cup {None}, detached : BOOLEAN, tid : BOOLEAN,
                          exited : BOOLEAN, exit_status : Workers \cup {None}]]
  BY <1>2, <1>3, <1>5 DEF LifeTypeOK
<1>7. /\ \A a \in Addrs : /\ mem'[a].owner = mem[a].owner
                          /\ a # at[w] => mem'[a] = mem[a]
                          /\ mem'[a].exited = mem[a].exited
                          /\ mem'[a].exit_status = mem[a].exit_status
      /\ mem'[at[w]].detached
  BY <1>2, <1>5 DEF LifeTypeOK
<1>8. LifeTypeOK'
  <2>1. missed' \subseteq Workers /\ missed \subseteq missed'
    BY <1>1, <1>2 DEF LifeTypeOK
  <2> QED
    BY <1>1, <1>2, <1>6, <2>1 DEF LifeTypeOK
<1>9. OwnersInv' /\ LateWrites'
  BY SMTT(30), <1>1, <1>2, <1>7 DEF OwnersInv, LateWrites
<1>10. \A u \in Workers : Owns(u)' <=> Owns(u)
  BY SMTT(30), <1>1, <1>2, <1>7 DEF Owns, LifeTypeOK
<1>11. user'[w] = "detached" /\ \A u \in Workers : u # w => user'[u] = user[u]
  BY <1>1, <1>2 DEF LifeTypeOK
<1>12. ThreadInv(w)'
  <2>1. worker[w] \in After => w \in missed'
    BY <1>1, <1>2 DEF ThreadInv, AlwaysInv
  <2> QED
    BY SMTT(30), <1>1, <1>2, <1>7, <1>10, <1>11, <2>1
       DEF ThreadInv, AlwaysInv, UnstompedInv, Marked, Joining, Polling
<1>13. ASSUME NEW u \in Workers, u # w PROVE ThreadInv(u)'
  <2>1. Moved(u)
    BY <1>1, <1>11, <1>13 DEF Moved
  <2>2. BlockKept(u)
    <3>1. Owns(u) => at[u] \in Addrs /\ at[u] # at[w]
      BY <1>1, <1>2, <1>13 DEF Owns, LifeTypeOK
    <3> QED
      BY <1>7, <1>10, <3>1 DEF BlockKept
  <2> QED
    BY <1>1, <2>1, <2>2, OtherKeeps DEF LifeInv
<1> QED
  BY <1>8, <1>9, <1>12, <1>13 DEF LifeInv

(* Every step keeps the invariant. *)
LEMMA LifeNextKeeps == LifeInv /\ [LifeNext]_lifeVars => LifeInv'
<1> SUFFICES ASSUME LifeInv, [LifeNext]_lifeVars PROVE LifeInv'
  OBVIOUS
<1>1. CASE UNCHANGED lifeVars
  BY <1>1, MoveKeeps DEF lifeVars, LifeInv, LifeTypeOK, Moved
<1>2. ASSUME NEW w \in Workers, NEW d \in BOOLEAN, thread_create(w, d) PROVE LifeInv'
  BY <1>2, CreateKeepsLife
<1>3. ASSUME NEW w \in Workers, thread_join(w) \/ pthread_detach(w) PROVE LifeInv'
  BY <1>3, UserKeeps, DetachKeeps
<1>4. ASSUME NEW w \in Workers, Creator(w) PROVE LifeInv'
  BY <1>4, CloneKeeps, ReleaseKeeps, TidKeeps, WakeTidKeeps DEF Creator
<1>5. ASSUME NEW w \in Workers, Worker(w) PROVE LifeInv'
  BY <1>5, MovesKeep, ExitKeeps, ReleaseKeeps, RecordKeeps, WakeJoinerKeeps DEF Worker
<1>6. ASSUME NEW w \in Workers, Joiner(w) \/ Interrupt(w) PROVE LifeInv'
  BY <1>6, MovesKeep, UserKeeps, ReleaseKeeps DEF Joiner, Interrupt
<1> QED
  BY <1>1, <1>2, <1>3, <1>4, <1>5, <1>6 DEF LifeNext

(* The invariant holds always. *)
LEMMA LifeAlways == LifeSpec => []LifeInv
BY LifeStart, LifeNextKeeps, PTL DEF LifeSpec

(* thread_join hands on the value of the thread it joins, for any number   *)
(* of threads and any reuse of their blocks by the allocator, unless a     *)
(* thread that released its own block has written over this one.           *)
THEOREM JoinsRight == LifeSpec => []JoinGetsStatus
<1>1. LifeInv => JoinGetsStatus
  BY DEF LifeInv, ThreadInv, UnstompedInv, JoinGetsStatus
<1> QED
  BY LifeAlways, <1>1, PTL

(* A block is released once, by the call that should, never while another  *)
(* thread owns it, and it is not left behind, with the exceptions that     *)
(* BlocksReleased names.                                                   *)
THEOREM ReleasesRight == LifeSpec => []BlocksReleased
<1>1. LifeInv => BlocksReleased
  <2> SUFFICES ASSUME LifeInv PROVE BlocksReleased
    OBVIOUS
  <2>1. ASSUME NEW w \in Workers \ stomped
        PROVE  Cardinality(freed[w]) <= 1 /\ "foreign" \notin freed[w]
    <3>1. freed[w] \in {{}, {"create"}, {"exit"}, {"join"}}
      BY <2>1 DEF LifeInv, ThreadInv, UnstompedInv
    <3>2. Cardinality(freed[w]) = 0 \/ Cardinality(freed[w]) = 1
      BY <3>1, FS_EmptySet, FS_Singleton
    <3>3. Cardinality(freed[w]) <= 1
      BY SMTT(30), <3>2
    <3> QED
      BY <3>1, <3>3
  <2>2. NoLeak
    <3> SUFFICES ASSUME NEW w \in Workers, worker[w] = "gone",
                        user[w] \in {"joined", "detached"}, Owns(w)
                 PROVE  w \in missed
      BY DEF NoLeak
    <3> QED
      BY DEF LifeInv, ThreadInv, AlwaysInv, After
  <2> QED
    BY <2>1, <2>2 DEF BlocksReleased, FreesItsOwn, LifeInv
<1> QED
  BY LifeAlways, <1>1, PTL
=============================================================================
