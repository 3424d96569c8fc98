-------------------------- MODULE ProcessHandlers ---------------------------
(***************************************************************************)
(* The handlers a process runs when it exits and when it forks.            *)
(***************************************************************************)
EXTENDS Naturals, FiniteSets, SequencesExt

-----------------------------------------------------------------------------
(***************************************************************************)
(* The end of a process: the blocks of handlers of atexit and              *)
(* at_quick_exit, run_exit_handlers, exit and quick_exit of                *)
(* src/ansi/stdlib.cpp, and before them the destructors of thread-local    *)
(* objects of src/glibc/cxx.cpp.  A behaviour uses one of the two lists of *)
(* handlers; they differ in that exit runs the thread-local destructors    *)
(* and releases the lock before it ends the process.  Handlers and         *)
(* destructors are numbered in the order of registration.                  *)
(***************************************************************************)

CONSTANTS ExitThreads, NoThread,
          BlockSize,     \* handlers in a block (8)
          MaxHandlers,   \* bound: handlers registered
          MaxTls         \* bound: destructors registered by a thread

ASSUME ExitConstants == BlockSize \in Nat \ {0}

VARIABLES
  quick,      \* whether this is the list of at_quick_exit
  blocks,     \* the blocks, newest first
  atexit_lock,  \* holder of the lock around them
  ex,         \* per thread: where it is, its block and index in the walk
  tl,         \* per thread: DESTRUCTOR_LIST, its state and the walk's index
  handlers,   \* number registered so far
  ran,        \* history: handlers run, in order, with the number that were
              \* registered when it ran
  tl_ran,     \* history: per thread, destructors run, in order
  tl_begun,   \* history: per thread, the number there were at the walk
  reentered   \* history: threads that called back from a handler

exitVars == <<quick, blocks, atexit_lock, ex, tl, handlers, ran, tl_ran,
              tl_begun, reentered>>

ExitInit ==
  /\ quick \in BOOLEAN
  /\ blocks = <<<<>>>>
  /\ atexit_lock = NoThread
  /\ ex = [t \in ExitThreads |-> [pc |-> "run", block |-> 1, i |-> 0]]
  /\ tl = [t \in ExitThreads |-> [list |-> <<>>, state |-> "none", i |-> 0]]
  /\ handlers = 0 /\ ran = <<>>
  /\ tl_ran = [t \in ExitThreads |-> <<>>]
  /\ tl_begun = [t \in ExitThreads |-> 0]
  /\ reentered = {}

Alive == \A t \in ExitThreads : ex[t].pc # "ended"
ExAt(t, pc) == Alive /\ ex[t].pc = pc
Goto(t, pc) == ex' = [ex EXCEPT ![t].pc = pc]
tlAll == <<tl, tl_ran, tl_begun>>

-----------------------------------------------------------------------------
(* __cxa_atexit, at_quick_exit *)

WithHandler(bs, h) ==
  IF Len(bs[1]) = BlockSize THEN <<<<h>>>> \o bs ELSE [bs EXCEPT ![1] = Append(@, h)]

exit_register(t) ==
  /\ ExAt(t, "run") /\ atexit_lock = NoThread /\ handlers < MaxHandlers
  /\ handlers' = handlers + 1
  /\ blocks' = WithHandler(blocks, handlers + 1)
  /\ UNCHANGED <<quick, atexit_lock, ex, ran, tlAll, reentered>>

-----------------------------------------------------------------------------
(* Destructors of thread-local objects *)

(* __cxa_thread_atexit_impl, from the program, a destructor or a handler;  *)
(* pushing onto a list that was destroyed is undefined and not followed.   *)
tl_register(t) ==
  /\ Alive /\ ex[t].pc \in {"run", "dtor"}
  /\ tl[t].state # "destroyed" /\ Len(tl[t].list) < MaxTls
  /\ tl' = [tl EXCEPT ![t].list = Append(@, Len(@) + 1), ![t].state = "live"]
  /\ UNCHANGED <<quick, blocks, atexit_lock, ex, handlers, ran, tl_ran, tl_begun,
                 reentered>>

(* call_cxx_tls_destructors begins: the walk goes from the present end. *)
TlWalk(t) ==
  /\ tl' = [tl EXCEPT ![t].i = Len(tl[t].list)]
  /\ tl_begun' = [tl_begun EXCEPT ![t] = Len(tl[t].list)]
  /\ ex' = [ex EXCEPT ![t].pc = IF tl[t].state = "live" THEN "tls" ELSE "lock"]

exit_call(t) ==
  /\ ExAt(t, "run")
  /\ IF quick THEN Goto(t, "lock") /\ UNCHANGED <<tl, tl_begun>> ELSE TlWalk(t)
  /\ UNCHANGED <<quick, blocks, atexit_lock, handlers, ran, tl_ran, reentered>>

tl_next(t) ==
  /\ ExAt(t, "tls")
  /\ IF tl[t].i > 0
       THEN /\ tl_ran' = [tl_ran EXCEPT ![t] = Append(@, tl[t].list[tl[t].i])]
            /\ Goto(t, "dtor") /\ UNCHANGED tl
       ELSE /\ tl' = [tl EXCEPT ![t].state = "destroyed"]
            /\ Goto(t, "lock") /\ UNCHANGED tl_ran
  /\ UNCHANGED <<quick, blocks, atexit_lock, handlers, ran, tl_begun, reentered>>

tl_return(t) ==
  /\ ExAt(t, "dtor")
  /\ tl' = [tl EXCEPT ![t].i = @ - 1]
  /\ Goto(t, "tls")
  /\ UNCHANGED <<quick, blocks, atexit_lock, handlers, ran, tl_ran, tl_begun,
                 reentered>>

(* A destructor calls exit: the list is walked again from its end. *)
tl_exits(t) ==
  /\ ExAt(t, "dtor") /\ t \notin reentered
  /\ TlWalk(t)
  /\ reentered' = reentered \cup {t}
  /\ UNCHANGED <<quick, blocks, atexit_lock, handlers, ran, tl_ran>>

-----------------------------------------------------------------------------
(* run_exit_handlers: the lock is held while the handlers run. *)

exit_take_lock(t) ==
  /\ ExAt(t, "lock") /\ atexit_lock = NoThread
  /\ atexit_lock' = t
  /\ ex' = [ex EXCEPT ![t] = [pc |-> "walk", block |-> 1, i |-> Len(blocks[1])]]
  /\ UNCHANGED <<quick, blocks, handlers, ran, tlAll, reentered>>

(* Mutant: the next block starts where this one did. *)
NextBlockIndexKept(t) == Len(blocks[1])

NextBlockIndex(t) == Len(blocks[ex[t].block + 1])

(* The next handler, the next block, or the end: the list is reset. *)
exit_walk(t) ==
  /\ ExAt(t, "walk")
  /\ CASE ex[t].i > 0 ->
            /\ ran' = Append(ran, [id |-> blocks[ex[t].block][ex[t].i], of |-> handlers])
            /\ Goto(t, "handler")
            /\ UNCHANGED <<blocks, atexit_lock>>
       [] ex[t].i = 0 /\ ex[t].block < Len(blocks) ->
            /\ ex' = [ex EXCEPT ![t].block = @ + 1, ![t].i = NextBlockIndex(t)]
            /\ UNCHANGED <<blocks, atexit_lock, ran>>
       [] OTHER ->
            /\ blocks' = <<<<>>>>
            /\ atexit_lock' = IF quick THEN t ELSE NoThread
            /\ Goto(t, "finish")
            /\ UNCHANGED ran
  /\ UNCHANGED <<quick, handlers, tlAll, reentered>>

exit_handler_returns(t) ==
  /\ ExAt(t, "handler")
  /\ ex' = [ex EXCEPT ![t].pc = "walk", ![t].i = @ - 1]
  /\ UNCHANGED <<quick, blocks, atexit_lock, handlers, ran, tlAll, reentered>>

(* A handler registers another or calls exit: it waits for the lock its    *)
(* own thread holds.                                                       *)
exit_handler_reenters(t) ==
  /\ ExAt(t, "handler")
  /\ Goto(t, "stuck")
  /\ reentered' = reentered \cup {t}
  /\ UNCHANGED <<quick, blocks, atexit_lock, handlers, ran, tlAll>>

(* __dlapi_destroy, sys_exit *)
exit_finish(t) ==
  /\ ExAt(t, "finish")
  /\ Goto(t, "ended")
  /\ UNCHANGED <<quick, blocks, atexit_lock, handlers, ran, tlAll, reentered>>

ExitStep(t) == \/ tl_next(t) \/ tl_return(t) \/ exit_take_lock(t)
               \/ exit_walk(t) \/ exit_handler_returns(t) \/ exit_finish(t)

ExitNext == \E t \in ExitThreads :
              \/ ExitStep(t) \/ exit_register(t) \/ tl_register(t)
              \/ exit_call(t) \/ tl_exits(t) \/ exit_handler_reenters(t)

(* A thread that runs gets to run. *)
ExitFairness == \A t \in ExitThreads : WF_exitVars(ExitStep(t))


-----------------------------------------------------------------------------

(* The blocks, oldest handler first. *)
Registered == FlattenSeq(Reverse(blocks))

(* While nobody walks them, the blocks hold exactly the handlers that were *)
(* registered and did not run, in the order of registration: none is lost  *)
(* at a block's end, none runs a second time when a second thread exits.   *)
BlocksAreStack ==
  atexit_lock = NoThread =>
    Registered = SelectSeq([h \in 1..handlers |-> h],
                           LAMBDA h : \A i \in DOMAIN ran : ran[i].id # h)

(* Handlers run once each, and the last one registered first; one that     *)
(* runs after an earlier one was registered when the walk of that one was  *)
(* over, by a thread that was waiting for the lock.                        *)
HandlersLifo ==
  \A i, j \in DOMAIN ran :
    i < j => ran[i].id > ran[j].id \/ ran[j].id > ran[i].of

(* When a thread's destructors have been run, each one that was registered *)
(* before has run once, the last one first -- but for a destructor that    *)
(* calls exit, which starts the walk anew.  One registered by a destructor *)
(* never runs.                                                             *)
DestructorsRun ==
  \A t \in ExitThreads :
    tl[t].state = "destroyed" /\ t \notin reentered =>
      tl_ran[t] = [k \in 1..tl_begun[t] |-> tl_begun[t] + 1 - k]

(* A thread that calls exit ends the process, unless some handler          *)
(* registers a handler or calls exit itself.                               *)
ProcessEnds ==
  \A t \in ExitThreads :
    (ex[t].pc \in {"tls", "lock"}) ~>
      (~Alive \/ \E u \in ExitThreads : ex[u].pc = "stuck")

-----------------------------------------------------------------------------
(***************************************************************************)
(* fork of src/posix/unistd.cpp with the handlers of pthread_atfork, kept  *)
(* by src/lsb/fork.cpp in a list behind a mutex.  The mutex is held while  *)
(* one kind of handlers runs, and is free while the process is copied, so  *)
(* other threads register and fork in between; the child's copy of it is   *)
(* held forever when another thread held it at the copy.  A thread's       *)
(* handlers run one per step.  A handler is the typical one: prepare takes *)
(* something, parent and child give it back.                               *)
(***************************************************************************)

CONSTANTS ForkThreads, NoForker,
          MaxAtFork,    \* bound: handlers registered
          MaxForks,     \* bound: calls of fork
          MaxForkFails  \* bound: forks that fail

VARIABLES
  at_fork,       \* AT_FORK: handlers, numbered by registration
  fork_lock,     \* holder of LOCK
  fk,            \* per thread: where it is and the index in the walk
  child,         \* the child followed: its lock, list, index, and where it is
  taken,         \* history: per thread, handlers prepared by its fork
  given_back,         \* history: per thread, handlers whose parent ran after it
  fork_failed,   \* history: handlers left prepared by a fork that failed
  late,          \* history: handlers registered while a fork was going on
  forks, fork_fails

forkVars == <<at_fork, fork_lock, fk, child, taken, given_back, fork_failed, late,
              forks, fork_fails>>

ForkInit ==
  /\ at_fork = <<>> /\ fork_lock = NoForker
  /\ fk = [t \in ForkThreads |-> [pc |-> "run", i |-> 0]]
  /\ child = [pc |-> "none", stuck |-> FALSE, i |-> 0, list |-> <<>>,
              taken |-> {}, given |-> {}]
  /\ taken = [t \in ForkThreads |-> {}] /\ given_back = [t \in ForkThreads |-> {}]
  /\ fork_failed = {} /\ late = {}
  /\ forks = 0 /\ fork_fails = 0

FkAt(t, pc) == fk[t].pc = pc
FkGo(t, pc, i) == fk' = [fk EXCEPT ![t] = [pc |-> pc, i |-> i]]
Forking(t) == ~FkAt(t, "run") /\ ~FkAt(t, "push")

-----------------------------------------------------------------------------
(* __register_atfork, in the two steps another thread's fork can separate *)

atfork_lock(t) ==
  /\ FkAt(t, "run") /\ fork_lock = NoForker /\ Len(at_fork) < MaxAtFork
  /\ fork_lock' = t
  /\ FkGo(t, "push", 0)
  /\ UNCHANGED <<at_fork, child, taken, given_back, fork_failed, late, forks, fork_fails>>

atfork_push(t) ==
  /\ FkAt(t, "push")
  /\ at_fork' = Append(at_fork, Len(at_fork) + 1)
  /\ late' = IF \E u \in ForkThreads : Forking(u)
               THEN late \cup {Len(at_fork) + 1} ELSE late
  /\ fork_lock' = NoForker
  /\ FkGo(t, "run", 0)
  /\ UNCHANGED <<child, taken, given_back, fork_failed, forks, fork_fails>>

-----------------------------------------------------------------------------
(* fork *)

fork(t) ==
  /\ FkAt(t, "run") /\ forks < MaxForks
  /\ forks' = forks + 1
  /\ taken' = [taken EXCEPT ![t] = {}] /\ given_back' = [given_back EXCEPT ![t] = {}]
  /\ FkGo(t, "prepare_lock", 0)
  /\ UNCHANGED <<at_fork, fork_lock, child, fork_failed, late, fork_fails>>

prepare_lock(t) ==
  /\ FkAt(t, "prepare_lock") /\ fork_lock = NoForker
  /\ fork_lock' = t
  /\ FkGo(t, "prepare", Len(at_fork))
  /\ UNCHANGED <<at_fork, child, taken, given_back, fork_failed, late, forks, fork_fails>>

call_atfork_prepare(t) ==
  /\ FkAt(t, "prepare")
  /\ IF fk[t].i > 0
       THEN /\ taken' = [taken EXCEPT ![t] = @ \cup {at_fork[fk[t].i]}]
            /\ FkGo(t, "prepare", fk[t].i - 1) /\ UNCHANGED fork_lock
       ELSE /\ fork_lock' = NoForker
            /\ FkGo(t, "sys_fork", 0) /\ UNCHANGED taken
  /\ UNCHANGED <<at_fork, child, given_back, fork_failed, late, forks, fork_fails>>

(* The child has the list and the lock as they are now, and one thread. *)
ChildCopy(t) ==
  [pc |-> "lock", stuck |-> fork_lock # NoForker, i |-> 0, list |-> at_fork,
   taken |-> taken[t], given |-> {}]

(* One child is followed at a time: the next one after it reached the
   program. *)
sys_fork(t) ==
  /\ FkAt(t, "sys_fork")
  /\ child' = IF child.pc \in {"none", "run"} THEN ChildCopy(t) ELSE child
  /\ FkGo(t, "parent_lock", 0)
  /\ UNCHANGED <<at_fork, fork_lock, taken, given_back, fork_failed, late, forks,
                 fork_fails>>

(* The error path returns without the parent's handlers. *)
sys_fork_fails(t) ==
  /\ FkAt(t, "sys_fork") /\ fork_fails < MaxForkFails
  /\ fork_fails' = fork_fails + 1
  /\ fork_failed' = fork_failed \cup taken[t]
  /\ FkGo(t, "run", 0)
  /\ taken' = [taken EXCEPT ![t] = {}]
  /\ UNCHANGED <<at_fork, fork_lock, child, given_back, late, forks>>

parent_lock(t) ==
  /\ FkAt(t, "parent_lock") /\ fork_lock = NoForker
  /\ fork_lock' = t
  /\ FkGo(t, "parent", 1)
  /\ UNCHANGED <<at_fork, child, taken, given_back, fork_failed, late, forks, fork_fails>>

call_atfork_parent(t) ==
  /\ FkAt(t, "parent")
  /\ IF fk[t].i <= Len(at_fork)
       THEN /\ given_back' = [given_back EXCEPT ![t] = @ \cup {at_fork[fk[t].i]}]
            /\ FkGo(t, "parent", fk[t].i + 1) /\ UNCHANGED fork_lock
       ELSE /\ fork_lock' = NoForker
            /\ FkGo(t, "run", 0) /\ UNCHANGED given_back
  /\ UNCHANGED <<at_fork, child, taken, fork_failed, late, forks, fork_fails>>

(* LOCK.lock() of call_atfork_child, in the child. *)
child_lock ==
  /\ child.pc = "lock" /\ ~child.stuck
  /\ child' = [child EXCEPT !.pc = "child", !.i = 1]
  /\ UNCHANGED <<at_fork, fork_lock, fk, taken, given_back, fork_failed, late, forks,
                 fork_fails>>

call_atfork_child ==
  /\ child.pc = "child"
  /\ child' = IF child.i <= Len(child.list)
                THEN [child EXCEPT !.given = @ \cup {child.list[child.i]}, !.i = @ + 1]
                ELSE [child EXCEPT !.pc = "run"]
  /\ UNCHANGED <<at_fork, fork_lock, fk, taken, given_back, fork_failed, late, forks,
                 fork_fails>>

ForkStep(t) == \/ atfork_push(t) \/ prepare_lock(t) \/ call_atfork_prepare(t)
               \/ sys_fork(t) \/ parent_lock(t) \/ call_atfork_parent(t)

ForkNext ==
  \/ child_lock \/ call_atfork_child
  \/ \E t \in ForkThreads : \/ ForkStep(t) \/ atfork_lock(t) \/ fork(t)
                            \/ sys_fork_fails(t)

ForkFairness == /\ WF_forkVars(child_lock \/ call_atfork_child)
                /\ \A t \in ForkThreads : WF_forkVars(ForkStep(t))

-----------------------------------------------------------------------------

(* A fork that succeeds gives back, in the parent, everything its prepare  *)
(* handlers took, and gives back something not taken only for a handler    *)
(* that was registered while some fork was going on.                       *)
ParentGivesBack ==
  \A t \in ForkThreads :
    FkAt(t, "run") /\ given_back[t] # {} =>
      taken[t] \subseteq given_back[t] /\ given_back[t] \ taken[t] \subseteq late

(* The same in the child, whose handlers come from the list as it was when *)
(* the process was copied.                                                 *)
ChildGivesBack ==
  child.pc = "run" =>
    child.taken \subseteq child.given /\ child.given \ child.taken \subseteq late

(* A child reaches the program, unless another thread of the parent held   *)
(* the lock at the copy: then the child waits forever for a thread it does *)
(* not have.                                                               *)
ChildReturns == child.pc = "lock" /\ ~child.stuck ~> child.pc = "run"

(* A child finds the lock held only when another thread was registering    *)
(* handlers or forking at the same time.                                   *)
ChildStuckOnlyByOther ==
  [][child'.stuck /\ child' # child =>
       \E u \in ForkThreads : fork_lock = u /\ fk[u].pc \in {"push", "prepare", "parent"}
                              /\ fk'[u] = fk[u]]_forkVars

(* Every handler of exit runs once and the last one first, none is lost at *)
(* the end of a block, and the destructors of a thread run likewise.       *)
ExitHandlersRun == BlocksAreStack /\ HandlersLifo /\ DestructorsRun

(* Parent and child give back what the prepare handlers took. *)
ForkGivesBack == ParentGivesBack /\ ChildGivesBack
=============================================================================
