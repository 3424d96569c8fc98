---------------------------- MODULE ChildProcess ----------------------------
(***************************************************************************)
(* system of src/ansi/stdlib.cpp, popen and pclose of src/posix/stdio.cpp: *)
(* the dispositions of the signals they ignore for the process while the   *)
(* calling thread's SIGCHLD is blocked, the children they fork, and the    *)
(* pipes the children inherit.  SIGINT stands for SIGINT and SIGQUIT,      *)
(* which are saved and restored side by side.  Every popen is for writing: *)
(* its child ends when it reads the end of its pipe, when nobody holds the *)
(* writing end; the child of system ends by itself.  Pipes are numbered in *)
(* the order they are made.  The `e' of a popen mode sets no close-on-exec *)
(* flag (F_SETFD is given O_CLOEXEC), so every child forked while the      *)
(* process has the writing end of a pipe inherits it: while a popen stream *)
(* is open, and before that between the pipe and the fork of its popen.    *)
(***************************************************************************)
EXTENDS Naturals, FiniteSets, Sequences

CONSTANTS ProcThreads,
          MaxChildren,    \* bound: children forked
          MaxInterrupts,  \* bound: interrupted waits
          MaxReaped,      \* bound: children waited for by the program itself
          MaxPipeFails    \* bound: pipes and forks that fail

ASSUME ChildConstants == MaxChildren \in Nat

VARIABLES
  sigint,      \* the process' disposition of SIGINT
  blocked,     \* per thread: whether SIGCHLD is blocked
  cp,          \* per thread: the call, where it is, the disposition and the
               \* mask it saved, its pipe, its child, whether its wait failed
  procs,       \* the children, in the order they were forked
  pipes,       \* pipes made
  writing,     \* the pipes whose writing ends the process has
  interrupts, reaped, pipe_fails,
  overlapped,  \* history: two calls were changing dispositions at a time
  leaked       \* history: threads whose popen found no pipe

childVars == <<sigint, blocked, cp, procs, pipes, writing, interrupts, reaped,
               pipe_fails, overlapped, leaked>>

IdleCall == [pc |-> "idle", call |-> "none", saved |-> "orig", mask |-> FALSE,
             pipe |-> 0, child |-> 0, failed |-> FALSE]

ChildInit ==
  /\ sigint = "orig" /\ blocked = [t \in ProcThreads |-> FALSE]
  /\ cp = [t \in ProcThreads |-> IdleCall]
  /\ procs = [c \in 1..MaxChildren |->
               [state |-> "none", kind |-> "none", pipe |-> 0, holds |-> {},
                ignores |-> FALSE, blocks |-> FALSE]]
  /\ pipes = 0 /\ writing = {}
  /\ interrupts = 0 /\ reaped = 0 /\ pipe_fails = 0
  /\ overlapped = FALSE /\ leaked = {}

CpAt(t, pc) == cp[t].pc = pc
CpGo(t, pc) == cp' = [cp EXCEPT ![t].pc = pc]
Changing(t) == cp[t].pc \in {"block", "pipe", "fork", "wait", "restore", "unblock"}
Forked == {c \in 1..MaxChildren : procs[c].state # "none"}
StateOf(c, s) == procs' = [procs EXCEPT ![c].state = s]
counts == <<interrupts, reaped, pipe_fails>>
ends == <<pipes, writing>>

-----------------------------------------------------------------------------
(* system and popen, until the fork *)

(* sigaction: the old disposition is kept in the call. *)
ignore_signals(t, call) ==
  /\ CpAt(t, "idle") /\ Cardinality(Forked) < MaxChildren
  /\ cp' = [cp EXCEPT ![t] = [@ EXCEPT !.pc = "block", !.call = call, !.saved = sigint]]
  /\ sigint' = "ign"
  /\ overlapped' = (overlapped \/ \E u \in ProcThreads : Changing(u))
  /\ UNCHANGED <<blocked, procs, ends, counts, leaked>>

(* sigprocmask: so is the old mask. *)
block_child(t) ==
  /\ CpAt(t, "block")
  /\ blocked' = [blocked EXCEPT ![t] = TRUE]
  /\ cp' = [cp EXCEPT ![t].pc = IF cp[t].call = "popen" THEN "pipe" ELSE "fork",
                      ![t].mask = blocked[t]]
  /\ UNCHANGED <<sigint, procs, ends, counts, overlapped, leaked>>

open_pipe(t) ==
  /\ CpAt(t, "pipe")
  /\ pipes' = pipes + 1
  /\ writing' = writing \cup {pipes + 1}
  /\ cp' = [cp EXCEPT ![t].pc = "fork", ![t].pipe = pipes + 1]
  /\ UNCHANGED <<sigint, blocked, procs, counts, overlapped, leaked>>

(* popen without a pipe returns at once and restores nothing. *)
pipe_fails_(t) ==
  /\ CpAt(t, "pipe") /\ pipe_fails < MaxPipeFails
  /\ pipe_fails' = pipe_fails + 1
  /\ leaked' = leaked \cup {t}
  /\ cp' = [cp EXCEPT ![t] = IdleCall]
  /\ UNCHANGED <<sigint, blocked, procs, ends, interrupts, reaped, overlapped>>

(* Mutant: a failing fork returns at once, too. *)
ForkFailsReturns(t) ==
  /\ CpAt(t, "fork") /\ pipe_fails < MaxPipeFails
  /\ pipe_fails' = pipe_fails + 1
  /\ cp' = [cp EXCEPT ![t] = IdleCall]
  /\ UNCHANGED <<sigint, blocked, procs, ends, interrupts, reaped, overlapped, leaked>>

(* popen closes its pipe; children forked since it was made keep it. *)
fork_fails_(t) ==
  /\ CpAt(t, "fork") /\ pipe_fails < MaxPipeFails
  /\ pipe_fails' = pipe_fails + 1
  /\ writing' = writing \ {cp[t].pipe}
  /\ CpGo(t, "restore")
  /\ UNCHANGED <<sigint, blocked, procs, pipes, interrupts, reaped, overlapped, leaked>>

(* The child sets the dispositions and the mask its parent saved, and      *)
(* closes the writing end of its own pipe.  It holds the other writing     *)
(* ends of the process.                                                    *)
ChildOf(t) == [state |-> "running", kind |-> cp[t].call, pipe |-> cp[t].pipe,
               holds |-> writing \ {cp[t].pipe},
               ignores |-> cp[t].saved = "ign", blocks |-> cp[t].mask]

fork_child(t) ==
  /\ CpAt(t, "fork") /\ Cardinality(Forked) < MaxChildren
  /\ LET c == Cardinality(Forked) + 1
     IN /\ procs' = [procs EXCEPT ![c] = ChildOf(t)]
        /\ cp' = [cp EXCEPT ![t].child = IF cp[t].call = "popen" THEN 0 ELSE c,
                            ![t].pc = IF cp[t].call = "popen" THEN "restore" ELSE "wait"]
  /\ UNCHANGED <<sigint, blocked, ends, counts, overlapped, leaked>>

(* No room for another child: the bound, taken as a failing fork. *)
fork_bound(t) ==
  /\ CpAt(t, "fork") /\ Cardinality(Forked) = MaxChildren
  /\ writing' = writing \ {cp[t].pipe}
  /\ CpGo(t, "restore")
  /\ UNCHANGED <<sigint, blocked, procs, pipes, counts, overlapped, leaked>>

-----------------------------------------------------------------------------
(* Waiting *)

(* EINTR: again. *)
wait_interrupted(t) ==
  /\ CpAt(t, "wait") /\ interrupts < MaxInterrupts
  /\ interrupts' = interrupts + 1
  /\ UNCHANGED <<sigint, blocked, cp, procs, ends, reaped, pipe_fails, overlapped, leaked>>

(* Mutant: the loop goes on although the child has been waited for. *)
WaitChildStays(t) ==
  /\ CpAt(t, "wait") /\ procs[cp[t].child].state = "exited"
  /\ StateOf(cp[t].child, "exited")
  /\ UNCHANGED <<sigint, blocked, cp, ends, counts, overlapped, leaked>>

wait_child(t) ==
  /\ CpAt(t, "wait") /\ procs[cp[t].child].state = "exited"
  /\ StateOf(cp[t].child, "reaped")
  /\ CpGo(t, "restore")
  /\ UNCHANGED <<sigint, blocked, ends, counts, overlapped, leaked>>

(* Any other error sets the status to -1 and the loop goes on: with the    *)
(* child gone the wait fails the same way for ever.                        *)
wait_fails(t) ==
  /\ CpAt(t, "wait") /\ procs[cp[t].child].state = "reaped"
  /\ cp' = [cp EXCEPT ![t].failed = TRUE]
  /\ UNCHANGED <<sigint, blocked, procs, ends, counts, overlapped, leaked>>

restore_signals(t) ==
  /\ CpAt(t, "restore")
  /\ sigint' = cp[t].saved
  /\ CpGo(t, "unblock")
  /\ UNCHANGED <<blocked, procs, ends, counts, overlapped, leaked>>

unblock(t) ==
  /\ CpAt(t, "unblock")
  /\ blocked' = [blocked EXCEPT ![t] = cp[t].mask]
  /\ cp' = [cp EXCEPT ![t] = IdleCall]
  /\ UNCHANGED <<sigint, procs, ends, counts, overlapped, leaked>>

(* pclose closes the stream, which popen has returned, then waits once: an *)
(* interrupted wait leaves the child.                                      *)
pclose(t, c) ==
  /\ CpAt(t, "idle") /\ procs[c].pipe \in writing
  /\ \A u \in ProcThreads : cp[u].pipe # procs[c].pipe
  /\ writing' = writing \ {procs[c].pipe}
  /\ cp' = [cp EXCEPT ![t] = [@ EXCEPT !.pc = "pclose", !.child = c]]
  /\ UNCHANGED <<sigint, blocked, procs, pipes, counts, overlapped, leaked>>

pclose_ends(t) ==
  /\ CpAt(t, "pclose") /\ procs[cp[t].child].state \in {"exited", "reaped"}
  /\ StateOf(cp[t].child, "reaped")
  /\ cp' = [cp EXCEPT ![t] = IdleCall]
  /\ UNCHANGED <<sigint, blocked, ends, counts, overlapped, leaked>>

pclose_interrupted(t) ==
  /\ CpAt(t, "pclose") /\ interrupts < MaxInterrupts
  /\ interrupts' = interrupts + 1
  /\ cp' = [cp EXCEPT ![t] = IdleCall]
  /\ UNCHANGED <<sigint, blocked, procs, ends, reaped, pipe_fails, overlapped, leaked>>

-----------------------------------------------------------------------------
(* The children and the program around them *)

(* A child of popen reads the end of its pipe once neither the process nor *)
(* a child that runs has the writing end.                                  *)
EndOfPipe(c) ==
  /\ procs[c].pipe \notin writing
  /\ \A d \in Forked : procs[d].state = "running" => procs[c].pipe \notin procs[d].holds

child_exits(c) ==
  /\ procs[c].state = "running"
  /\ procs[c].kind = "popen" => EndOfPipe(c)
  /\ StateOf(c, "exited")
  /\ UNCHANGED <<sigint, blocked, cp, ends, counts, overlapped, leaked>>

(* A child of popen ends before that: dup2 refuses to copy the reading end *)
(* onto itself when the process has no standard input, and __ensure stops  *)
(* the child; or its command does not read to the end.                     *)
child_stops(c) ==
  /\ procs[c].state = "running" /\ procs[c].kind = "popen"
  /\ StateOf(c, "exited")
  /\ UNCHANGED <<sigint, blocked, cp, ends, counts, overlapped, leaked>>

(* The program waits for any child, as a SIGCHLD handler does. *)
program_waits(c) ==
  /\ procs[c].state = "exited" /\ reaped < MaxReaped
  /\ reaped' = reaped + 1
  /\ StateOf(c, "reaped")
  /\ UNCHANGED <<sigint, blocked, cp, ends, interrupts, pipe_fails, overlapped, leaked>>

ChildStep(t) == \/ block_child(t) \/ open_pipe(t) \/ fork_child(t) \/ fork_bound(t)
                \/ wait_child(t) \/ restore_signals(t) \/ unblock(t) \/ pclose_ends(t)

ChildNext ==
  \/ \E t \in ProcThreads :
       \/ ChildStep(t)
       \/ \E call \in {"system", "popen"} : ignore_signals(t, call)
       \/ pipe_fails_(t) \/ fork_fails_(t) \/ wait_interrupted(t) \/ wait_fails(t)
       \/ pclose_interrupted(t)
       \/ \E c \in Forked : pclose(t, c)
  \/ \E c \in Forked : child_exits(c) \/ child_stops(c) \/ program_waits(c)

ChildSpec == ChildInit /\ [][ChildNext]_childVars

ChildFairness ==
  /\ \A t \in ProcThreads : WF_childVars(ChildStep(t)) /\ WF_childVars(wait_fails(t))
  /\ \A c \in 1..MaxChildren : WF_childVars(c \in Forked /\ child_exits(c))

-----------------------------------------------------------------------------

(* When no call is under way, SIGINT and SIGQUIT have the dispositions the *)
(* program gave them, unless two calls overlapped -- the second saves the  *)
(* dispositions of the first, and may restore them last -- or a popen found *)
(* no pipe.                                                                *)
DispositionsRestored ==
  (\A t \in ProcThreads : ~Changing(t)) /\ ~overlapped /\ leaked = {} => sigint = "orig"

(* A thread that is in no call has SIGCHLD as it was, unless its popen     *)
(* found no pipe.                                                          *)
MaskRestored == \A t \in ProcThreads : ~Changing(t) /\ blocked[t] => t \in leaked

(* A child starts with the dispositions of the program, unless two calls   *)
(* overlapped or a popen found no pipe before, and with SIGCHLD blocked    *)
(* only after such a popen.                                                *)
ChildDispositions ==
  \A c \in Forked : /\ procs[c].ignores => overlapped \/ leaked # {}
                    /\ procs[c].blocks => leaked # {}

(* system returns, unless the program has waited for its child behind its  *)
(* back (or ignores SIGCHLD): then it spins for ever.                      *)
SystemReturns ==
  \A t \in ProcThreads :
    CpAt(t, "wait") ~> ~CpAt(t, "wait") \/ cp[t].failed

(* pclose returns, unless another child was forked since the pipe was made *)
(* and holds its writing end.                                              *)
PcloseReturns ==
  \A t \in ProcThreads :
    CpAt(t, "pclose") ~>
      \/ ~CpAt(t, "pclose")
      \/ \E d \in Forked : procs[cp[t].child].pipe \in procs[d].holds

(* system leaves its wait only when its child has been waited for, however *)
(* often the wait was interrupted; no child of it is left behind.          *)
SystemReaps ==
  [][\A t \in ProcThreads :
       cp[t].pc = "wait" /\ cp'[t].pc # "wait" =>
         procs'[cp[t].child].state = "reaped"]_childVars

-----------------------------------------------------------------------------
(***************************************************************************)
(* posix_spawn of src/posix/spawn.cpp: the list of file actions, and the   *)
(* child that carries them out one by one on its descriptors before it     *)
(* executes the program.  Next to the child's table runs the one the file  *)
(* actions ask for.  dup2 is the system call dup3 (sys_dup2), which        *)
(* refuses to copy a descriptor onto itself.                               *)
(***************************************************************************)

CONSTANTS
  SpawnFds,     \* descriptors: 0..n
  SpawnBlock,   \* actions the first allocation has room for (8)
  MaxActions    \* bound: actions added

ASSUME SpawnConstants == SpawnFds \subseteq Nat /\ SpawnBlock \in Nat

VARIABLES
  actions,      \* __actions, of which __used are in use
  room,         \* actions there is memory for
  outside,      \* history: an action was stored outside that memory
  spawned,      \* the child: where it is, the next action
  table,        \* the child's descriptors, by what they refer to
  wanted,       \* the descriptors asked for
  opened,       \* history: descriptors that an open action left behind
  itself        \* history: a descriptor was to be copied onto itself

spawnVars == <<actions, room, outside, spawned, table, wanted, opened, itself>>

SpawnActionSet ==
  [type : {"open", "close"}, fd : SpawnFds, new_fd : {0}]
    \cup [type : {"dup2"}, fd : SpawnFds, new_fd : SpawnFds]

(* A descriptor refers to nothing, to what the parent had as f, or to the  *)
(* file of an open action for f.                                           *)
Nothing == 0
OldFile(f) == f + 1
NewFile(f) == 10 + f

SpawnInit ==
  /\ actions = <<>> /\ room = 0 /\ outside = FALSE
  /\ spawned = [pc |-> "none", i |-> 1]
  /\ table = [f \in SpawnFds |-> IF f < Cardinality(SpawnFds) - 2 THEN OldFile(f) ELSE Nothing]
  /\ wanted = table
  /\ opened = {} /\ itself = FALSE

-----------------------------------------------------------------------------
(* posix_spawn_file_actions_addopen, _addclose, _adddup2 *)

(* __allocated is never set, so only the first action finds __used equal   *)
(* to it and allocates.                                                    *)
Grown == IF actions = <<>> THEN SpawnBlock ELSE room

add_action(a) ==
  /\ spawned.pc = "none" /\ Len(actions) < MaxActions
  /\ actions' = Append(actions, a)
  /\ room' = Grown
  /\ outside' = (outside \/ Len(actions) + 1 > Grown)
  /\ UNCHANGED <<spawned, table, wanted, opened, itself>>

posix_spawn ==
  /\ spawned.pc = "none" /\ ~outside
  /\ spawned' = [spawned EXCEPT !.pc = "actions"]
  /\ UNCHANGED <<actions, room, outside, table, wanted, opened, itself>>

-----------------------------------------------------------------------------
(* The child *)

SpAction == actions[spawned.i]
CopiedOnto(tab, from, to) == [tab EXCEPT ![to] = tab[from]]
Advance == spawned' = [spawned EXCEPT !.i = @ + 1]
Fail == spawned' = [spawned EXCEPT !.pc = "exit"]

InChild(type) ==
  /\ spawned.pc = "actions" /\ spawned.i <= Len(actions)
  /\ SpAction.type = type

(* close, open at the lowest free descriptor, dup2; the descriptor of the  *)
(* open stays.                                                             *)
child_open ==
  /\ InChild("open")
  /\ LET closed == [table EXCEPT ![SpAction.fd] = Nothing]
         f == CHOOSE g \in SpawnFds : /\ closed[g] = Nothing
                                      /\ \A h \in SpawnFds : closed[h] = Nothing => g <= h
         filed == [closed EXCEPT ![f] = NewFile(SpAction.fd)]
     IN /\ wanted' = [wanted EXCEPT ![SpAction.fd] = NewFile(SpAction.fd)]
        /\ itself' = (itself \/ f = SpAction.fd)
        /\ IF f = SpAction.fd
             THEN Fail /\ table' = filed /\ UNCHANGED opened
             ELSE /\ Advance
                  /\ table' = CopiedOnto(filed, f, SpAction.fd)
                  /\ opened' = (opened \ {SpAction.fd}) \cup {f}
  /\ UNCHANGED <<actions, room, outside>>

child_close ==
  /\ InChild("close")
  /\ table' = [table EXCEPT ![SpAction.fd] = Nothing]
  /\ wanted' = [wanted EXCEPT ![SpAction.fd] = Nothing]
  /\ opened' = opened \ {SpAction.fd}
  /\ Advance
  /\ UNCHANGED <<actions, room, outside, itself>>

child_dup2 ==
  /\ InChild("dup2")
  /\ wanted' = CopiedOnto(wanted, SpAction.fd, SpAction.new_fd)
  /\ itself' = (itself \/ SpAction.fd = SpAction.new_fd)
  /\ IF table[SpAction.fd] = Nothing \/ SpAction.fd = SpAction.new_fd
       THEN Fail /\ UNCHANGED <<table, opened>>
       ELSE /\ table' = CopiedOnto(table, SpAction.fd, SpAction.new_fd)
            /\ opened' = IF SpAction.fd \in opened THEN opened \cup {SpAction.new_fd}
                         ELSE opened \ {SpAction.new_fd}
            /\ Advance
  /\ UNCHANGED <<actions, room, outside>>

(* An attribute cannot be set, the file of an open action not opened, or   *)
(* the program not executed.                                               *)
child_refused ==
  /\ spawned.pc = "actions"
  /\ spawned.i \in 2..Len(actions) => SpAction.type = "open"
  /\ spawned' = [spawned EXCEPT !.pc = "refused"]
  /\ UNCHANGED <<actions, room, outside, table, wanted, opened, itself>>

child_execve ==
  /\ spawned.pc = "actions" /\ spawned.i > Len(actions)
  /\ spawned' = [spawned EXCEPT !.pc = "program"]
  /\ UNCHANGED <<actions, room, outside, table, wanted, opened, itself>>

SpawnNext == \/ \E a \in SpawnActionSet : add_action(a)
             \/ posix_spawn \/ child_open \/ child_close \/ child_dup2
             \/ child_refused \/ child_execve

SpawnSpec == SpawnInit /\ [][SpawnNext]_spawnVars

-----------------------------------------------------------------------------

(* File actions are stored in memory that was allocated for them, up to    *)
(* the room of the first allocation (8); the ninth is stored outside it.   *)
ActionsFit == outside => Len(actions) > SpawnBlock

(* A program is started with the descriptors its file actions ask for, and *)
(* besides them only those that open actions left behind (or copies).      *)
StartsWithWanted ==
  spawned.pc = "program" =>
    \A f \in SpawnFds : table[f] = wanted[f] \/ (f \in opened)

(* A child whose actions can be carried out is not given up, unless one    *)
(* asks for a descriptor to be copied onto itself: which dup2 actions may  *)
(* do, and which happens to an open action when the descriptor it names is *)
(* the lowest free one after it is closed -- such an open never works.     *)
GivenUpOnlyFor ==
  spawned.pc = "exit" => itself \/ wanted[SpAction.new_fd] = Nothing

(* system and popen put back the signals they change and hand none of the  *)
(* changes to the child, and system leaves no child behind.                *)
SignalsPutBack ==
  [](DispositionsRestored /\ MaskRestored /\ ChildDispositions) /\ SystemReaps

(* A program started by posix_spawn has the descriptors its file actions   *)
(* ask for, and is given up only over a copy onto itself.                  *)
SpawnedAsAsked == ActionsFit /\ StartsWithWanted /\ GivenUpOnlyFor

(* Children start with the signals and descriptors they should have, and   *)
(* the parent gets its own back (system, popen, posix_spawn).              *)
ChildrenStartClean == SignalsPutBack /\ []SpawnedAsAsked
=============================================================================
