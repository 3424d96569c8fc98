------------------------------- MODULE Loader -------------------------------
(***************************************************************************)
(* Loading, initialising and unloading shared objects: start-up of         *)
(* src/rtld/main.cpp, __dlapi_open and __dlapi_exit of src/rtld/rtld.cpp   *)
(* and ObjectStorage of src/rtld/object_storage.cpp.                       *)
(*                                                                         *)
(* The loading of an object and of all it needs happens under the storage  *)
(* lock; constructors run after the lock is released, on a list that was   *)
(* moved out of the storage, and may themselves open objects.  Objects are *)
(* numbered in the order they are mapped, so that a file that is loaded,   *)
(* discarded and loaded again is two objects.  Using one that is destroyed *)
(* is undefined: the model records it and stops.                           *)
(***************************************************************************)
EXTENDS Naturals, FiniteSets, SequencesExt

CONSTANTS Names,        \* files that may be opened or needed
          Graphs,       \* DT_NEEDED lists of the executable and of each file
          Threads, Main,
          MaxObjects,   \* bound: objects mapped during a behaviour
          MaxFailures,  \* bound: files that cannot be loaded
          MaxNesting,   \* bound: dlopen within a constructor
          None

ASSUME LoaderConstants ==
  /\ Main \in Threads
  /\ None \notin Threads \cup Names
  /\ MaxObjects \in Nat /\ MaxObjects >= 2

Ids  == 1..MaxObjects
Exe  == 1
Libc == 2

VARIABLES
  needs,          \* DT_NEEDED of the executable (under Exe) and of each file
  obj,            \* each SharedObject
  objects, global_scope, init_list, destruct_list,   \* ObjectStorage
  debug,          \* the list the debugger walks: head, end, next, prev
  storage,        \* holder of OBJECT_STORAGE->lock
  loading,        \* the locals of load_dependencies
  frames,         \* per thread, the constructor loops it is in
  exiting,        \* the thread in exit and where it is
  registered,     \* times __dlapi_exit was given to __cxa_atexit
  inits, relocs,  \* history: run_init and relocate calls per object
  loader_of,      \* history: the object each one was loaded for
  failures, nested, ub, ended

lists == <<objects, global_scope, init_list, destruct_list>>
run == <<frames, exiting, registered, ended>>
hist == <<inits, relocs, loader_of, failures, nested>>

vars == <<needs, obj, objects, global_scope, init_list, destruct_list, debug,
          storage, loading, frames, exiting, registered, inits, relocs,
          loader_of, failures, nested, ub, ended>>

-----------------------------------------------------------------------------

Mapped == {i \in Ids : obj[i].state # "unused"}
Live(i) == obj[i].state = "live"
Next_id == Cardinality(Mapped) + 1

Blank == [name |-> None, state |-> "unused", dependencies |-> <<>>,
          local_scope |-> <<>>, initialized |-> FALSE, destructed |-> FALSE]

Running == ended = "no" /\ ub \subseteq {"debug_end"}
Idle == [by |-> None, list |-> <<>>, object |-> None, needed |-> <<>>,
         start |-> None, global |-> FALSE, origin |-> None]
NoExit == [by |-> None, pc |-> "no", i |-> 0]

add_object_to_debug_list(d, i) ==
  IF d.end # None
    THEN [d EXCEPT !.prev[i] = d.end, !.next[d.end] = i, !.end = i]
    ELSE [d EXCEPT !.head = i, !.end = i]

(* `end' stays where it is, also when it is the object that goes. *)
remove_object_from_debug_list(d, i) ==
  LET p == d.prev[i]
      n == d.next[i]
      e == IF p # None THEN [d EXCEPT !.next[p] = n] ELSE [d EXCEPT !.head = n]
  IN  IF n # None THEN [e EXCEPT !.prev[n] = p] ELSE e

(* The state start has built when it calls load_dependencies for the       *)
(* executable: the executable and libc are in place, everything is global. *)
Init ==
  /\ needs \in Graphs
  /\ obj = [i \in Ids |->
              CASE i = Exe  -> [Blank EXCEPT !.name = "exe", !.state = "live"]
                [] i = Libc -> [Blank EXCEPT !.name = "libc", !.state = "live"]
                [] OTHER    -> Blank]
  /\ objects = <<Exe, Libc>>
  /\ global_scope = <<Exe, Libc, Exe>>
  /\ init_list = <<>>
  /\ destruct_list = <<>>
  /\ LET empty == [i \in Ids |-> None]
         none  == [head |-> None, end |-> None, next |-> empty, prev |-> empty]
     IN  debug = add_object_to_debug_list(
                   add_object_to_debug_list(none, Exe), Libc)
  /\ storage = Main
  /\ loading = [Idle EXCEPT !.by = Main, !.list = <<Exe>>, !.start = Exe,
                            !.global = TRUE]
  /\ frames = [t \in Threads |-> <<>>]
  /\ exiting = NoExit
  /\ registered = 0
  /\ inits = [i \in Ids |-> 0] /\ relocs = [i \in Ids |-> 0]
  /\ loader_of = [i \in Ids |-> None]
  /\ failures = 0 /\ nested = FALSE /\ ub = {} /\ ended = "no"

Starting == loading.start = Exe

(* The loaded object a name stands for, if there is one. *)
Found(n) == {i \in ToSet(objects) : obj[i].name = n}

(* Where `name' of DT_NEEDED is found in `needs'. *)
Needed(i) == IF i = Exe THEN needs[Exe] ELSE needs[obj[i].name]

-----------------------------------------------------------------------------
(* load_dependencies: one step per object taken from load_list and per     *)
(* entry of its DT_NEEDED, all of them with the storage lock held.         *)

(* A file is mapped as object i, entered in the list of objects and in the *)
(* debugger's list.                                                        *)
add_object(i, n, parent) ==
  /\ objects' = Append(objects, i)
  /\ debug' = add_object_to_debug_list(debug, i)
  /\ ub' = IF Live(debug.end) THEN ub ELSE ub \cup {"debug_end"}
  /\ loader_of' = [loader_of EXCEPT ![i] = parent]

(* Mutant: the scope keeps the objects that are destroyed. *)
ScopeKept == global_scope

(* The global scope is cut back to what it was. *)
ScopeUndone ==
  IF loading.global
    THEN SubSeq(global_scope, 1,
                SelectLastInSeq(global_scope,
                                LAMBDA i : i = loading.start) - 1)
    ELSE global_scope

(* Every object of `objs', the init_list, is destroyed, the scope and the  *)
(* list of objects go back to where they were; __dlapi_open then removes   *)
(* the object it had added itself.  init_list keeps its entries.           *)
undo(objs) ==
  /\ debug' = FoldLeft(remove_object_from_debug_list, debug, objs)
  /\ obj' = [i \in Ids |-> IF i \in ToSet(objs)
                             THEN [obj[i] EXCEPT !.state = "destroyed"]
                             ELSE obj[i]]
  /\ ub' = IF \A i \in ToSet(objs) : Live(i) THEN ub ELSE ub \cup {"init_list"}
  /\ global_scope' = ScopeUndone
  /\ objects' = SubSeq(objects, 1,
                       SelectInSeq(objects, LAMBDA i : i = loading.start) - 1)
  /\ init_list' = objs
  /\ loading' = Idle /\ storage' = None
  /\ failures' = failures + 1
  /\ UNCHANGED <<needs, destruct_list, run, inits, relocs, loader_of, nested>>

CanFail == failures < MaxFailures /\ ~Starting

(* The next object of load_list; the last one pushed comes first. *)
load_pop ==
  /\ Running /\ loading.by # None
  /\ loading.object = None /\ loading.list # <<>>
  /\ LET i == Last(loading.list)
     IN  /\ init_list' = Append(init_list, i)
         /\ loading' = [loading EXCEPT !.list = Front(@), !.object = i,
                                       !.needed = Needed(i)]
  /\ UNCHANGED <<needs, obj, objects, global_scope, destruct_list, debug,
                 storage, run, hist, ub>>

(* The object does not fit into the space left for initial TLS. *)
load_no_tls ==
  /\ Running /\ loading.by # None /\ CanFail
  /\ loading.object = None /\ loading.list # <<>>
  /\ undo(Append(init_list, Last(loading.list)))

NextNeeded == Head(loading.needed)
AtNeeded == Running /\ loading.object # None /\ loading.needed # <<>>

(* A needed object that is loaded becomes a dependency. *)
load_needed_loaded ==
  /\ AtNeeded
  /\ \E i \in Found(NextNeeded) :
       obj' = [obj EXCEPT ![loading.object].dependencies = Append(@, i)]
  /\ loading' = [loading EXCEPT !.needed = Tail(@)]
  /\ UNCHANGED <<needs, lists, debug, storage, run, hist, ub>>

load_needed ==
  /\ AtNeeded /\ Found(NextNeeded) = {}
  /\ LET i == Next_id
         o == loading.object
     IN  /\ add_object(i, NextNeeded, o)
         /\ obj' = [obj EXCEPT
                      ![i] = [Blank EXCEPT !.name = NextNeeded,
                                           !.state = "live"],
                      ![o].dependencies = Append(@, i)]
         /\ global_scope' = IF loading.global THEN Append(global_scope, i)
                                              ELSE global_scope
         /\ loading' = [loading EXCEPT !.list = Append(@, i),
                                       !.needed = Tail(@)]
  /\ UNCHANGED <<needs, init_list, destruct_list, storage, run, inits, relocs,
                 failures, nested>>

load_needed_fails ==
  /\ AtNeeded /\ Found(NextNeeded) = {} /\ CanFail
  /\ undo(init_list)

load_next ==
  /\ Running /\ loading.object # None /\ loading.needed = <<>>
  /\ loading' = [loading EXCEPT !.object = None]
  /\ UNCHANGED <<needs, obj, lists, debug, storage, run, hist, ub>>

-----------------------------------------------------------------------------
(* The end of the load: everything on init_list is relocated, the lock is  *)
(* released and the constructors' loop begins, in start-up over            *)
(* OBJECT_STORAGE->init_list itself, in __dlapi_open over a list moved out *)
(* of it.                                                                  *)

Loaded == Running /\ loading.by # None /\ loading.list = <<>>
                  /\ loading.object = None

RelocateAll ==
  relocs' = [i \in Ids |-> IF i \in ToSet(init_list) THEN relocs[i] + 1
                                                     ELSE relocs[i]]

LoopStart(list) == Len(list)

StartDestructList == <<Libc>>

(* libc's own constructors run first. *)
start_done ==
  /\ Loaded /\ Starting
  /\ RelocateAll
  /\ destruct_list' = StartDestructList
  /\ inits' = [inits EXCEPT ![Libc] = 1]
  /\ frames' = [frames EXCEPT ![Main] =
                  <<[start |-> TRUE, list |-> <<>>, i |-> LoopStart(init_list),
                     at |-> "next"]>>]
  /\ loading' = Idle /\ storage' = None
  /\ UNCHANGED <<needs, obj, objects, global_scope, init_list, debug, exiting,
                 registered, loader_of, failures, nested, ub, ended>>

ListMoved == <<>>

open_done ==
  /\ Loaded /\ ~Starting
  /\ RelocateAll
  /\ ub' = IF \A i \in ToSet(init_list) : Live(i) THEN ub
           ELSE ub \cup {"init_list"}
  /\ obj' = IF loading.global THEN obj
            ELSE [obj EXCEPT ![loading.origin].local_scope =
                    Append(@, loading.start)]
  /\ frames' = [frames EXCEPT ![loading.by] =
                  Append(@, [start |-> FALSE, list |-> init_list,
                             i |-> LoopStart(init_list), at |-> "next"])]
  /\ init_list' = ListMoved
  /\ loading' = Idle /\ storage' = None
  /\ UNCHANGED <<needs, objects, global_scope, destruct_list, debug, exiting,
                 registered, inits, loader_of, failures, nested, ended>>

-----------------------------------------------------------------------------
(* The constructors' loops, from the end of the list to its start. *)

Frame(t) == Last(frames[t])
List(f) == IF f.start THEN init_list ELSE f.list
In(t, at) == /\ Running /\ exiting.by # t /\ loading.by # t
             /\ frames[t] # <<>> /\ Frame(t).at = at
WithFrame(t, f) == frames' = [frames EXCEPT ![t] = Append(Front(@), f)]

(* An index past the end of the list, or an object that is gone. *)
Bad(f) == f.i \in DOMAIN List(f) => ~Live(List(f)[f.i])

ctor_bad(t) ==
  /\ \E at \in {"next", "ctor"} : In(t, at)
  /\ Frame(t).i > 0 /\ Bad(Frame(t))
  /\ ub' = ub \cup {IF Frame(t).start THEN "start_list" ELSE "init_list"}
  /\ UNCHANGED <<needs, obj, lists, debug, storage, loading, run, hist>>

ctor_skip(t) ==
  /\ In(t, "next") /\ Frame(t).i > 0 /\ ~Bad(Frame(t))
  /\ obj[List(Frame(t))[Frame(t).i]].initialized
  /\ WithFrame(t, [Frame(t) EXCEPT !.i = @ - 1])
  /\ UNCHANGED <<needs, obj, lists, debug, storage, loading, exiting,
                 registered, ended, hist, ub>>

ctor_begin(t) ==
  /\ In(t, "next") /\ Frame(t).i > 0 /\ ~Bad(Frame(t))
  /\ LET i == List(Frame(t))[Frame(t).i]
     IN  /\ ~obj[i].initialized
         /\ registered' = registered + IF i = Exe THEN 1 ELSE 0
         /\ destruct_list' = Append(destruct_list, i)
         /\ inits' = [inits EXCEPT ![i] = @ + 1]
  /\ WithFrame(t, [Frame(t) EXCEPT !.at = "ctor"])
  /\ UNCHANGED <<needs, obj, objects, global_scope, init_list, debug, storage,
                 loading, exiting, ended, relocs, loader_of, failures, nested,
                 ub>>

(* Mutant: the loop steps over the object before. *)
CtorEndSkips(t) ==
  /\ In(t, "ctor") /\ ~Bad(Frame(t))
  /\ obj' = [obj EXCEPT ![List(Frame(t))[Frame(t).i]].initialized = TRUE]
  /\ WithFrame(t, [Frame(t) EXCEPT !.at = "next",
                                   !.i = IF @ = 1 THEN 0 ELSE @ - 2])
  /\ UNCHANGED <<needs, lists, debug, storage, loading, exiting, registered,
                 ended, hist, ub>>

ctor_end(t) ==
  /\ In(t, "ctor") /\ ~Bad(Frame(t))
  /\ obj' = [obj EXCEPT ![List(Frame(t))[Frame(t).i]].initialized = TRUE]
  /\ WithFrame(t, [Frame(t) EXCEPT !.at = "next", !.i = @ - 1])
  /\ UNCHANGED <<needs, lists, debug, storage, loading, exiting, registered,
                 ended, hist, ub>>

(* The loop ends; start-up clears the list it walked. *)
ctor_return(t) ==
  /\ In(t, "next") /\ Frame(t).i = 0
  /\ init_list' = IF Frame(t).start THEN <<>> ELSE init_list
  /\ frames' = [frames EXCEPT ![t] = Front(@)]
  /\ UNCHANGED <<needs, obj, objects, global_scope, destruct_list, debug,
                 storage, loading, exiting, registered, ended, hist, ub>>

-----------------------------------------------------------------------------
(* __dlapi_open, from the program or from a constructor *)

InStartup == frames[Main] # <<>> /\ Head(frames[Main]).start

MayCall(t) ==
  /\ Running /\ exiting.by # t /\ loading.by # t
  /\ IF frames[t] = <<>> THEN ~Starting /\ ~InStartup ELSE Frame(t).at = "ctor"

(* The object the call comes from. *)
Origin(t) == IF frames[t] = <<>> \/ Bad(Frame(t)) THEN Exe
             ELSE List(Frame(t))[Frame(t).i]

(* Bound: what a load may still map fits into Ids. *)
RoomForLoad ==
  Cardinality(Mapped) + Cardinality({n \in Names : Found(n) = {}}) <= MaxObjects

(* An object that is loaded is returned as it is, so a call changes        *)
(* something only when the file is not loaded.                             *)
open(t, n, global) ==
  /\ MayCall(t) /\ Len(frames[t]) < MaxNesting
  /\ storage = None
  /\ Found(n) = {} /\ RoomForLoad
  /\ LET i == Next_id
     IN  /\ add_object(i, n, None)
         /\ obj' = [obj EXCEPT ![i] = [Blank EXCEPT !.name = n,
                                                    !.state = "live"]]
         /\ global_scope' = IF global THEN Append(global_scope, i)
                                      ELSE global_scope
         /\ loading' = [Idle EXCEPT !.by = t, !.list = <<i>>, !.start = i,
                                    !.global = global, !.origin = Origin(t)]
  /\ storage' = t
  /\ nested' = (nested \/ InStartup)
  /\ UNCHANGED <<needs, init_list, destruct_list, run, inits, relocs,
                 failures>>

-----------------------------------------------------------------------------
(* exit: the exit handlers call __dlapi_exit as often as it is registered, *)
(* then __dlapi_destroy unloads everything.                                *)

exit(t) ==
  /\ MayCall(t) /\ exiting.by = None
  /\ exiting' = [by |-> t, pc |-> "handlers", i |-> 0]
  /\ UNCHANGED <<needs, obj, lists, debug, storage, loading, frames,
                 registered, ended, hist, ub>>

ExitAt(pc) == Running /\ exiting.pc = pc

(* destruct_objects begins with __ensure(sizes are equal). *)
exit_lock ==
  /\ ExitAt("handlers") /\ registered > 0 /\ storage = None
  /\ IF Len(destruct_list) = Len(objects)
       THEN /\ exiting' = [exiting EXCEPT !.pc = "fini",
                                          !.i = Len(destruct_list)]
            /\ UNCHANGED ended
       ELSE ended' = "ensure" /\ UNCHANGED exiting
  /\ storage' = exiting.by
  /\ registered' = registered - 1
  /\ UNCHANGED <<needs, obj, lists, debug, loading, frames, hist, ub>>

fini ==
  /\ ExitAt("fini") /\ exiting.i > 0
  /\ LET i == destruct_list[exiting.i]
     IN  CASE ~Live(i) -> ub' = ub \cup {"init_list"}
                          /\ UNCHANGED <<obj, exiting, ended>>
           [] Live(i) /\ obj[i].destructed ->
                ended' = "ensure" /\ UNCHANGED <<obj, exiting, ub>>
           [] OTHER -> /\ obj' = [obj EXCEPT ![i].destructed = TRUE]
                       /\ exiting' = [exiting EXCEPT !.i = @ - 1]
                       /\ UNCHANGED <<ended, ub>>
  /\ UNCHANGED <<needs, lists, debug, storage, loading, frames, registered,
                 hist>>

(* A destructor that opens an object waits for the lock its own thread has. *)
fini_opens ==
  /\ ExitAt("fini") /\ exiting.i > 0
  /\ exiting' = [exiting EXCEPT !.pc = "stuck"]
  /\ UNCHANGED <<needs, obj, lists, debug, storage, loading, frames,
                 registered, hist, ub, ended>>

exit_unlock ==
  /\ ExitAt("fini") /\ exiting.i = 0
  /\ storage' = None
  /\ exiting' = [exiting EXCEPT !.pc = "handlers"]
  /\ UNCHANGED <<needs, obj, lists, debug, loading, frames, registered, hist,
                 ub, ended>>

(* unload_objects takes the lock of the list of objects, which a load       *)
(* holds all the time; the process then ends.                               *)
exit_unload ==
  /\ ExitAt("handlers") /\ registered = 0 /\ loading.by = None
  /\ obj' = [i \in Ids |-> IF i \in ToSet(objects)
                             THEN [obj[i] EXCEPT !.state = "destroyed"]
                             ELSE obj[i]]
  /\ ended' = "exited"
  /\ UNCHANGED <<needs, lists, debug, storage, loading, frames, exiting,
                 registered, hist, ub>>

-----------------------------------------------------------------------------

Load == \/ load_pop \/ load_needed_loaded \/ load_needed \/ load_next
        \/ start_done \/ open_done
LoadFails == load_no_tls \/ load_needed_fails
Ctor(t) == \/ ctor_bad(t) \/ ctor_skip(t) \/ ctor_begin(t) \/ ctor_end(t)
           \/ ctor_return(t)
Exit == exit_lock \/ fini \/ exit_unlock \/ exit_unload

Next == \/ Load \/ LoadFails \/ Exit \/ fini_opens
        \/ \E t \in Threads :
             \/ Ctor(t) \/ exit(t)
             \/ \E n \in Names, g \in BOOLEAN : open(t, n, g)

(* The loader and constructors go on; nobody has to open or to exit. *)
Fairness == WF_vars(Load) /\ WF_vars(Exit) /\ \A t \in Threads : WF_vars(Ctor(t))

Spec == Init /\ [][Next]_vars /\ Fairness

-----------------------------------------------------------------------------
(* Properties *)

(* The lists hold objects that were mapped, at most one object is being    *)
(* loaded for a thread at a time, and only by the holder of the lock.      *)
TypeOK ==
  /\ ToSet(objects) \cup ToSet(global_scope) \cup ToSet(init_list)
       \cup ToSet(destruct_list) \subseteq Mapped
  /\ storage \in Threads \cup {None}
  /\ loading.by # None => storage = loading.by
  /\ exiting.pc \in {"no", "handlers", "fini", "stuck"}
  /\ ended \in {"no", "ensure", "exited"}

(* An object is relocated and its constructors are run once, however the   *)
(* opens of threads and constructors interleave -- unless a constructor    *)
(* opened an object during start-up, when the start-up list is moved away  *)
(* and walked a second time.                                               *)
SetUpOnce == \A i \in Ids : inits[i] > 1 \/ relocs[i] > 1 => nested

(* On a list that is still to be walked. *)
Pending(i) ==
  \/ i \in ToSet(init_list) \cup ToSet(loading.list)
  \/ \E t \in Threads : \E k \in DOMAIN frames[t] :
       \E j \in 1..frames[t][k].i : j <= Len(List(frames[t][k]))
                                    /\ List(frames[t][k])[j] = i

(* No object that is loaded is forgotten: until its constructors have run  *)
(* it is on a list that the loader or a constructors' loop still has to    *)
(* walk.                                                                   *)
NoneForgotten ==
  Running /\ ~nested => \A i \in ToSet(objects) \ {Libc} :
                          obj[i].initialized \/ Pending(i)

(* The constructors of an object begin after those of every object that    *)
(* was loaded for it have ended.  (Not so for one it needs but that was    *)
(* loaded for another: the order is that of the load, not of the needs.)   *)
LoadedForFirst ==
  Running /\ ~nested =>
    \A c \in ToSet(objects) : loader_of[c] # None /\ inits[loader_of[c]] > 0
                               => obj[c].initialized

(* A failed load leaves no destroyed object in the list of objects, in the *)
(* global scope or in the dependencies and local scope of another.         *)
ScopesLive ==
  Running /\ ~nested =>
    \A i \in ToSet(objects) :
      /\ Live(i)
      /\ \A j \in ToSet(global_scope) \cup ToSet(obj[i].dependencies)
                  \cup ToSet(obj[i].local_scope) : Live(j)

(* Destroyed objects are used, and a list is read past its end, only after *)
(* a load failed (which leaves the destroyed objects on init_list, and the *)
(* debugger's list ending in one) or after an open during start-up.        *)
StaleOnlyAfter ==
  /\ "debug_end" \in ub => failures > 0
  /\ "init_list" \in ub => failures > 0 \/ nested
  /\ "start_list" \in ub => nested

(* Until a load fails, the debugger's list has every object, in order. *)
DebuggerSeesAll ==
  Running /\ failures = 0 =>
    LET n == Len(objects)
    IN  /\ debug.head = objects[1] /\ debug.end = objects[n]
        /\ \A k \in 1..n :
             /\ debug.next[objects[k]] = IF k < n THEN objects[k + 1] ELSE None
             /\ debug.prev[objects[k]] = IF k > 1 THEN objects[k - 1] ELSE None

(* The assertions of destruct_objects, that every object was initialised   *)
(* and none was destructed, fail only when the process exits before the    *)
(* constructors of some object began.                                      *)
EnsureOnlyEarly ==
  ended = "ensure" =>
    nested \/ \E i \in ToSet(objects) : Live(i) /\ inits[i] = 0

(* Every object that is loaded gets its constructors run, unless the       *)
(* process exits, its load fails or the list it is on was destroyed.       *)
EveryoneInitialised ==
  \A i \in Ids \ {Libc} :
    (i \in ToSet(objects)) ~>
      \/ obj[i].initialized \/ i \notin ToSet(objects)
      \/ exiting.by # None \/ ~Running

(* A process that exits ends, unless a destructor opens an object. *)
ExitEnds == (exiting.pc = "handlers") ~> (~Running \/ exiting.pc = "stuck")

(* Loading sets everything up, in order: an object is loaded for the first *)
(* that needs it, its constructors run once and none of those that were    *)
(* queued is forgotten, however calls nest, fail and interleave.           *)
SetUpInOrder == SetUpOnce /\ NoneForgotten /\ LoadedForFirst

(* Nothing dangles: the scopes hold live objects, a freed one is only      *)
(* touched where the code's own loop does so, the debugger sees every      *)
(* object, and the assertions of the loader only fail before it is set up. *)
NothingDangles == ScopesLive /\ StaleOnlyAfter /\ DebuggerSeesAll /\ EnsureOnlyEarly
=============================================================================
