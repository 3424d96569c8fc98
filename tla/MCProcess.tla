----------------------------- MODULE MCProcess -----------------------------
(* A process from its start to its end, for TLC: loading with three files  *)
(* and every way in which the executable and the files need others that    *)
(* matters (chains, a diamond whose second path comes late, a cycle), the  *)
(* lookup of a symbol, relocation and its tables, thread-local storage,    *)
(* the loader's locks, exit and its handlers, fork and its handlers, and   *)
(* the ways of starting a child.  These share no state, so a behaviour is  *)
(* a behaviour of one of them, its focus; the variables of the others keep *)
(* their first value.                                                      *)
EXTENDS Loader, Tls, LoaderLocks, Relocation, ObjectFiles,
        ProcessHandlers, ChildProcess

CONSTANTS libA, libB, libC, t1, t2, m, o1, o2, o3,
          Foci   \* the parts this run looks at

VARIABLE focus

Needs(exe, na, nb, nc) ==
  [x \in {Exe, libA, libB, libC} |->
     CASE x = Exe -> exe [] x = libA -> na [] x = libB -> nb [] OTHER -> nc]

MCGraphs ==
  {Needs(<<>>, <<libB>>, <<libC>>, <<>>),          \* a chain, opened
   Needs(<<>>, <<libB, libC>>, <<libC>>, <<>>),    \* a shared dependency
   Needs(<<libA>>, <<libB>>, <<>>, <<libB>>),      \* start-up objects, one opened
   Needs(<<>>, <<libB>>, <<libA>>, <<>>)}          \* a cycle

(* For liveness, two files: the executable needs one and an opened one     *)
(* needs it too; or the two need each other.                               *)
EndingGraphs == {Needs(<<libA>>, <<>>, <<libA>>, <<>>), Needs(<<>>, <<libB>>, <<libA>>, <<>>)}

MCSymDeps == [o \in SymObjs |-> CASE o = m -> <<o1>> [] o = o1 -> <<o2, m>>
                                  [] o = o3 -> <<o2>> [] OTHER -> <<>>]
MCBindings == {f \in [SymObjs -> {"none", "weak", "strong", "unique"}] :
                 /\ f[m] \in {"none", "strong"} /\ f[o3] = "none"
                 /\ f[m] = "strong" => f[o2] = "unique"}

MCTlsShape == [o \in TlsObjs |-> IF o = o1 THEN <<1, 1>> ELSE <<3, 2>>]

MCSymbolNames == <<"p", "q", "r">>

(* Relocation: every kind of entry in every table of the C library that    *)
(* can hold it, and the ways in which the executable refers to it.         *)
MCSym(form) == {Entry(form, "absolute", 0), Entry(form, "absolute", 2),
                Entry(form, "glob_dat", 1)}
MCLibcEntries ==
  {Plain, Entry("relr", "relative", NoSymbol), Entry("rel", "irelative", NoSymbol)}
  \cup {Entry(f, "relative", NoSymbol) : f \in {"rela", "rel"}}
  \cup UNION {MCSym(f) : f \in {"rela", "rel", "jmprel"}}
MCLibc == {t \in [1..3 -> MCLibcEntries] :
             /\ t[3] \in MCSym("jmprel") /\ t[1].form # "jmprel"
             /\ t[1] \notin {Entry("rela", "absolute", 0), Entry("rela", "relative", NoSymbol)}
             /\ t[2] \notin {Entry("rela", "absolute", 2), Entry("rela", "glob_dat", 1),
                            Entry("jmprel", "absolute", 0)}}
MCCopy(y) == Entry("rela", "copy", y)
MCExe == {<<Plain, Plain, Entry("rela", "absolute", 3)>>,
          <<MCCopy(2), MCCopy(1), Entry("relr", "relative", NoSymbol)>>,
          <<MCCopy(2), Entry("jmprel", "glob_dat", 2), Entry("rel", "irelative", NoSymbol)>>}
MCLib == {<<Entry("rel", "absolute", 2), x, Entry("rela", "absolute", 0)>> :
            x \in {Plain, Entry("rel", "irelative", NoSymbol)}}
MCBinds == {[y \in 0..3 |-> IF y = 2 THEN "strong" ELSE "no"],
            [y \in 0..3 |-> IF y \in {0, 3} THEN "weak" ELSE "no"],
            [y \in 0..3 |-> IF y = 1 THEN "weak" ELSE "no"]}

(* Files: every DT_RUNPATH of up to five characters; three objects, some   *)
(* right behind each other, in an order of loading that differs.           *)
MCRunPaths == UNION {[1..n -> {"O", "x", ":"}] : n \in 0..5}
MCPaths == {<<"y">>, <<"/", "y">>, <<"d", "/", "e", "/", "y">>}
Obj(base, size, segments) == [base |-> base, end |-> base + size, segments |-> segments]
MCLayouts == {<<Obj(x, 8, {<<0, 3>>, <<4, 7>>}), Obj(y, 4, {<<0, 2>>}), Obj(z, 4, {<<0, 4>>})>> :
                x \in {4, 8}, y \in {0, 16, 20, 24}, z \in {28, 32}}
MCAddresses == 0..36

-----------------------------------------------------------------------------

FirstGraph == CHOOSE g \in Graphs : TRUE
NoTables == [o \in RelocObjects |-> <<Plain, Plain, Plain>>]

loaderVars == <<vars, symVars, tlsVars, lockVars, relocVars, searchVars,
                sample>>
processVars == <<exitVars, forkVars, childVars, spawnVars>>

MCInit ==
  /\ focus \in Foci
  /\ Init /\ (focus # "load" => needs = FirstGraph)
  /\ SymInit /\ (focus # "symbols" => /\ binding = [o \in SymObjs |-> "none"]
                                      /\ sym_global = <<m, o1>> /\ symbolic = {})
  /\ TlsInit /\ (focus # "tls" => \A o \in TlsObjs : /\ ~tls_obj[o].initial
                                                       /\ ~tls_obj[o].desc)
  /\ LockInit
  /\ IF focus = "relocation" THEN RelocInit ELSE RelocStart(NoTables, <<>>)
  /\ CASE focus = "relr" -> RelativeInit
       [] focus = "hash" -> HashInit
       [] focus = "runpath" -> RunPathInit
       [] focus = "address" -> AddressInit
       [] OTHER -> NoSample
  /\ IF focus = "search" THEN SearchInit ELSE SearchStart([i \in 1..Places |-> "no_dir"])
  /\ ExitInit /\ (focus # "exit" => ~quick)
  /\ ForkInit /\ ChildInit /\ SpawnInit

LoaderNext ==
  /\ UNCHANGED <<focus, processVars, sample>>
  /\ \/ /\ focus = "load" /\ Next
        /\ UNCHANGED <<symVars, tlsVars, lockVars, relocVars, searchVars>>
     \/ /\ focus = "symbols" /\ SymNext
        /\ UNCHANGED <<vars, tlsVars, lockVars, relocVars, searchVars>>
     \/ /\ focus = "tls" /\ TlsNext
        /\ UNCHANGED <<vars, symVars, lockVars, relocVars, searchVars>>
     \/ /\ focus = "locks" /\ LockNext
        /\ UNCHANGED <<vars, symVars, tlsVars, relocVars, searchVars>>
     \/ /\ focus = "relocation" /\ RelocNext
        /\ UNCHANGED <<vars, symVars, tlsVars, lockVars, searchVars>>
     \/ /\ focus = "search" /\ SearchNext
        /\ UNCHANGED <<vars, symVars, tlsVars, lockVars, relocVars>>

ProcessNext ==
  /\ UNCHANGED <<focus, loaderVars>>
  /\ \/ focus = "exit" /\ ExitNext /\ UNCHANGED <<forkVars, childVars, spawnVars>>
     \/ focus = "fork" /\ ForkNext /\ UNCHANGED <<exitVars, childVars, spawnVars>>
     \/ focus = "child" /\ ChildNext /\ UNCHANGED <<exitVars, forkVars, spawnVars>>
     \/ focus = "spawn" /\ SpawnNext /\ UNCHANGED <<exitVars, forkVars, childVars>>

MCNext == LoaderNext \/ ProcessNext

MCSpec == MCInit /\ [][MCNext]_<<focus, loaderVars, processVars>>

(* What must come to an end, under the fairness of its module.  Outside   *)
(* their focus none of the fair steps is enabled at the start, but for     *)
(* those of the loader.                                                    *)
InLoader(A) == focus = "load" /\ A

MCFairSpec ==
  /\ MCSpec
  /\ WF_vars(InLoader(Load)) /\ WF_vars(InLoader(Exit))
  /\ \A t \in Threads : WF_vars(InLoader(Ctor(t)))
  /\ LockFairness /\ ExitFairness /\ ForkFairness /\ ChildFairness

-----------------------------------------------------------------------------
(* The files a process is made of are found, their tables say all that is  *)
(* in them, and whoever asks for a name gets the definition the others get *)
(* (load_object_with_name, relocate, gnu_lookup, elf_lookup, lookup).      *)
ObjectsFound == TablesSayAll /\ FileIsFound /\ SymbolsAgree

(* The handlers of exit and of fork all run, in their order, and give back *)
(* what they took (run_exit_handlers, call_atfork_prepare and the others); *)
(* a child finds the lock of the fork handlers held only by a thread that  *)
(* it does not have.                                                       *)
HandlersRun == [](ExitHandlersRun /\ ForkGivesBack) /\ ChildStuckOnlyByOther

(* What must end does: loaded objects are initialised, a process that      *)
(* exits ends and runs its handlers, calls of the loader return, a forked  *)
(* child reaches the program, and system and pclose return, each with the  *)
(* exceptions stated there.                                                *)
EverythingEnds ==
  /\ focus = "load" => EveryoneInitialised
  /\ ExitEnds /\ LoaderCallsReturn /\ ProcessEnds
  /\ ChildReturns /\ SystemReturns /\ PcloseReturns
=============================================================================
