# hzlibc: a verification development

TLA+ models of hzlibc, the C library and dynamic linker of this repository: specifications that follow the code step by
step, TLC configurations that check them on small instances, and TLAPS proofs of what matters most for every instance.

Paths in this text are relative to the repository's source directory (`internal/mutex.cpp`), or to its root
(`sys/linux/sys.cpp`). `PROJECT.json` gives, for each definition, the lines it models; it also lists the hazards of the
code at the line where they bite, with the properties that would show them.

## 1. The system and its parts

hzlibc is a C library with three front ends (`ansi`, `posix`, and the extensions in `lsb`, `glibc`, `bsd`, `linux`) over
a shared implementation (`internal`), a dynamic linker (`rtld`) that is part of the same object, and a system interface
(`sys/linux`, `sys/crescent`). Containers, atomics, spinlocks and the slab allocator come from `hzutils` (`hz::*`), which
is not in the repository; where a model needs them they are taken from their use and marked external.

| Part | State it owns | What makes it hard |
|---|---|---|
| mutex, once, condition variable (`internal/mutex.cpp`, `internal/thread.cpp`) | futex words | waiters announce themselves while the owner works; the gap between unlock and sleep; EINTR and time-outs |
| semaphore, read-write lock, barrier (`posix/semaphore.cpp`, `posix/pthread.cpp`) | futex words | a load and an exchange that others come between; reuse while the last round is being released |
| threads and their keys (`internal/thread.cpp`, `rtld/rtld.cpp`) | control blocks, `KEYS`, slots | who frees the block and who still touches it; slots that are used again |
| loader, relocation, thread-local storage (`rtld`) | objects, scopes, images, dtv | failure half way, concurrent dlopen, order of constructors and of relocation, threads older than an object |
| exit and fork handlers (`ansi/stdlib.cpp`, `glibc/cxx.cpp`, `lsb/fork.cpp`) | lists under a lock | handlers that register handlers; a lock another thread holds at the fork |
| child processes (`ansi/stdlib.cpp`, `posix/stdio.cpp`, `posix/spawn.cpp`) | signal actions, pipes, file actions | two callers, early returns, children reaped by others |
| streams, environment, directories (`ansi/stdio.cpp`, `posix/stdlib.cpp`, `posix/dirent.cpp`) | FILE, `ENV` and `ALLOCATED_ENV`, buffers | push-back against seeks; two tables that must agree |
| resolver, system log, databases (`internal/dns.cpp`, `posix/netdb.cpp`, `posix/syslog.cpp`, `posix/pwd.cpp`, `posix/grp.cpp`) | sockets, descriptors, records | late and foreign answers; state used without its lock; packing into the caller's area |
| conversions and searches (`ansi`, `posix`, `glibc`) | little | boundaries of width, room and range |
| floating point, unwinder, jumps and contexts (`internal/float_gcc.cpp`, `ansi/musl-math`, `thirdparty/libunwind`, `internal/*/setjmp.cpp`, `posix/ucontext.cpp`) | registers | rounding, tables, registers that are lost |

How the parts meet: every blocking primitive uses the futex calls; the condition variable releases and takes a mutex;
keys, streams and handlers are protected by the mutex; a thread that exits runs thread-local destructors, then the
destructors of its keys, then deals with its control block, which the loader allocates and fills with thread-local
storage; `exit` runs the exit handlers, the first of which destructs all objects.

## 2. Modules

In the modules of the concurrent parts each thread has a program counter; a step is one atomic operation, system call or
critical section of the code, and local variables that survive a step are functions of the thread. A thread that the
kernel has put to sleep is at a label `asleep`, so the kernel's queue is the set of threads at it. Memory is sequentially
consistent: the weaker orders the code asks for are not explored. A spurious failure of a weak compare-and-swap repeats
the loop and is a stuttering step. Variables marked *history* record what happened and are read by no action. Operators
marked *Mutant* are deliberate errors, each of which TLC finds with the property that `PROJECT.json` pairs it with; no
action uses them.

| Module | Models | State and actions |
|---|---|---|
| `Futex` | the futex calls of `sys/linux/sys.cpp` | operators on program counters; `ValidTimeout` is the kernel's test of a timespec (external) |
| `AbstractMutex` | what a mutex promises | a holder and a depth |
| `Mutex` | `internal/mutex.cpp` | the word (owner, waiting flag), the three kinds; lock in five steps, unlock in three; panics |
| `Once` | `thread_once` | the word's four values; load, swap, run, complete, wake |
| `Cond` | `thread_cond_*` | the counter, composed with `AbstractMutex`; timed waits may time out or be interrupted |
| `Semaphore` | `posix/semaphore.cpp` | the word (flag or count); load and exchange of `sem_post` apart; the time difference of `sem_timedwait` |
| `RwLock` | `pthread_rwlock_*` | the inner mutex and the reader count |
| `Barrier` | `pthread_barrier_*` | `waiting`, `inside`, `sequence`; reuse at any time; destroy |
| `ThreadKeys` | keys of `internal/thread.cpp` | `KEYS`, slots, the passes of an exiting thread; destructors may make any of the calls |
| `ThreadLifecycle` | create, entry, exit, join, detach | control blocks at addresses that are allocated again; creator, thread and user of the handle each have a program counter |
| `Loader` | `dlopen`, dependencies, constructors, exit, the debugger's list | objects, scopes, lists; failures, nested and concurrent calls |
| `LoaderLocks` | which locks each entry point of the loader takes and keeps across callbacks | a stack of calls per thread |
| `ObjectFiles` | symbol lookup, hash tables, RELR, run paths, the search for a file, `dladdr`, `_dl_find_object` | scopes and bindings; the rest as functions of a sample |
| `Relocation` | `relocate_libc`, `relocate`, `late_relocate` | the tables of three objects and their words |
| `Tls` | module indices, static placement, the dtv, descriptors, on x86 | threads that begin before and after an object is loaded |
| `ProcessHandlers` | `atexit`, `exit`, `quick_exit`, thread-local destructors; `pthread_atfork`, `fork` | blocks of handlers; the walks of parent and child |
| `ChildProcess` | `system`, `popen`, `pclose`, `posix_spawn` | dispositions, masks, children, pipes, one step per system call; file actions |
| `FileStream` | position, push-back, flags, seek, `getdelim`, `freopen`, `fclose` | a FILE over a file |
| `Environment`, `AbstractEnv` | `getenv` and the calls that change the environment; a map | `env` and the strings that are allocated |
| `Syslog` | `openlog`, `closelog`, `vsyslog` | `LOG_FD`, the process' descriptors, the daemon |
| `Resolver` | the query over name servers, compressed names, `inet_*`, `getaddrinfo`, `getnameinfo`, `getservbyname` | a query with lost, late and foreign answers; searches of two files |
| `Databases` | `pwd.cpp`, `grp.cpp`, the record of `gethostbyname` | files, areas, descriptors |
| `Directory` | `readdir`, `scandir`, `qsort`, `bsearch` | a buffer of entries; sorting as functions of a sample |
| `Numbers`, `Calendar`, `Strings`, `FormattedText`, `CommandLine` | `strtol` and printf's integers; times and zones; strings, characters and multibyte text; printf and scanf; options, paths, patterns, tokens | functions of a sample; printf, scanf and getopt also step by step |
| `Floats`, `FloatText` | `float_gcc.cpp`, the exact functions of `musl-math`; `strtod` and printf's floats | functions of a sample, in small formats |
| `Unwind`, `Contexts` | DWARF rows, expressions, CIEs, FDEs, the index; `setjmp`, `ucontext` and register saving on three machines | functions of a sample; instructions on a register file |
| `Samples` | the variable that holds an input | |
| `MCThreads`, `MCProcess`, `MCLibrary`, `MCText` | instances for TLC | a *focus* chooses the part a behaviour is about |
| `MutexProofs`, `RwLockProofs`, `SemaphoreSyslogProofs`, `CondBarrierProofs`, `ThreadDataProofs`, `ThreadProofs`, `LoaderProofs`, `ProcessProofs` | theorems | section 4 |

The parts combined in an MC module share no state, so nothing is lost by looking at one at a time; it keeps the number of
configurations small. Clients are as free as the interface allows: any thread makes any call at any time. Misuse that the
code answers (a relock, an unlock by another thread, a key that was deleted) is included. Misuse that it cannot answer is
not: waiting on a condition without the mutex, joining through a handle that is no longer good, detaching during a join.

## 3. Runs

| Run | Instance | Checks |
|---|---|---|
| `mutex` | 3 threads, nesting of 2, every kind | `MutualExclusion`, `NoLostWakeup`, `ImplementsAbstractMutex`; `SleepersWoken` (liveness) |
| `threads` | 4 callers of `thread_once`; 3 threads on a barrier of 2, 6 calls; 2 threads over 2 addresses | `InitRunsOnce`, `BarrierHolds`, `JoinGetsStatus`, `BlocksReleased`; `EveryoneGoesOn` (liveness) |
| `semaphore` | 3 threads, 3 posts, a maximum of 2 | `TokensConserved`, `NoLostWakeup`; `TokenWakes` (liveness) |
| `semaphore_timedwait` | the same, a maximum of 3 | `TimedWaitEnsure`: violated |
| `cond` | 3 threads, 3 signals, a counter of 2 values | `NoMissedBroadcast`, `ReturnsLocked`, `WaitersReached` (with liveness) |
| `rwlock` | 3 threads | `WriterIsAlone`, `EnsuresHold`, `NoLostWakeup`; `WriterGetsIn` (liveness) |
| `keys` | 2 threads, 2 slots, 2 creations, 2 passes, a generation of 2 values | `SeesOwnValues`, `NothingLeft`, `RightDestructor`; `ExitEnds` (liveness) |
| `process` | 3 files in 4 dependency graphs, 2 threads, 1 failure; small tables | `SetUpInOrder`, `NothingDangles`, `ObjectsFound`, `StorageIsOwn`, `LocksGiveWay`, `RelocatedOnce`, `HandlersRun`, `ChildrenStartClean` |
| `endings` | 2 files, 2 threads | `EverythingEnds` (liveness) |
| `library` | 2 questions to 2 servers; 2 threads and 2 descriptors for the log; small files | `FilesRead`, `EnvironmentSound`, `MessagesArrive`, `NamesResolved`, `RecordsFound` |
| `text` | all short inputs, small number formats | `ConversionsRight`, `FloatsRight`, `ReturnsRight` |
| `jump_value` | one jump per machine | `LongjmpDeliversValue`: violated |

**Why the bounds are enough to be of interest.** Three threads are the fewest with an owner, a sleeper and a newcomer,
and on a barrier of two they are the fewest with one thread too many. Counters that wrap in the code (the condition
variable's word, a key's generation, the barrier's sequence) wrap within the bound. Three posts go past the semaphore's
maximum. Six barrier calls are three rounds: one to reuse, one to wrap. Two threads over two addresses have blocks of
their own, or one after the other in the same block. Three files are enough for a chain, a diamond and a cycle; blocks of
two handlers and five registrations cross a block's end twice. Three words per object are enough for two saved addends
and one too many, and for a copy of a word that the second pass changes. Two children of two threads are enough for each
to be forked while the other's pipe is open, also before the other's fork. The log has two messages, one close and one
foreign descriptor: what it takes for a number to be closed, given away and sent to. Pure functions run over every input
of a bounded set, whose members lie on both sides of each boundary (width 5 for integers, days of 8 seconds on the real
calendar, significands of 2 to 5 bits). No run uses symmetry.

**Deadlock** is checked in `mutex`, `cond`, `semaphore`, `semaphore_timedwait` and `rwlock`. It is not in the others,
where the bounded calls are used up, a process ends, or a state is one input of a function.

**Fairness.** Only weak fairness is assumed: of the steps of each thread *inside* a call, which is what a preemptive
scheduler gives, and nothing about clients: nobody has to unlock, to post, to signal or to join. `Once` assumes that the
routine returns, `ThreadKeys` that destructors do, `Loader` that constructors do, `ChildProcess` that a child whose
pipe is at its end exits (that it stops before is possible and never due). The loader's locks are spin locks, which give
no thread a turn: `LoaderCallsReturn` therefore excepts a thread that loses against another's endless calls, where strong
fairness would have hidden it.

**Mutants.** For each property of a passing run `PROJECT.json` names a definition and a plausible error in it; with the
error TLC finds the property violated.

### Findings

1. `semaphore_timedwait`: `sem_timedwait` subtracts times field by field; the assertion at `posix/semaphore.cpp:138`
   fails when the kernel rejects the unnormalised result with EINVAL.
2. `jump_value`: `longjmp` of aarch64 loads the stack pointer into the register that holds `val`
   (`internal/aarch64/setjmp.cpp:55`).

### What holds only with an exception

Several properties hold only with an exception, which is part of the property and is named in a hazard. They are places
where the code does less than its interface suggests.

- *Semaphore.* `sem_post` reads the word and exchanges it in two steps; another operation in between makes the count
  wrong from then on (`raced`). `sem_wait` passes the value it has just replaced to the futex call, so a waiter can sleep
  on 0 without being announced; `NoLostWakeup` is about the announced ones.
- *Condition variable.* A timed wait that a signal handler interrupts loads the counter anew and forgets a broadcast
  that came before; the counter may also wrap to the value a waiter holds (`excuse`).
- *Read-write lock.* A writer that meets a reader ORs the wrong mask into the count: the lock is never granted again
  (`SpoiledForGood`), and `WriterGetsIn` holds only for writers that meet none.
- *Barrier.* An arrival between the last one of a round and the reset of `waiting` is wiped out (`late`). With more
  threads than the count, one may pass with the sequence of the round before (`stale`). After 2^31 rounds nobody passes.
  `pthread_barrier_destroy` waits at most once.
- *Threads.* A detached thread frees its control block and then writes to it; if the memory has become another thread's
  block, a join on that one is deceived (`stomped`). A detach after the exiting thread has looked at the flag leaks the
  block (`missed`).
- *Keys.* After 2^32 creations of one slot a stale value looks current (`MayAlias`).
- *Loader.* A second `dlopen` returns an object whose constructors have not run. A failed load leaves destroyed objects
  on the initialisation list and at the end of the debugger's list. `dlsym` with `RTLD_NEXT` waits for its own lock, as
  do callbacks of `dl_iterate_phdr` and destructors that need what their caller holds (`SelfWaits`). A lookup of policy
  `IgnoreLocal` does what `None` does. `$ORIGIN` is the path of the file that asked for an object, its last part included,
  if another object asked. A file whose first segment is not at 0, one without a hash table, and pages that cannot be
  mapped stop the process.
- *Relocation.* The executable's copies are taken before the second pass over the C library's own words and before late
  relocations of the other objects; a copy whose own definition is strong and the original's weak is copied from itself.
- *Thread-local storage.* A thread that began before an object was loaded lacks its image or its dtv entry
  (`ImageMissing`, `DescFaults`).
- *Handlers and children.* Exit handlers run under the list's spin lock. Between prepare and fork the mutex is free, so a
  child may find it held by a thread it does not have. Two overlapping calls of `system` may leave the signals ignored,
  and its wait is repeated on every error. A `popen` that finds no pipe restores nothing, which its caller's later
  children inherit. A pipe of `popen` is inherited by every child forked after it was made, also before its own fork, and
  the child of a `popen` for writing stops if the process has no standard input (`posix/stdio.cpp:207`). The file actions
  array of `posix_spawn` never grows past its first size.
- *Environment.* For a name the process was started with twice, `unsetenv` may uncover the other value.
- *System log.* `vsyslog` tests, opens and uses `LOG_FD` without `LOCK`: two threads may each open a socket, or send to a
  number that was closed and given to another file (`log_raced`, `closed_under`).
- *Streams.* `fseek` resets the push-back pointer and not its count; `freopen` that fails keeps a number that may become
  another file's; `getdelim` drops a last line without a delimiter; `clearerr` leaves the end-of-file flag.
- *Directories.* `rewinddir` empties its buffer also when the seek failed, and goes on from where the directory is.
- *Databases and resolver.* A lookup that succeeds does not close its file, nor does a service found by its port.
  `getgr*_r` copies the name to the start of the area and not to where `gr_name` points, and an empty member list reads
  as one empty member.
  `resolve_name_in_services` finds aliases only, never a service's own name. `getaddrinfo` never uses IPv6.
  `getnameinfo` of the address `::` stops the process (`posix/netdb.cpp:286`) when the hosts file does not name it.
  `getservbyname` loses an array each time its aliases outgrow one. A late answer to a question from the same port is
  taken for this one's.
- *Text.* `mktime` near a transition takes the offset of the wrong side; `strftime` writes the letter of `%p`, `%z` and
  `%Z` again; `dirname("/a")` is empty; `inet_ntop` of IPv6 returns the end of its text. A positional argument, a quote as
  a flag, and flags or a length with `%c` stop the process, with the stream's mutex held.
- *Floating point.* Quadruple multiplication and division keep too few bits (`internal/float_gcc.cpp:69`); `__extendsftf2`
  is wrong for denormals; `__fixtfdi` wraps at exponent 63. printf of numbers of 2^58 and more is wrong
  (`ansi/stdio.cpp:782`), pads no width and loses the sign of -0.0; `strtod` rounds digit by digit.
- *Unwinder and contexts.* `DW_CFA_restore` of a register of the CIE reads an initial state that was never filled;
  `DW_CFA_val_offset` aborts. `getcontext` of x86_64 does not save `rdi`; `makecontext` of aarch64 stores registers eight
  bytes behind where `setcontext` loads them, and that of i386 reserves too few words. The trampoline of i386 finds
  `uc_link` only if the compiler gives it no frame and its `ebx` is not used for the global offset table. `siglongjmp` to
  a buffer that `setjmp` filled looks at a flag that was never written.

## 4. Proofs

TLAPS checks every proof, for every value of the constants: any sets of threads, objects, keys, names or descriptors, any
counts, sizes, moduli and bounds. The properties are the ones the runs check, unless the last column says *not in a run*.

| Theorem | Property | Part |
|---|---|---|
| `MutexProofs!Exclusion`, `WakeupSafe`, `Refinement` | `MutualExclusion`, `NoLostWakeup`, `ImplementsAbstractMutex` | mutex |
| `MutexProofs!TypeCorrect`, `RecursionSafe`, `ErrorsHonest` | the assertion of `manual_unlock`; panics and codes are true | mutex, *not in a run* |
| `ThreadProofs!RunsOnce`; `WakeupSafe` | `InitRunsOnce`; a sleeper has a waker (*not in a run*) | once |
| `ThreadProofs!JoinsRight`, `ReleasesRight` | `JoinGetsStatus`, `BlocksReleased` | threads |
| `CondBarrierProofs!BroadcastSafe`, `WaitsReturnLocked`, `SignalsReach` | `NoMissedBroadcast`, `ReturnsLocked`, the first part of `WaitersReached` | condition variable |
| `CondBarrierProofs!BarrierSafe` | `BarrierHolds` | barrier |
| `SemaphoreSyslogProofs!TokensSafe`, `WakeupSafe`; `FlagExcludesCount` | `TokensConserved`, `NoLostWakeup`; flag or count (*not in a run*) | semaphore |
| `RwLockProofs!WriterAlone`, `AssertionsHold`, `WakeupSafe`; `NeverAgain` | `WriterIsAlone`, `EnsuresHold`, `NoLostWakeup`; `SpoiledForGood` (*not in a run*) | read-write lock |
| `ThreadDataProofs!OwnValues`, `CallsRight`, `NoneLeft` | `SeesOwnValues`, `RightDestructor`, `NothingLeft` | thread-specific data |
| `ThreadDataProofs!StorageSafe` | `StorageIsOwn` | thread-local storage |
| `LoaderProofs!LockOrderSafe` | `LocksGiveWay` | the loader's locks |
| `LoaderProofs!RelocationSafe` | `RelocatedOnce` | relocation |
| `ProcessProofs!ChildrenClean`, from `SignalsSafe` and `SpawnSafe` | `ChildrenStartClean` | child processes |
| `ProcessProofs!EnvironmentRefines` | `EnvironmentSound`, a refinement of `AbstractEnv` | environment |
| `SemaphoreSyslogProofs!MessagesSafe` | `MessagesArrive` | system log |

The assumptions are those of the modules, named there, and true on the runs: values that stand for "nobody" are not
threads; bounds are numbers, and limits that the code divides by or counts to are positive; the barrier's threads are a
finite set; sizes and alignments of thread-local storage are numbers and alignments are positive; environments the
process starts with hold strings that nobody allocated; descriptors are numbers; the tables of the relocation are of the
entries the model has (section 2), libc has no strong reference it does not define itself, and only the executable has
copies, of variables in libc's first words. Nothing is assumed of an action.

None of the properties is inductive. What each proof adds, and why it is needed:

- *Mutex.* `OwnerInv` ties the word to what threads have been told: whoever holds the mutex, or is past its
  compare-and-swap, or is in `manual_unlock`, is the owner in the word, and the depth is what the owner has taken, but at
  the two places where the plain field lags behind. Exclusion follows since the word has one owner. `WordInv` says that a
  waiting flag comes with an owner, and that a thread that saw itself in the word is still the owner: with it EDEADLK and
  the panics are the caller's own doing. The refinement maps the holder to the owner of the word, and one lemma
  per action shows a step of the abstract lock or a stutter.
- *Once.* `RunnerInv`: the word says whether the routine was started, and there is at most one runner, who is gone once
  the word is COMPLETE. `StateInv`: what a caller's copy of the word allows.
- *Condition variable.* A broadcast is remembered per thread (`told`). `ToldInv`: one who has not slept yet has loaded an
  older count, so the comparison of the futex call fails; `SignalInv`: the threads a signal is due to stay blocked, with
  an older count, as long as the signaller holds the mutex. `RetryInv` confines the exceptions to those the code has.
- *Barrier.* `CountInv`: `inside` counts the threads inside, and calls are those passed and those inside. `RoundInv`, until
  an arrival is wiped out: one serial thread closes a full round, and every call belongs to a complete round, to the open
  one, or is before its arrival. Without a stale sequence the open round's arrivals are still there.
- *Semaphore.* `LocalInv`: a thread takes a token only from a word that has one; with `FlagOrCount`, announcing a waiter
  replaces a word without tokens.
- *Read-write lock.* `MutexInv`: the inner mutex excludes; `CountInv`: the count is the number of readers inside, and once
  a writer has marked it, it is larger for ever, which is the proof of `NeverAgain`; `LabelInv`: the waiters bit the
  writer means to set is never set.
- *Keys.* `GenInv` and `StoredInv` tie the generations in the table and in the slots, which are remainders, to the
  unbounded number of creations: equal remainders are equal keys unless a whole turn lies between. `CallInv` carries the
  destructor across the release of the mutex; `CleanInv` says that in the last pass the keys behind the scan are empty.
- *Threads.* `OwnersInv`: a block belongs to one thread. `AlwaysInv`: what the three program counters say of each other
  whatever is written to the block. `UnstompedInv`, for threads whose block nobody wrote over: the block is the thread's
  until it is released, and a join sees `exited` only from the thread itself.
- *Thread-local storage.* `BlockInv`: static objects are placed apart below the thread pointer, which needs that an
  offset rounded up to an alignment leaves room for the size; `IndexInv`: a dtv is never longer than the map, and an
  open object has its place in it; `CopyInv`: what a thread's copy holds; `MarkInv` and `FreshInv`: what is not yet there;
  `FaultInv`: who misses an entry.
- *Environment.* `EnvInv`: a name the process was not started with twice has one place in the list, and each entry that
  `setenv` made points to an allocated string. Lemmas on sequences (an entry replaced, one put behind, one removed by
  moving the last into its place) give the value of every name after each call, which is the step of `AbstractEnv`.
- *Locks of the loader.* `LockInv`: a thread holds what its calls have taken and not given back by where they are, and an
  outer call is where the program was called from. Every entry point takes the locks in one order, so of any set of
  threads the one that waits for the last lock waits for nobody else in the set.
- *Relocation.* `WordsInv`: what a word holds at each stage, by whether its object was relocated, relocated late, or
  neither; `AddendsSaved`: the addends are found again at the places they were saved at, since both passes meet the
  entries in the same order; `CopyInv`: a copy has what its definition had when it was made.
- *Child processes.* `OneChanger` and `SavedInv`, until two calls overlap or a popen finds no pipe: at most one call
  changes the dispositions, and what it saved is what the program had. `MaskInv`: a mask saved with SIGCHLD
  blocked is that of a thread whose popen found no pipe. `WaitInv`: a call waits for a child that was forked. `TableInv`: the child's descriptors are those its actions ask for,
  but for what its opens left behind.
- *System log.* `AloneInv`, while nobody has raced: one thread at a time opens or closes, `LOG_FD` names the only socket, and
  what that thread found of `LOG_FD` still holds when it uses it. `UnderInv`: nobody sends during a close that is not
  recorded. `DaemonInv`, `ReachInv`, `SendInv`: a connected socket has a daemon, a connect fails only when it was away,
  and a message under way has a descriptor. Trying to prove it showed that a first form of the model took the test of
  `LOG_FD` and the `socket` call in one step and so missed two threads that both find it closed; they are two steps now.

Facts about records, remainders, cardinalities and sequences are lemmas of their own, since the provers do arithmetic and
structure badly in one obligation. Every proof module sets Zenon with thirty
seconds as the method of a leaf that names none.

**Only model-checked.** Every liveness property, which needs reasoning about fairness and ENABLED: `SleepersWoken`,
`EveryoneGoesOn`, `TokenWakes`, the second part of `WaitersReached`, `WriterGetsIn`, `ExitEnds`, `EverythingEnds`. What
rests on folds or recursion over sequences, which needs induction over data: `ObjectsFound`, `NamesResolved`,
`RecordsFound`, `ConversionsRight`, `FloatsRight`, `ReturnsRight`. Not attempted: `SetUpInOrder`, `NothingDangles`,
`HandlersRun`, `FilesRead`.

## 5. Not modelled

- Wrappers of single system calls (`linux`, most of `posix/unistd.cpp`, `posix/socket.cpp`, `posix/stat.cpp`), which have
  no state; getters and setters of attribute objects; the C11 names of functions that are modelled.
- Stubs, which have no behaviour: `regex`, `tsearch`, `hsearch`, `iconv`, `strptime`, `resolv.cpp`; `fflush(NULL)`,
  `tmpfile`, `open_memstream`, `fmemopen`.
- Transcendental functions, which approximate real numbers; random number generators, which are fixed arithmetic.
- The slab allocator, whose source is elsewhere; `glob`; the reading of zone files; `mprotect` of segments
  (`protect_object`); the arithmetic of each architecture's relocation types, which is one formula each.
- Thread-local storage on aarch64, where `object_storage.cpp` places the objects upwards from the thread pointer: `Tls`
  and `StorageIsOwn` are about x86-64 and i386.
- Symbolic links in `realpath` (`posix/stdlib.cpp:228`): `CommandLine` is about paths that meet none. Environments that
  start with a string without `=`, over which `setenv`, `unsetenv` and `putenv` panic. The labels of a DNS query; those of
  a reverse query for IPv4 are in the order of the address (`posix/netdb.cpp:298`), where the name wanted has them
  reversed.
- The leading digit of `%a`: the code writes a 1 for every number that is not 0 (`ansi/stdio.cpp:660`), where
  `tests/ansi.cpp:450` expects `0x8.91a2bp+9` of a `long double`. `FloatsRight` is about the value that is read back,
  which is the same.
- Of the unwinder: the two-phase search, which calls personality routines that are not in the repository, and the formats
  that are not built (compact, SEH, EHABI, SjLj).
- Memory orders weaker than sequential consistency. Process-shared primitives differ from private ones only in how the
  kernel finds the queue. Thread cancellation is not implemented by the library.
