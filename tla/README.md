# A TLA+ verification of GrayCore

GrayCore is a C++ library of the things other programs are built on: locks, smart
pointers, queues and streams, singletons, threads, atoms (interned names), logs,
strings, files, configuration, and the frame of an application. It has no process of
its own. What can go wrong in it goes wrong between its callers: two threads inside the
same object, one thread that makes legal calls in an order nobody tried, or two
functions that should undo each other and do not. The modules here model those parts,
TLC checks them on small instances, and TLAPS proves, for instances of any size, what
matters most about those that keep state: the lock on which the others stand, the lock
for readers and writers that is built from it, the ring that does without one, the
singletons, the thread objects, the streams, the log, the atoms, the life of an
application, and who owns what: shared arrays and strings, blobs, smart pointers and
interlocked words.

Paths below are relative to the repository (`src/include/*.h`, `src/include/*.inl`,
`src/src/*.cpp`).

## 1. The system

### 1.1 Components

| component | state it keeps | operations | what makes it correct | modules |
|---|---|---|---|---|
| re-entrant lock: `cThreadLock.*`, `cLocker.h` | owner word, plain counter | Lock, LockTry(ms), Unlock, ClearThreadLockOwner | one thread inside; nesting counted exactly; free when, and (unless a thread was terminated) only when, the last guard has left; timed waits end | `ThreadLock` |
| reader/writer lock: `cThreadLockRW.h` | such a lock owned by all readers together, a second one around the readers' counting | LockRead, UnlockRead, Lock, Unlock, Upgrade | no writer beside a reader; no count lost; no grid lock | `ThreadLockRW` |
| singletons: `cSingleton.h`, `cDependRegister.*` | a pointer per type, the list of registered objects | get_Single, constructors, destructors, ReleaseModule, exit | one object per type; what is used outlives what uses it, unless its own module unloads; nothing of a module is left when it unloads | `Singleton` |
| static ring queue: `cQueue.h` (`cQueueStatic`) | array, read index, write index | Write1, Read1, ReadSpanQ, AdvanceRead | a FIFO for one reader and one writer without a lock | `QueueStatic` |
| growing byte queue: `cQueue.*`, `cQueueDyn.h`, `cStreamQueue.h` | buffer, two indexes, commit size, growth limits | read, write, grow, commit, seek | keeps the bytes and their order; does not commit what may be sought again | `QueueBytes` |
| streams: `cStream.*`, `cStreamStack.*`, `cStreamProgress.h` | transactions (scopes), buffers stacked on streams | Begin/Complete/Partial/Failed/End, ReadFillAligned, WriteX, WriteFlush, sizes and blobs, WriteStream | roll back is exact; whole blocks and whole packets only; what was written is read | `StreamPipe`, `Readers` |
| text reader: `cTextReader.*`, `cFileText.*`, `cTextPos.*` | a buffer before a file, the number of a line | ReadStringLine, SeekX, SetSeekEnd | place, buffer, file and line number agree | `Readers` |
| chunked queue: `cQueueChunked.h` | list of chunks with base indexes | read, write, SetEmptyQ | a FIFO | `QueueChunked` |
| atoms: `cAtom.*`, `cAtomManager.h` | two tables (by name, by hash code), reference counts | create, find, copy, SetAtomStatic, SetEmptyA | counts cover the handles; the object a name finds stays the one it finds until its last user goes | `AtomTable` |
| reference counts and smart pointers: `cRefPtr.h`, `cIUnkPtr.h`, `cUniquePtr.h`, `cPtrFacade.h` | a count with flags in its high bits, a pointer per owner | copy, assign, move, detach, release, query | freed at the last release, and once | `AtomTable`, `ThreadRef`, `SharedHeads`, `Pointers`, `Owners` |
| thread objects: `cThreadBase.*` | running/stopping flags, id, exit code, a reference of the thread to its own object | CreateThread, RequestStopThread, WaitForThreadExit, RunDirectly, onThreadExit | the object outlives the thread that has begun to run in it; a stop request is not lost; waiting means it has ended | `ThreadRef` |
| log system: `cLogMgr.*`, `cLogSink.*` | a list of sinks per nexus, a lock per nexus | addEvent, AddSink, RemoveSink, FlushLogs, filters | no sink twice; a change of the list costs or doubles no more than one call for a sink; every call returns | `LogNexus`, `LogFilters` |
| object service: `cObjectService.*`, `cObjectFactory.h` | factories sorted by name | register, unregister, release of a module | no entry of an unloaded module | `Factories` |
| arrays, lists: `cArray*.h`, `cSpan.h`, `cList.*` | elements in a block that grows, linked nodes | add, insert, remove, move, delete all | what was put in is there, in order; each element constructed and destructed once | `Arrays` |
| sorted arrays, hash tables: `cArraySort*.h`, `cHashTable.h` | elements in order, buckets | add, find, first and last of a key, remove, sort | stay sorted; a search finds what is there | `SortedArrays` |
| shared heads and strings: `cArrayT.h`, `cString.*` | counted blocks behind several variables | copy, write, resize, substrings | counts are exact; a write to one string is not seen through another | `SharedHeads`, `Owners` |
| memory: `cHeap.*`, `cMem.*`, `cBlob.*`, `cTempPool.*` | blocks, statistics | alloc, resize, move, swap, rotate, compare | each block has one owner and is freed once | `Blobs`, `Owners`, `Formats` |
| integers, bits, random numbers: `cBits.h`, `cUInt64.*`, `cValT.h`, `cRandom.*` | none | masks, shifts, byte order, 64 bit arithmetic on halves | agree with integers | `Words` |
| interlocked words: `cInterlockedVal.h` | a word that threads change without a lock | increment, decrement, add, exchange, compare-and-swap | as if each call were made at once | `Pointers`, `Owners` |
| unit tests: `cUnitTest.*` | tests in the order of their levels, a count of failures, whether a run is on | register, release of a module, run by level and names | a run takes each test it should, once, and counts what fails | `Factories` |
| strings: `StrT.*`, `StrNum.*`, `StrChar.*`, `StrU.*`, `StrFormat.*`, `StrBuilder.h`, `StrArg.*` | a builder's buffer | search, compare, quote, escape, split, match, print, parse, convert | conversions undo each other; nothing is written behind a buffer | `Numerals`, `TextBlocks`, `Formats`, `Words` |
| times: `cTimeUnits.*`, `cTimeInt.*`, `cTimeDouble.*`, `cTimeSys.*`, `cTimeZone.*` | timers | normalise, add, convert, print, parse, tick | one day however it is reached; a clock that wraps | `Calendar`, `Times` |
| files: `cFile*.*`, `cFileDir.*`, `cFileCopier.*`, `cFilePath.*` | OS files, open handles | copy, move, delete trees, trash, paths | what is left when one step fails; a path leads where it should | `Directories`, `Paths` |
| configuration: `cIni*.*` | a section as lines in one block, dirty bits | add, replace, remove, read, write | lines and block agree; what was set is read back | `Sections` |
| application: `cAppState.*`, `cAppImpl.*`, `cAppArgs.h`, `cAppCommand.h` | state of the process, arguments, commands | main, commands that run each other, close, abort, exit | an argument is used once; only a legitimate exit ends the process | `AppMain`, `Paths` |
| result codes, OS wrappers, MIME types, profiler, pointer tracing | little or none | | | |

`PROJECT.json` lists every component with its files and what of it is modelled.

### 1.2 How they interact

* Everything that is shared is guarded by `cThreadLockableFast` or its debug
  relatives, directly (`_LockLog`, the atoms' `_Lock`, `sm_LockAll` of the singletons)
  or inside `cThreadLockRW`. The modules compose the same way: each takes the lock as
  the abstract `ReentrantLock`, which `ThreadLock` is shown to implement, so that the
  lock's own steps need not be interleaved with theirs again. `ThreadLockRW` is the
  exception: it changes what an owner id means, so it instantiates the detailed lock.
* `cLogMgr` and `cAtomManager` are singletons, and almost every constructor of a
  singleton calls `get_Single()` of another one. Hence a thread's calls nest.
* A nexus is a sink itself, so locks of log nexuses are taken together, parent first.
* `cThreadRef` is an object counted by `cRefPtr`; the system thread holds one
  reference, its creator another, and neither locks anything.
* Streams sit on `cQueueDyn`, and stacks of streams on streams. They lock nothing:
  one thread calls, but calls of writer, filler and reader come in any order.
* The stores (arrays, lists, tables, strings, blobs, sections) belong to one caller
  each. The hash tables and the object service are sorted arrays, strings are shared
  heads, the temporary blocks are blobs, a file of settings is an array of sections,
  and the modules instantiate each other accordingly.
* An application is one main thread that runs commands, which may run further commands
  and load modules that bring commands. Other threads reach it only by its close flag,
  by `exit()` and by `AbortApp`.

### 1.3 What is hard

Interleavings at the level of loads and stores (lock counter, ring indexes, thread
flags, the state of the application); state read under a lock and used after it (sinks,
the unlocked check of `get_Single()`); lists changed while they are walked
(`ReleaseModule`, `addEvent`, `DisposeAll`, a hash iterator); hard termination of a
thread inside a lock; waiting by polling, where nobody is woken; transactions and
commits that invalidate each other's indexes; pointers into a buffer that moves; blocks
that several variables share; one file of a tree that cannot be moved; commands that
run each other; the boundaries of the calendar, of words and of buffers. The 40 hazards
in `PROJECT.json` name the lines, and say which property is there for each, or why none
is.

## 2. The modules

State machines of their own:

| module | models | abstraction it implements |
|---|---|---|
| `ReentrantLock` | (abstract) a lock that one thread holds to a depth | |
| `SharedLock` | (abstract) guards of readers and writers | |
| `BoundedFifo` | (abstract) a first-in first-out queue with a capacity | |
| `ThreadLock` | `LockThread`, `UnlockThread`, `ClearThreadLockOwner` | `ReentrantLock` |
| `ThreadLockRW` | `cThreadLockRW` and its guards; `INSTANCE ThreadLock` for the lock and an abstract reader lock | `SharedLock` |
| `ThreadLockRWUpgrade` | adds `cThreadGuardRead::Upgrade` | (does not implement it, section 5) |
| `Singleton` | `get_Single`, `cDependRegister`, `cDependMgr`, exit | |
| `QueueStatic` | `cQueueStatic` with a reader and a writer | `BoundedFifo` |
| `StreamPipe` | `cStreamStackPackets` → `cStreamQueue` → `cStreamStackInp`, read in `cStreamTransaction`s; instantiates `QueueBytes` | |
| `AtomTable` | `cAtomManager`, `cAtomRef`, their tables and counts | |
| `ThreadRef` | `cThreadState`, `cThreadRef` on Linux | |
| `LogNexus` | `cLogNexus` as a tree of sinks | |
| `AppMain` | `cAppStateMain`, `cAppImpl`, `cAppExitCatcher` | |
| `Owners` | shared heads, strings, blobs, temporary blocks, smart pointers and interlocked words under any calls; instantiates `SharedHeads`, `Blobs`, `Pointers` | |

Operators, each of which is what one call leaves behind or answers:

| module | models |
|---|---|
| `QueueBytes`, `QueueChunked` | queues of bytes in one buffer and in chunks |
| `Arrays`, `SortedArrays`, `SharedHeads`, `Blobs` | the stores (linked lists are in `Arrays`) |
| `Pointers` | smart pointers to objects that have smart pointers as members; what threads do to an interlocked word |
| `Factories` | factories of objects by name; unit tests by level |
| `LogFilters` | which event reaches which sink, and as what text |
| `Sections`, `Readers`, `Directories` | settings, readers and copies of streams, files and directories |
| `Calendar`, `Times` | dates; what is done with dates, ticks, file times, ranges |
| `Numerals`, `TextBlocks`, `Formats`, `Words`, `Paths` | characters, numbers and texts, words of bits, paths and arguments |

and the modules that put them to use: `MCValues` (pure functions against reference
definitions) and `MCStores` (stores, settings, readers, directories under any calls).
`MCStores` extends `Owners`: the kinds of store that have theorems are a module of their
own, without the recursive operators of the others. `MCSingleton`, `MCAtomTable` and
`MCAppMain` only give constants their values. The theorems about a module `M` of the first
table are in `M_proofs`, but for these: `Threads_proofs` is about `ThreadLock`, `ThreadRef`
and `AppMain`, `Queues_proofs` about `StreamPipe` and `QueueStatic`, `Managers_proofs`
about `LogNexus` and `AtomTable`, and those about `Owners` begin in `Heads_proofs`;
`Calendar_proofs` is about the operators of `Calendar`. A module of proofs that extends
several state machines sees their names together, which is why `ThreadRef`, `AppMain`,
`QueueStatic` and `LogNexus` have a `ThreadInit`, an `AppInit`, a `QueueInit`, a `LogInit`
and so on (section 4).

How state and actions correspond to the code:

* **ThreadLock.** `owner` is `_ThreadLockOwner`, `count` is `_nLockCount`. The
  `CompareExchange` and the final `Exchange` are one step each; `++` and `--` of the
  plain counter are a load and a store, with the loaded value in `reg`. A call is
  `Call`, then `CompareExchange`, `Collide`/`Wake` (one `SleepCurrent`, one tick of
  `nWaitMS`) or `GiveUp`, then `IncLoad`, `IncStore`. A thread in `Terminable` may be
  terminated between any two steps, after which its creator calls
  `ClearThreadLockOwner`.
* **ThreadLockRW.** `op[t]` is the call a thread is in. `LockRead` is `_ReaderLock`
  taken, the lock's `LockThread` under `kReaderThreadId`, `_ReaderLock` let go; its
  variables `owner`, `count`, `pc`, `reg` are those of `ThreadLock`, whose actions it
  uses with the reader id for the thread id.
* **Singleton.** Each thread has a stack of calls: `get_Single` of a type (check,
  lock, recheck, constructor, registration, unlock), `ReleaseModule` (a loop over the
  list, restarted after each deletion) and destructors. `pThe[y]` and `life[y]` are
  apart, because the pointer is stored by the base class's constructor, before the
  derived constructor has run. `Needs[y]` is what a type's constructor and destructor
  call `get_Single()` of. `UnloadModule` is `cOSModDyn::Unload`: it releases the module's
  singletons unconditionally (`cOSModDyn.cpp:85`) and gives up its count of the module
  only then (`:88`), so others that are linked to the module go on using it. `Maps[m]` are
  the modules that the system keeps mapped as long as `m` is loaded (what `m` needs is
  among them), `Mapped` what is left when some were told to unload: a thread calls
  `get_Single()` only of types whose code is there, and nobody unloads the code that some
  thread is in. That the types do not need each other in a circle is `OrderAssumption`; a
  circle of constructors does not return in the code either. `ReleaseSkip` passes by an
  entry of another module; the `ReleaseModuleChildren` that the loop calls on it
  (`cDependRegister.cpp:56`) changes only what that entry itself keeps, and is modelled
  where something is kept, in `AppMain` and `Factories`.
* **QueueStatic.** `Write1` loads its index, stores the element, publishes the next
  index; `Read1` loads, takes, advances. `get_WriteQtyT` and `get_ReadQtyT` are calls
  whose answers (`wRoom`, `rAvail`) a side may use later.
* **QueueBytes, StreamPipe.** A queue is a record of what the class keeps. Bytes are
  numbered in the order in which they were accepted, which is what makes losses,
  doubles and swaps visible. The classes lock nothing, so a call is a step.
* **AtomTable.** A call under `_Lock` is a step; the reference counts are changed
  outside of it, in steps of their own, and so is the decision of `SetEmptyA`. Hash
  codes may collide (`Code`). `SetAtomStatic` takes no lock: its search (`SearchStatic`)
  and its insertion (`InsertStatic`) are two steps, with the object in `adding` between
  them, and `aStatics` has the entries by the thread that inserted them, since two threads
  may both insert what both have not found. What two insertions at the same time do to the
  array itself is undefined and not modelled: both entries get in.
* **ThreadRef.** Every store of a flag is a step: the two stores of
  `CreateThread` before the thread exists, the thread's reference to its object, its
  exit code, its two flags, the release. `holders` are the `cRefPtr`s to the object.
  `CreateThread` takes none for the new thread, and a client may let go at any time
  (`ReleasePtr`): a thread that finds the object deleted goes to "undefined"
  (`RunOrphaned`), where the model follows it no further.
* **LogNexus.** A thread has a stack of `addEvent` loops (a nexus and an index), a
  lookup is a step under the lock, the call of the sink a step without it. Besides, each
  loop records which sinks were in its list all the time (`stay`), how often each got the
  event (`got`), and how often the list was changed at or before the place it had reached:
  `added`, `removed`.
  `RemoveSink` and `FlushLogs` descend into the nexuses below with the lock held.
* **AppMain.** `mainPc` is where main() is: each store of `_eAppState` is a step, and so is
  each command that begins or ends, so that other threads get between them. `calls` is
  the stack of commands that run each other, `valid` the bits of `_ArgsValid`, `next`
  the argument the loop of `RunCommands` is at. A command may do anything its interface
  allows: run others, take the arguments behind its own, fail, put itself off
  (`ERROR_INVALID_STATE`: its argument counts as not done again, even if another command had
  taken it), load or unload a module, abort. `at[t]` is how far another
  thread has come with `exit()` or `AbortApp`; `ExitCatch` is the catcher's decision.
* **The stores.** In `Owners` and `MCStores`, `x` is the store as the code keeps it
  and `r` what its callers have asked it to hold (a sequence, a set, a function). Each
  action applies the code's operator to `x` and its plain meaning to `r`. So `x` is
  compared with a specification that knows nothing of blocks, capacities, indexes or
  counts, after every prefix of every sequence of calls. A behaviour picks one kind of
  store in its initial state and keeps to it.
* **Pointers.** `ptr[s]` is where pointer `s` points to, a variable or the member of an
  object; `refs[o]` is the count of object `o`. `Release` follows the members, as the
  destructors do, one object per step (`ReleaseStep`), and there are no more steps than
  objects. `Owners` compares with what can be reached from the variables.
* **Interlocked words.** `CallInterlocked`, `LoadValue` and `SwapValue` are the steps of
  the loops around the compare-and-swap; `r` has the word as it would be if each call
  happened at its last step.
* **The values.** `MCValues` tries one input at a time and compares, e.g., the two ways
  of the code to the same result, a conversion and its inverse, an algorithm on
  halves with the integers, a search with a quantifier. Since `-coverage` expands
  definitions at each use, values are bound by `\A v \in {e} : ...`, which evaluates
  `e` once.
* **Sections.** `buf` is `_Buffer` byte by byte, `at` the pointers `_apLines` as offsets
  into it, `used` `_nBufferUsed`; what a new part of the buffer holds is `Junk`, so that
  a byte that is read before it was written shows.
* **Directories.** `fs` maps paths to directories or to the bytes of a file, `bad` are
  the paths on which every call of the system fails. `Os` selects the branches of the
  code for Windows or Linux where they differ.

Variables named "ghost" or kept "besides" in a module are not in the code; they record
what a property compares with.

The models are of the release build, in which `ASSERT` and `DEBUG_CHECK` do nothing. Where
one of these assertions fails in a state the model reaches, section 5.2 says so.

**Memory.** Loads and stores of a word are atomic and happen in program order, which
is what the build's targets give aligned words when the compiler keeps the order.
The C++ standard promises less for plain fields (`_nLockCount` is only changed inside
the lock, but the ring's indexes and the thread flags are shared). So what is shown
for `QueueStatic` and `ThreadRef` is shown under that assumption.

## 3. Runs

Each run finishes within about three minutes with two workers.

| run | instance | what it shows |
|---|---|---|
| `thread_lock` | 3 threads, nesting 2, waits infinite/0/1, one thread may be terminated | `MutualExclusion`, `FreedExactlyWhenLeft`; implements `ReentrantLock`; timed waits end (`LockTryReturns`), and of those who wait somebody gets in (`SomebodyGetsIn`) |
| `thread_lock_rw` | 3 threads, 2 guards each | implements `SharedLock`; nobody waits in a circle (`SomebodyMoves`) |
| `rw_upgrade` | 2 threads | the disagreement of section 5.1 |
| `singleton` | 5 types, 2 threads, one module that is told to unload while the program uses it, an object that others still refer to, exit | `OneObjectPerType`, `UsedOutlivesUser`, `NothingLeftOfModule`, `ReleaseReturns` |
| `queue_static` | 4 slots, 2 values | implements `BoundedFifo`; what either side was told stays true while the other goes on; a polled queue drains |
| `thread_ref` | creator and another client, 2 threads in a row | `ObjectOutlivesThread`, `WaitMeansExited`, `StopsWhenAsked` |
| `log_nexus` | 2 threads, a nexus in a nexus, 2 sinks, 4 changes | `NoDupes`, `EventReachesSinks`, `EveryCallReturns` |
| `atom_table` | 2 threads, 3 names of which two collide, 2 objects at once, 2 handles | `RefsAreExact`, `AtomStaysFound` |
| `stream_pipe` | buffers of 2 to 4 bytes, blocks of 2, packets of 1 and 3, 7 bytes, 2 transactions | `NothingLost`, `RollbackIsPossible`, `CommitComesBack`, `PacketIsTaken` |
| `app_main` | 1 thread beside main(), 4 command lines of up to 3 arguments, a module of 2 commands, commands 3 deep | `ArgsAreAccounted`, `StrayExitIsBlocked`, `CloseIsObeyed` |
| `values` | 21 kinds of inputs, below | `TimesAgree`, `TextAgrees`, `NumbersAgree`, `PathsAgree` |
| `stores` | 35 kinds of stores and inputs, below | `ArraysAgree`, `SortedAgree`, `OwnersAgree`, `SettingsAgree`, `ReadersAgree`, `DirectoriesAgree` |

The invariants of the last two runs have many parts, since one invariant speaks of a
family of components:

* `TimesAgree`: the day of a date is the same by seconds since 1970, by OLE dates, by
  the FAT's packed date and by counting; printing and parsing give it back; a timer on a
  tick that wraps, and a file time of two seconds.
* `TextAgrees`: a search finds what a quantifier finds, a pattern matches the texts it
  stands for, and quotes, escapes, blocks, templates, arguments and lists are taken
  apart into what was put together; events reach the sinks that want them.
* `NumbersAgree`: bits, byte orders, 64 bit arithmetic on two halves, UTF-8, digits in
  every radix, fields of a format, digests, ranges and noise.
* `PathsAgree`: the parts of a path make up the path; combining and making relative undo
  each other; what is resolved stays where it should.
* `ArraysAgree`: arrays, lists, chunked queues and the deletion of arrays whose elements
  delete each other. `SortedAgree`: sorted arrays with and without equal keys, hash
  tables and walks that remove, the factories and the unit tests of modules.
  `OwnersAgree`: shared heads, strings, blobs, temporary blocks and smart pointers have
  exact counts and one owner, and a word that two threads change by interlocked
  operations is what some order of whole calls makes of it.
* `SettingsAgree`: the lines of a section in its buffer, files written and read again,
  dirty bits after failures. `ReadersAgree`: a reader's place, buffer and line; sizes and
  blobs; a copy of a stream that fails. `DirectoriesAgree`: whatever calls of the system
  fail, no file of a tree is lost, nothing outside of it changes, and the operation can be
  done again until it is through with the files (empty directories are never removed).

**Bounds, and why they are enough.**
Three threads are one that owns the lock, one that collides and one that is terminated
(or a writer behind two readers); two deep is the first nesting that reaches the branch
of `UnlockThread` that does not free; a wait of 1 is the first that is counted down.
Five singletons are one everybody uses, one that uses it, one of the module that does
too and whose destructor makes others, one that is created late, and one of the program
that uses one of the module. A ring of four
slots wraps and is full and empty with different indexes; two values tell a
swap from an order. Two nexuses are the smallest tree in which two locks are held at
once. Four list changes let a sink be removed, added again and added elsewhere during
one `addEvent`. Three names with two codes give a collision and a bystander.
The stream's buffers are such that each of them fills, grows, reaches its commit size
and is full at a place that is no block boundary; seven bytes are more than any one
buffer, and two transactions are one inside another.
Three arguments are one command that takes the next and one that runs ahead of its turn;
three deep, a command that runs another that would run the first again. One other thread
is enough to come between any two steps of main().
The stores' constants are scaled so that a few calls reach their limits: arrays grow by
one spare slot per two, chunks hold two, tables have two buckets, a line of a section has
at most 4 characters and a section 48 bytes, a reader's buffer 8 (lines longer than the
buffer occur). Dates are at the ends of months of leap years, centuries and daylight
saving's changes; words have 8 bits, pairs two halves of 4, which are all their values;
three objects with a pointer each make a chain that is released from its head, and one
that is copied; the interlocked word has 2 bits and so wraps; unit tests are run with and
without names, and again after a run that failed. Texts are all of a small alphabet that
has each special sign in it, up to a length of 2 to 4. Capped by guards are: `MaxNest`,
`MaxCalls`, `MaxRuns`, `MaxHandles`, `MaxBytes`, `MaxScopes`, `Objects`, `MaxDepth`,
`MaxLater`, `MaxExtra`, and in `MCStores` the lengths of the stores
(`MaxSize`, `MaxUnique`, `MaxWritten`, `MaxUsed`, `MaxIniUsed`, `Turns`).

**Deadlock** is checked except in `thread_ref`, where everything ends once the last
thread has exited; `atom_table`, where static atoms that lost their table entry
are never freed and may use up the bound `Objects`; `app_main`, where the process ends;
and `values` and `stores`, where an input that has been tried, and a store at its
bound, have nothing left to do.

**Fairness**, and what in the code justifies it.
* Threads that are not dead run: weak fairness of each thread's steps inside
  `LockThread`, `UnlockThread`, `get_Single`, `ReleaseModule`, `addEvent`, and of the
  thread that `CreateThread` started. The code blocks only in `SleepCurrent`.
* Guards are C++ scopes, and scopes end: weak fairness of `Unlock` and of
  `cStreamTransaction`'s end. Clients are not required to lock anything.
* A sink that is called returns; a thread's work returns once it sees the stop flag.
* The ring's writer and reader finish a call they started; the reader polls.
* The stream's writer offers its packet again and calls the empty write in between, the
  filler fills, and the reader comes back to reading: the only strong fairness, since a
  reader may open and close transactions in between without end.
* main() goes on (weak fairness of `MainNext`), its commands come back, and none puts
  itself off for ever (`MaxLater`). Nobody else is required to do anything: an app that
  is not asked to close may stay in its tick.

`SomebodyGetsIn` promises somebody, not everybody: `LockThread` polls, so a thread may
lose every race. A run for each thread's own progress would fail, as the code says.

Each property of a passing run has a mutant in `PROJECT.json`: a definition changed as a
plausible bug would change the code, under which the property fails. These variants stand
beside the originals, are named for what goes wrong, and are used nowhere else.

What the checked properties claim is what the code keeps. Some modules also define what a
comment or an assertion says and the code does not keep (`LockTryCountsOne`,
`UsedByAnyModuleLives`, `HandedOutIsReady`, `FireAndForget`, `ThreadIdIsSet`,
`EventReachesAll`, `SinkOutlivesCall`, `AtomIsShared`, `RemoveAtomAsserts`,
`UnusedIsRemoved`, `AbortIsNotBlocked`): no run checks these, TLC finds each of them
violated on its run's instance, and section 5.2 has the story of each.

* `FreedExactlyWhenLeft` is two claims: a guard's thread owns the lock, always; and an
  owner word that names a thread names one that is inside, as long as nobody was
  terminated. A counter that never gets back to 0 after a termination is not excluded.
* `UsedOutlivesUser` excepts what another module's unloading takes away (`Orphaned`), and
  nothing else.
* `ObjectOutlivesThread` is about `CreateThread`, and about a thread from its own reference
  to the object on.
* `EventReachesSinks` bounds what changes of the list cost: of the sinks that are there
  from the first lookup to the last, at most one per removal at or before the loop's place
  misses the event, and at most one per insertion before it gets it twice.
* `AtomStaysFound` is an action property: a name that finds an object finds it until a
  `SetEmptyA` that had read of no other user takes it out (of one other, if the names
  collide), or a `FindAtomStr` that meets an object without a user.

## 4. Proofs

### 4.1 The lock

`Threads_proofs` proves, for every set of threads, every nesting depth and every set
of threads that may be terminated, from `ThreadsAssumption` (thread ids are not the null
id) and `BoundsAssumption` alone:

| theorem | what it says |
|---|---|
| `Inductive` | `IInv` is an invariant |
| `TypeCorrect` | `TypeOK` |
| `MutuallyExclusive` | no two threads are inside the lock |
| `CountExact` | while nobody was terminated, the plain counter is the owner's number of guards |
| `FreedByLastGuard` | `FreedExactlyWhenLeft`: never too early; not too late, while nobody was terminated |
| `Implements` | every behaviour of the lock is one of `ReentrantLock` |

None of the invariants is inductive by itself. That two threads exclude each other
follows from `OwnerIsInside`: whoever is past the compare-and-swap is named by the
owner word. That the word is not freed too early needs the counter to cover the guards
of whoever is inside (`CountCovers`); that a store of the counter does not undo another
one's needs what was loaded to be still there (`LoadedIsFresh`), which in turn needs
`OwnerIsInside`. `NestingLeft`, `ClearedIsEmpty` and `DeadIsOut` say where the program
counters can be. Terminations are why the counter has two invariants: afterwards it is
too large, so it still covers (`CountCovers`) but is not exact (`CountIsExact`, which
assumes that nobody is dead). The proof has a lemma for the steps of `LockThread`, one
for those of `UnlockThread`, one for terminations; each has a case per action.

### 4.2 The ring

`Queues_proofs` proves, for a ring of any size (`QtyAssumption`: at least one slot)
and any set of elements:

| theorem | what it says |
|---|---|
| `QueueInductive` | `QueueIInv` is an invariant |
| `TypeCorrect` | `QueueTypeOK`: the indexes stay inside the ring |
| `RoomStaysThere`, `AvailStaysThere` | `RoomIsThere`, `AvailIsThere` |
| `Implements` | every behaviour of the ring is one of a `BoundedFifo` of `_QTY - 1` elements |

The invariant is about the calls that are under way. `WriteHasRoom`: between its test
and its publication a `Write1` has room, since the other side can only make more.
`LoadedIsHead`: the element a `Read1` has loaded is still the first, since the writer's
slot is none of the reader's. `CountIsThere`: `AdvanceRead` still has the elements it
counted. Below it are lemmas about the arithmetic of `GetWrapIndex` and `get_ReadQtyT`
(`NextIsFree`: the test of `Write1` is exactly "one slot stays free"; `QtyAfterWrite`,
`QtyAfterRead`, `SlotOfWriter`, `SlotAfterRead`), and about the sequence of elements
that the indexes delimit: a store behind the last one changes nothing
(`StoreKeepsItems`), publishing appends (`PublishAppends`), advancing drops a prefix
(`AdvanceDrops`). The refinement is then one lemma per action.

### 4.3 The application

`Threads_proofs` also proves, for any threads, modules, tables of commands and command lines,
from `LinesAssumption` (a command line is a sequence, and there is a longest one) and
`BoundsAssumption` (those who abort are threads):

| theorem | what it says |
|---|---|
| `StrayExitsAreBlocked` | `StrayExitIsBlocked`: whoever calls `exit()`, the process ends only once main() has been through its own exit, or somebody gave it up |
| `ArgsAccountedFor` | `ArgsAreAccounted`: no argument's command runs twice or inside itself, and the user is told of exactly those arguments that nobody has done, taken or failed at |

For the first, the catcher's test of the state is only as good as the state: `ExitInv`
says that `_Exit` is stored only by main() on its way out or by an abort, and
`EndingStays` that neither is ever taken back, although main() may overwrite the state.
For the second, `ArgsInv` ties the bits of `_ArgsValid` to the history: a bit is set
exactly while the argument's command runs or once the argument is done with
(`ValidMeansDone`), the commands on the stack are different arguments (`RunningOnce`) and
have neither run nor failed (`RunningIsNew`). That is what makes the bit that is set
*before* the command runs enough: `StartKeeps` and `EndKeeps` are the lemmas for the
two steps that change it, and `ToldAtTheEnd` needs that nothing runs any more when the
rest is reported.

### 4.4 The reader/writer lock

`ThreadLockRW_proofs` proves, for every finite set of threads and every number of guards
alive (`IdsAssumption`: the reader id and the null id are no thread's; `BoundsAssumption`):

| theorem | what it says |
|---|---|
| `Inductive` | `IInv` is an invariant |
| `CountExact` | whenever no call is under way, the counter that all readers share is the number of guards alive, and the lock is free exactly when there are none |
| `ReadersExclude` | `ReadersExcludeWriters`, which `rw_upgrade` shows to fail as soon as there is `Upgrade` |
| `Implements` | every behaviour is one of `SharedLock` |

The theorems of the base lock do not carry over, since they count on an id standing for
one thread. In their place `OwnerMeans` says what the owner word means in each of its
three kinds of value: free, a thread, or all readers. `ReadersAreSerial` gives the
readers' `++` and `--` of the shared plain counter one place at a time (`_ReaderLock`),
and `LoadedIsFresh` needs just that: the one value that is loaded and not yet stored is
the counter's. `CountCovers` counts guards as pairs of a thread and a number, so the
lemmas `GuardBegins` and `GuardEnds` are about cardinalities; a guard whose `--` is under
way is counted once more. In the refinement a stored `++` begins a guard and the start of
an unlock ends one.

### 4.5 The singletons

`Singleton_proofs` proves, for all threads, types, modules, and whatever types use which
(`SingletonAssumption`):

| theorem | what it says |
|---|---|
| `Inductive` | `Base` is an invariant |
| `Registered` | what is registered is constructed, and in the list once |
| `OneObject` | `OneObjectPerType` |
| `NothingLeft` | `NothingLeftOfModule` |
| `DestroyedInOrder` | `UsedOutlivesUser`, from `OrderAssumption` as well: at exit, when the user's own module unloads, and whatever destructors make; only the unloading of the module of what is used takes it away |

`Base` is about the stacks of calls: which call may stand on which (`Stacks`), that
`sm_LockAll` is held once for each call that is inside it and by one thread
(`OneHolder`), that the calls that make or delete an object are one per object and know
its state, while it is not in the list (`Objects`), and that what the loop of
`ReleaseModule` has passed by is of other modules (`Loop`), although each deletion
restarts it and may have added to the list.

`UsedOutlivesUser` is the property the class exists for, and the list's order alone does
not give it: objects are deleted in the middle of the list, destructors make new
singletons, and a second thread adds to the list between two deletions. `Deep` is what
it takes. `Makers`: an object that is being built or deleted has a call that does so, so
that a thread inside the lock that finds an object finds a ready one unless it is its own
(`Descends`: calls of one stack are of types of lower and lower rank, so it is not).
`Built`: what a constructor has called for so far is ready, and stays so, since deletion
needs the lock it holds. `Ordered`: an object stands in the list behind those it was
built upon, and nobody was built upon one that is not in the list yet. Then
`ReleaseModule` at an entry is right for two reasons: those before it were not built upon
it (`Ordered`), and those behind it, which the loop has passed by, are of other modules, so
that what they lose was taken by the unloading of another module (`Orphaned`). `Ordered`
and `Built` make the same exception, and `Hosted` says that a `ReleaseModule` under way is
of a module that was told to unload, or of all of them. The lemmas come in groups:
what one change of a stack does to each part (`...After`), then one lemma per kind of
step.

### 4.6 The thread objects

`Threads_proofs` also proves, for every set of clients and any number of threads that an
object runs one after the other (`ClientsAssumption`, `RunsAssumption`):

| theorem | what it says |
|---|---|
| `ThreadInductive` | `ThreadInv` is an invariant |
| `ObjectOutlives` | `ObjectOutlivesThread`, whoever lets go of the object when |
| `WaitedMeansOver` | `WaitMeansExited` |
| `RequestsAreKept` | a stop request stands until the thread it was made of is over, which is the safety that `StopsWhenAsked` rests on |

The flags are stores of several threads without a lock; they are right because each has
one writer at a time. `OneAtATime`: a thread before the last is over, and so is the last
while the owner creates another. `RunningCovers`: the flag that `WaitForThreadExit`
polls is up from before the thread exists until after its last store. `OwnerHolds` and
`ThreadHolds` say who keeps the object: the owner while it is in `CreateThread`, the thread
from its own reference to the end of `onThreadExit`. Between the two nobody does, and
nothing is claimed of that time.

### 4.7 The log

`Managers_proofs` proves, for every tree of sinks, any threads and any number of changes
(`LogAssumption`: there is a root, and the null id is no thread's):

| theorem | what it says |
|---|---|
| `LogInductive` | `LogIInv` is an invariant |
| `NoSinkTwice` | `NoDupes` |
| `EventReaches` | `EventReachesSinks`: how many sinks a changed list can cost the event, or give it twice |

`RemoveSink` takes a sink out wherever it stands; that it leaves the rest in order is
`WithoutPresent`, over the place of the one occurrence `NoDupes` allows, and what a loop
that walks the list by an index meets afterwards is `ListChanges`. `Loops`, the part of
`LogIInv` about the `addEvent`s under way, says which of the list's sinks each of them has
delivered to. Of those that stayed, the ones below its index without the event are no more
than the removals it was told of, the ones at or behind its index that have it, or that
have it twice, no more than the insertions; the sets are compared by their cardinalities
(`AtMost`, `OneMore`). One change of the list moves at most one sink over a loop's place
(`ServedStays`), and `LoopsAreTold` shows that a change is counted by every loop it
disturbs, and by no other.

### 4.8 The atoms

`Managers_proofs` also proves, for all finite sets of threads and names, every hash function
and any number of objects and handles (`NobodyAssumption`, `FiniteAssumption`):

| theorem | what it says |
|---|---|
| `Inductive` | `IInv` is an invariant |
| `RefsExact` | `RefsAreExact`: each count is the number of table entries, handles, strings and drops under way, so that no table has an object that was deleted |
| `AtomFound` | `AtomStaysFound`: the object a name finds stays the one it finds until its last user's drop takes it out |

`Counts` is the sum over six sets of references, and each step moves a reference from one
to another: `Summands` and the lemmas behind it say what a changed entry does to its
summand. `Entries` says that the two tables agree, but for the names that lost their entry
to another name with the same code. The hard step is `RemoveAtom` (`StepRemove`), which
runs on a count that was read outside of the lock. `Readings` is what that count still says
then: as long as the object is in `aNames`, `SetEmptyA` read of no other user, or of one if
another name has its code, since `kRefsBase` counts the entry that the other name may have
taken. `Pending` is about static atoms between search and insertion, which a handle keeps.
Others may have found the object since; that is why the theorem is about the reading and
not about the users there are at the removal (`AtomIsShared` in section 5.2).

### 4.9 The streams

`Queues_proofs` also proves, for buffers, blocks and packets of any size and any number of
transactions in each other (`PipeAssumption`: sizes are not zero, a block and a read fit
into the reader's buffer, a packet into the writer's):

| theorem | what it says |
|---|---|
| `Inductive` | `IInv` is an invariant |
| `NothingIsLost` | `NothingLost` |
| `RollbackStaysPossible` | `RollbackIsPossible` |
| `CommitIsRestored` | `CommitComesBack` |

`Holds(q, n)` says that a queue's buffer is a run of consecutive bytes of which `n + 1` is
the next to be read; what was read and is still in the buffer is part of the run, which is
what a rollback depends on. The first half of the proof is one lemma per operator of
`QueueBytes`: what it does to the run, the indexes and the capacity (`ReadCommitNowKeeps`,
`SeekQMoves`, `GetWritePrepGrows`, `WriteSpanQAdds`, ...). `InPlace` joins the three runs
end to end. `Marks` is about transactions in each other: an inner scope starts at or behind
the start of the one around it, so that after its rollback the outer one can still roll
back. `Commits` is why commits come back: only the outermost scope found a
commit size other than 0, so only its end restores one. `StepReadFillAligned` is the hard
step: it reads from the wire, puts a part back, and lets the wire commit, all in one call.

### 4.10 Owners

`Owners_proofs` proves, for any elements and characters, any number of variables, blobs,
turns, smart pointers, objects and threads, and words of any width (`HeadsAssumption`: the
heap has a block more than there are variables; `BlobsAssumption`: a block for each blob,
and static memory that is apart from the heap; `PointersAssumption`):

| theorem | what it says |
|---|---|
| `OwnersInductive` | `OwnersInv` is an invariant |
| `OwnersSafe` | `OwnersAgree`, the invariant of the run `stores` |

A behaviour keeps to one kind of store, so `OwnersInv` is one invariant per kind, and a
step has to keep the one of its kind (`OwnersStep`). Each says that the store has what its
callers asked for, and why it goes on having it:

* `Agrees`, for arrays that share heads. `Exact`: the count of a head is the number of
  variables that point to it, and a head without any is free. `Others` is the frame: an
  operation on one variable leaves the others their heads and what is in them. Each
  operator of `SharedHeads` is made of four changes (`Emptied`, `Renewed`, `Pointed`,
  `Rewritten`: a variable leaves its head, gets a new one or another's, or is written
  to), and that a new head is found at all is a count: each head in use is some
  variable's (`HeapHasRoom`). `SetAtIs` and `ResizedAlone` are about what is seen through
  the others that share.
* `TextsInv`, for strings: no variable holds a head without characters (`Full`), and the
  hash code that a head keeps is that of its text or none (`Coded`). `AllocIs` is the
  lemma the rest stands on: a buffer that somebody else has is left to them before it is
  written.
* `BlobsInv` and `PoolInv`, for blobs and temporary blocks. `Good`: a block has one owner, a
  block that is not nothing has an owner, the number of allocations is the number of such
  blocks, and a blob fits its block. `Loose` is the state between two steps in which the old
  block of a blob is let go and the new one is not there yet. `NextTurn` and `LatestFirst`
  are the arithmetic of the turns: the block of the k'th latest call is not taken again
  before all others were.
* `PtrInv`, for smart pointers. `Counted`: the count of an object is the number of pointers
  and of callers' hands that hold it, and the member of an object leads to a later object
  only, so that there are no circles. `Release` is a loop along the members; `LeftOf` is
  what is left of the objects when one of them and what only it led to is gone, and that the
  loop gets there within as many steps as there are objects is by induction over them
  (`ReleaseIs`). The reference definition asks what can be reached from the variables; that
  each object whose count is not zero can be reached is shown by taking the first that
  cannot (`LeastNumber`), which something that comes before it would have to hold
  (`ClosedHasThere`).
* `WordInv`, for words: whatever a thread has loaded before, the word is what the calls that
  have ended make of it, and each call's answer is the value it found.

Induction over numbers is possible after all: `SetInduction` derives it, for a set instead of
an operator, from the cardinalities of finite sets (below a number that the set lacks, `a + 1`
would map the set's numbers into themselves without 0, which are fewer), and a set is what
each of these proofs needs. `Heads_proofs` has the first two kinds, with the lemmas about
sequences (`PaddedIs`, `InsertedSeq`, `WithoutIs`, `SeqOfPart`, ...) that the others use too.

### 4.11 The calendar

`Calendar_proofs` proves what the run `values` tries on the dates of eighteen years, for
every date that `IsValidTimeUnits` accepts, in UTC:

| theorem | what it says |
|---|---|
| `LeapYearsAreCounted` | the count of leap days and `IsLeapYear` agree, in years of any sign |
| `DaysAreWalked` | a day number for each date, without a gap over months and years |
| `UnitsReadBack` | `cTimeInt::GetTimeUnits` undoes `InitTimeUnits`, for every second of 1970 to 2037 but the first, which it refuses |
| `InstantsAgree` | `cTimeInt` and `cTimeDouble` reach one instant, 1970 to 9999 |
| `DatesReadBack` | `cTimeDouble::DecodeDate` undoes `EncodeDate`, years 1 to 9999 |
| `DoublesReadBack` | `cTimeDouble::GetTimeUnits` undoes `InitTimeUnits`, from 1899/12/31 on |
| `WeekdaysAgree`, `DaysOfWeekAgree` | three computations of the day of the week |
| `SundaysAreFound` | the Sunday at which daylight saving starts or ends |
| `DosDateReadsBack` | the packed date of FAT, 1981 to 2107 |

Three pieces of code count days in three ways, with truncating divisions of numbers that
may be negative and corrections by one that differ: the sum from 2000 (`cTimeInt`), the sum
from year 1 (`cTimeDouble`), and a remainder that never counts days (`GetDOW`). The lemmas
relate each to a year's parts: `YearGuessed` is why the division by 365, which may answer
the next year, is put right by what is left (`LeapDaysSince70`: the leap days between);
`EpochIs` says that only 1970/1/1 00:00:00 has no seconds, the one date of those years that
`GetTimeUnits` takes for "not a legal time"; `SplitYearIs` writes the days before a year in
its 400 years, century, four years and year, from which `YearDecodes` follows `DecodeYear`
division by division; `DayInTable` is the 29th of February. The bounds are the code's: the
product that overflows in `GetTimeUnits` from the 69th year on, the years that `EncodeDate`
accepts, the seven bits of a FAT year. Time zones, texts and the adding of days, which is
recursive, stay with the run.

### 4.12 Model-checked only

* Liveness: fairness and `ENABLED` are out of the prover's reach.
* The nine other invariants of `values` and `stores`, but for the conversions of dates in
  `TimesAgree` (4.11). Most of their operators are recursive (scanners, parsers, radix
  conversions, sorts, walks of directories), and the prover has no means to reason about
  a module that has such operators.

## 5. Where the code disagrees with its documentation, or with itself

### 5.1 Shown by a run

* `rw_upgrade`: `Upgrade` releases the read lock and the guard's destructor
  releases it again, which frees the lock under another reader
  (`cThreadLockRW.h:79`).

### 5.2 Found while modelling

The models have these as the code has them, or leave the calls out that run into them
(then it says so in the module). Those that several threads or several calls must meet:

* `LockTry` asserts that its lock is the first, `get_LockCount() == 1`
  (`cThreadLock.cpp:70`), although "multi locks on a single thread are allowed and counted"
  (`cThreadLock.h:111`): a thread that has the lock and tries it once more gets it and fails
  the assertion of a debug build, and so does whoever takes it after
  `ClearThreadLockOwner`, which leaves the counter where it was. `LockTryCountsOne` of
  `ThreadLock` is no invariant.
* After a thread was hard terminated in the lock its counter starts too high
  (`cThreadLock.h:102`), so no guard's end brings it back to 0, and the lock is never free
  again. The properties about freeing say "while nobody was terminated".
* The pointer of a singleton is published by the base class, so the unlocked check of
  another thread returns an object whose constructor still runs (`cSingleton.h:69`):
  `HandedOutIsReady` of `Singleton` is no invariant.
* `cOSModDyn::Unload` releases the singletons of its module without asking whether the
  module is used by others (`cOSModDyn.cpp:85`), and only then gives up its count of it
  ("It might be freed.", `:88`). A module that is linked to it and stays, or the program,
  loses what its singletons were built upon while they live, which are to "get destroyed in
  proper order" (`cDependRegister.h:17`): `UsedByAnyModuleLives` is no invariant.
  `UsedOutlivesUser` makes that exception.
* `ReleaseModule` asserts that its list has not grown when a singleton was deleted
  (`cDependRegister.cpp:67`). When the destructor makes two singletons, [log, ext] becomes
  [log, app, late], as in the run `singleton`, and the assertion fails; the loop, which
  starts over, is right nevertheless (`NothingLeftOfModule`, `ReleaseReturns`).
* `CreateThread` takes no reference for the new thread, which takes its own when it runs
  (`cThreadBase.cpp:54`). Whoever starts a thread and lets go of the object, "Fire and
  forget." (`cThreadBase.h:200`), may have it deleted before; the thread then runs in a
  deleted object. `FireAndForget` of `ThreadRef` is no invariant.
* On Linux `pthread_create` starts the thread before `CreateThread` has stored
  `_nThreadId`. A new thread that is faster fails "GetThreadId() is set already in
  CreateThread" (`cThreadBase.cpp:27`) and the assertions at `:25`, `:37`, `:56` and
  `cThreadBase.h:218`: `ThreadIdIsSet` is no invariant.
* `addEvent` uses a sink that `RemoveSink` may free between the lookup and the call
  (`cLogMgr.cpp:45`; "addEvent() is multi thread safe.", `cLogMgr.h:33`):
  `SinkOutlivesCall` of `LogNexus` is no invariant.
* `addEvent` walks the sinks by index and lets go of the lock between two of them
  (`cLogMgr.cpp:87`). `RemoveSink` of a sink at or before the index makes it pass by the
  next one, `AddSink`, which inserts at the head, makes it come to the same one again,
  although it should "route it to all applicable sinks" (`cLogMgr.h:63`): `EventReachesAll`
  is no invariant, and `EventReachesSinks` bounds the damage.
* `SetEmptyA` decides by a count that it reads without the lock (`cAtom.cpp:116`). A lookup
  between the reading and `RemoveAtom` gets an atom that is then taken out of the tables
  under its user, and the next lookup makes a second one of the name that should be "A
  single string name shared by all" (`cAtom.h:21`) or "never removed from the atom tables"
  (`cAtomManager.h:39`). Two names with one hash code do the same, since the second takes
  the first one's entry in the table by code. So `AtomIsShared` of `AtomTable` is no
  invariant, and the assertions of `RemoveAtom` that both tables have the atom and that
  its count comes to 1 fail (`cAtom.cpp:38`, `:40`, `:43`; `RemoveAtomAsserts`), as does
  "this should never happen!" in the table whose entry is the other atom's
  (`cArraySort.h:54`).
* "Remove the cAtomRef from the tables if last use" (`cAtom.cpp:115`): two handles that are
  dropped at once may both read that there is another one, and a `cStringA` that shares the
  object may go last; then an atom without a user stays in the tables (`UnusedIsRemoved` is
  no invariant). The local handle of `FindAtomStr` takes an atom that has no user and no
  entry by code out while it finds it.
* `SetAtomStatic` changes its table without the lock (`cAtom.cpp:82`), and two static atoms
  with one hash code run into the "should NEVER happen!" of the sorted array
  (`cArraySort.h:166`).
* After one small packet a `cStreamStackPackets` refuses a packet of the size it was
  made for, on every retry (`cStreamStack.cpp:100`).
* `AbortApp` stores `_Exit` so that the "cAppExitCatcher should not block this now."
  (`cAppState.cpp:490`), but main() may store its own next state before the catcher
  looks: `AbortIsNotBlocked` of `AppMain` is no invariant.
* A command that puts itself off (`ERROR_INVALID_STATE`) is tried again only if it ran
  ahead of its turn; in its turn, the argument is reported as unknown
  (`cAppImpl.cpp:207`). `RegisterCommand` does not override (`cAppCommand.h:76`).
* A second factory of a name is refused and stays unregistered when the first one goes.
* `RemoveArgKey` of an object that a sorted array does not have, while it has another one
  with the same key, runs into an assertion that this "should never happen"
  (`cArraySort.h:54`). It answers false; `stores` makes such calls.
* `WaitUnique` waits while the object is *not* locked (`cThreadLock.cpp:13`);
  `cThreadLockableMutex::LockTry` passes a duration for a point in time
  (`cThreadLock.h:178`); `WriteSpanQ` may leave the ring's write index outside of it
  (`cQueue.h:508`); `put_Ptr` releases
  before it references (`cRefPtr.h:282`).
* `cQueueChunked::SetEmptyQ`, and deleting the last chunk, leave the chunks' base
  indexes where they were (`cQueueChunked.h:154`), and its own assertions fail next.
* `CloneBeforeWrite` asserts that nobody else has the head it has just left
  (`cString.cpp:79`), which fails with three sharers. The hash code is kept after a
  change in place (`cArrayT.h:31`).
* `cBlob::ReAllocLazy` overwrites the size's upper byte, and the block is never freed
  (`cBlob.cpp:82`). The move assignments of `cBlob` and `cStringT` leak.
* `AddAfter` inserts behind the last of a key, which need not be the order of addresses
  the array is searched by (`cArraySortRef.h:155`).
* `FileWriteN` clears the dirty bit before it writes, and leaves it so if that fails
  (`cIniObject.cpp:25`). A section of settings without a title that is added late is
  written below the header of another.
* The move constructor of `cUniquePtr` copies the pointer and leaves it in its source too
  ("move constructor is safe.", `cUniquePtr.h:40`), so two pointers delete one object. It is
  left out of `Pointers`.
* `cIUnkPtr::put_Ptr` lets the old object go before it counts the new one
  (`cIUnkPtr.h:79`), although its assignment says it has "to prevent new objects from being
  destroyed before assigned": a new object that only the old one holds is gone by then. The
  run assigns objects that something else holds.
* `RunUnitTests` takes each name out of its list when that test has run, and an empty
  list stands for every test: with names, all tests behind the last one named run as well
  (`cUnitTest.cpp:377`). A run whose tests fail returns before its cleanup, so that it stays
  running, and the next run takes the counting callback for the original one.
* On Linux a wildcard skips the files that match (`cFileDir.cpp:276`), so every
  directory looks empty for the default "*"; an empty directory is neither copied nor
  removed; `CopyFileStream` has its test of `bFailIfExists` inverted
  (`cFileCopier.cpp:17`) and copies as many bytes as the *destination* has;
  `ReadDir` passes a bool for the flags of the search (`cFileDir.cpp:407`); opening for
  reading and writing with `OF_CREATE` truncates.
* A text reader's seek to a place inside of its buffer counts from the wrong end
  (`cTextReader.cpp:99`). `ReadStringLine` drops the rest of a line that is too long.

and those of single functions:

* `cTimerSys::OnTickCheck` fires while its time is still ahead and never afterwards
  (`cTimeSys.cpp:94`). `AddDays` backwards over the start of a month or a year, `AddMonths` by a
  negative number and `get_DosDate` of 1980 are wrong (`cTimeUnits.cpp:346`, `:331`);
  `GetTimeUnits` overflows in the 69th year, and refuses 1970/1/1 00:00:00, which
  `InitTimeUnits` makes (`cTimeInt.cpp:148`); "12:30 AM" is read as the afternoon.
* `StrArg` of a negative number loses its last digit, as does `AddCSV`
  (`StrArg.cpp:54`); hexadecimal digits that fill their buffer lose the last one to the
  leading 0; "%02d" of 100 prints "0100"; `FindCharRev` never finds the first
  character; `FindWord` may loop for ever (`StrT.inl:224`); a pattern's trailing `*` does
  not match nothing; `ToUpperW` and `ToLowerW` of 0x100 to 0x1FF move the wrong way.
* `Lowest1Bit` counts from 0 with GCC's intrinsics and from 1 without (`cBits.h:255`);
  the pair of halves ignores the high one when it is compared with a number;
  `CopyRepeat` reads one byte behind its source (`cMem.h:323`); `CompareIndex` indexes
  words by the number of a byte (`cMem.cpp:122`); `GetHexDigest` writes two characters
  for each byte of room (`cMem.cpp:171`).
* "../../b" becomes "b"; the directory of "/a" is empty; `IsRelativeRoot` matches in the
  middle of a name (`cFilePath.cpp:471`).
* `GetLineParse` returns a key with its "=" (`cIniSection.cpp`).

## 6. Not modelled, and why

* In the modelled components: `WaitUnique` and `cThreadLockableMutex` (nobody calls
  the one, the other wraps an OS mutex); the Windows branch and `ExitCurrentThread`
  of the thread objects; the throttle of the logs (nothing reads it) and
  `AddSinkCheck`; `WriteSpanQ` and `SetEmptyQ` of the ring, which leave states that its
  other operations exclude (hazards); streams below and above a stack that fail;
  the thread local nesting of module loads in `cAppState`, its user name cache and the
  non-atomic `|=` of `sm_IsInAppExit`, which is taken as one step with the store of the
  state; `cThreadArray`, each
  operation of which is one of `cArray` under one lock; archives, resource directories
  and links in directories.
* A module that the system really unmaps: `cOSModImpl::OnProcessDetach` releases its
  singletons a second time then (`cOSModImpl.cpp:51`), which finds those that were made
  again in between; and a module that is loaded again. In the application, an `exit()` that
  a command calls in main()'s own thread, and exceptions. A thread in an object that was
  deleted before it began, and two insertions into the table of static atoms at the same
  moment, are undefined, and not followed.
* Floating point: TLC has no such numbers. `cTimeDouble`'s conversions are taken as
  exact, `cFloatDeco` and `%g` are left out.
* Memory below the level of blocks: alignment, pages, debug fill patterns, Windows
  heaps. The OS's files, handles, modules and registry: the code decides nothing about
  them that the callers' modules do not have.
* Formatting of error texts, MIME types, profiler, pointer tracing, interfaces and type
  names, build files; of the unit tests, where their data files are found.

## 7. Plan

1. *Locks, singletons, ring, threads, logs, atoms, streams*: done, with the proofs about
   the lock and the ring.
2. *Stores, settings, readers, directories, pure functions, application*: done, with the
   proofs about the application.
3. *Proofs*: done for every state machine, the owners of heads, blocks and objects among
   them, and for the calendar. To come: the arrays and sorted arrays of `stores`, once their
   recursive operators are written as functions; action properties that say more than the
   invariants do.
4. *Models to come*: `AddSinkCheck` and sinks that are freed, once the code holds a
   reference to them; streams that fail below a stack.
