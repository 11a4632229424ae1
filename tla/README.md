# Models and proofs for smd4

smd4 is a set of small C libraries: threads, signals, atomics and a queue
(`src/thread.h`), sockets behind integer handles (`src/sock.h`), child processes
(`src/smd_proc.h`), command-line options (`src/getopt.c`), paths and file-system
wrappers (`src/minfs_*.c`) and text encoding (`src/smd_unity0.c`). This directory holds
TLA+ models of its stateful parts, the TLC configurations that check them on small
instances and TLAPS proofs of their main properties for every instance.

Every module is translated from the code; where header comments promise something else,
the comment is what a property states and the code is what the model does. Line numbers
in comments are those of the file named, and `PROJECT.json` maps each definition to the
lines it stands for.

## 1. Inventory

| Component | State | Operations | What is hard |
|---|---|---|---|
| Signals, thread.h 865-1027 | mutex, condition variable, `value` | init, raise, wait, term | notification after the unlock, spurious wakeups, several waiters, timeouts that race a raise |
| Signal deadlines, thread.h 996-1005 | `ts`, `tv` | part of a POSIX wait | seconds and microseconds from two looks at the clock, the carry |
| Atomics, thread.h 1030-1236 | one word | load, store, inc, dec, add, sub, swap, compare and swap, for ints and pointers | POSIX stores and swaps are two writes; a `long` cell behind an `int` interface; overflow |
| Queue, thread.h 1383-1449 | `count`, `head`, `tail`, slots, two signals | init, produce, consume, count, term | test and sleep in two steps, signals that stay up, ignored results of waits, counters that overflow |
| Sockets, sock.h 99-412 | `sockets[]`, descriptors in the kernel | initialize, open, listen, connect, accept, send, receive, close, shutdown | handles reused at once, a full table, partial failures, uninitialised fields, readiness |
| Threads, thread.h 672-770 | the system's name of a thread | create, exit, join, destroy | destroy joins again on POSIX; names are given out again; exit flags and signals shared with a thread must outlive it |
| Mutexes, TLS, timers, thread.h 773-862, 1238-1380 | an OS object | one system call each | nothing of their own |
| Processes, smd_proc.h | three `FILE`s and a pid or handle per child; pipe ends in every process | create, join, destroy, the files | parent and child run side by side after the fork, pipe ends inherited by later children, pids given out again, a child whose exec fails, full pipes |
| Options, getopt.c | `optind`, a cursor in a group of short options, `optarg` | `gop_init`, `gop_next`, `single` | missing arguments at the end of argv, a cursor that must go with its word, names cut short |
| Paths, minfs_common.c | the caller's buffers | parent, leaf, without_ext, join | buffer sizes off by one; roots, one-byte parents, doubled and reversed slashes |
| File system, minfs_posix.c, minfs_win.c | the file system | create_directories; otherwise wrappers of one call | test and mkdir in two steps, next to others that create and remove; results nobody looks at; on Windows a conversion of the path |
| Text encoding, smd_unity0.c | none | `utf8_codepoint`, `uc2_to_utf8` | bounds of the encoded ranges |

How they interact: a queue owns two signals and three atomic ints and is the only caller
of both in the library; a signal's timed wait on POSIX computes its deadline on entry; a
socket handle is an index shared by every function of `sock.h`, with no lock around the
table. A thread and its owner share what the owner sets up for it, an exit flag (an atomic)
or a signal. Programs hand the paths they put together with the path functions to
`minfs_create_directories`. The other libraries do not call each other.

What makes each correct:

- *signal*: an auto-reset event. One wait returns 1 for one raise not yet taken; a raise
  is not left lying while a waiter sleeps; a wait with a timeout comes back;
- *deadline*: a valid point in time, not before the timeout and not a second after it;
- *atomics*: each call takes effect at once and leaves and returns what its comment says;
- *queue*: entries come out once and in order, nothing is stored over an entry, nothing
  outside the array is touched, the ends are never at one slot, no wakeup is lost;
- *sockets*: a handle stays the same socket, slots do not share descriptors, neither
  descriptors nor slots are lost, whatever fails;
- *processes*: a handle stays that of its own child, a child is fed what was written to it
  once and to the end, its output has an end, and a join comes back;
- *options*: the calls report the words of argv completely, once and in order, and come
  to an end, whatever the program's options and the command line are;
- *threads*: a join returns the value of the very thread its caller created, comes back,
  and what an owner takes down after it is used by nobody;
- *paths and directories*: a program gets the directory it means and no other, whatever
  sequence of functions led to the path and whoever creates directories at the same time,
  and no more is written than a buffer holds.

## 2. Modules

| Module | Models |
|---|---|
| `AutoResetEvent` | abstract: what a signal promises. It is also the branch of the code for Windows before Vista, action for action |
| `ThreadSignal` | the mutex and condition-variable signal, POSIX and Windows |
| `ThreadDeadline` | the computation of `ts` |
| `AtomicCell` | abstract: an int on which each operation takes effect at once |
| `ThreadAtomic` | the atomics as machine instructions, gcc builtins and Interlocked |
| `BoundedFifo` | abstract: a FIFO of `Size` entries with refusals |
| `ThreadQueue` | the queue between one producer and one consumer |
| `ThreadLifecycle` | threads with the flags and signals they share with their owners, POSIX and Windows |
| `SockTable` | the socket table and the calls on it |
| `Process` | child processes and their pipes, POSIX and Windows |
| `Getopt` | gop_next over any argv, and what a command line means |
| `MinfsPath` | the path functions and the conversion of paths, as operators on sequences of bytes |
| `Minfs` | programs that put paths together and create directories on one file system |
| `MCThreadQueue`, `MCThreadAtomic`, `MCSockTable`, `MCGetopt`, `MCMinfs` | entries, operations, words, paths and symmetry for TLC |
| `*_proof` | the theorems about the module of that name; those about `ThreadDeadline` are in `ThreadSignal_proof` |

How state and actions correspond to the code:

- **ThreadSignal.** `mutex` is its holder, `pc[t]` the place of a thread in its call. An
  action is what a thread does between two points where another can interfere. Blocking
  and releasing the mutex is one step (`WaitSleep`), as the condition variable
  guarantees; being woken (`"woken"`), woken for no reason and timing out are separate,
  and the mutex is taken back in a later step. The notification of a raise (`RaiseNotify`)
  comes after its unlock. `pthread_cond_timedwait` is given a point in time and may time
  out a thread already notified; `SleepConditionVariableCS` is given the timeout afresh.
  `swallowed` is history: a wait that timed out used up a wakeup another sleeper needed.
- **ThreadDeadline.** The clock is in microseconds, the unit of every nanosecond count in
  that code; the sizes of a millisecond and a second are constants. Its names (`stage`,
  `DeadlineSpec`, `DeadlineTypeOK`) differ from those of `ThreadSignal`, so that one module
  can prove about both.
- **ThreadAtomic.** `type` says whether the cell is an int's or a pointer's, which has the
  four operations of `PtrKinds`. `word` has the width of the cell (`MaxCell`: a `long` for an
  int, which on Windows is as wide as an int and with gcc may be wider; a pointer's is as
  wide as what its functions take) and results that of an int (`WrapTo`).
  `__sync_lock_release` after an exchange writes 0, in a second step.
- **ThreadLifecycle.** `os` is the system's table of threads by name; a name is free again
  once its thread was joined on POSIX, or its handle closed on Windows. `at` is the place of
  an owner between setting up and taking down: `SetUp` is a flag of 0 and a fresh signal,
  `StoreFlag` and `ReleaseFlag` the two instructions `ThreadAtomic` has for a gcc store,
  `RaiseSet` and `RaiseNotify` the two halves of a raise around its unlock, `WaitSignal` the
  end of a wait. Join and destroy are a call and a return with everything in between; a
  refused `pthread_join` returns the `retval` nobody wrote. `TakeDown` is
  `thread_signal_term`, and the end of the flag's stack frame. `mine` and `stale` are history.
- **MinfsPath, Minfs.** A path is a sequence of `Bytes`, of which `/`, `\`, `.`, letters and
  the two halves of a character beyond ASCII are told apart. A result is the path in the
  buffer and how many bytes were written. A node of the file system is `/` or `.` and the
  sequence of names that leads to it from there; `Names` takes a path apart at its slashes,
  from the last one back, as a recursive function of how much of the path it looks at. `StatFinds`, `StatFindsNothing` and `Mkdir` are one round of
  `minfs_create_directories`, with `mark` for `mrk`; other programs, and the rest of the
  system (`Delete`, `PutFile`, `MkdirFails`), act between any two. `meant` is history: the
  node a program takes its path to stand for, as long as the functions it called do what
  their names say, else `Unknown`; `wrote` is what its latest call wrote.
- **ThreadQueue.** Each atomic operation, slot access and signal operation is a step. The
  two signals are Booleans that a raise sets and a wait takes: `AutoResetEvent`, which
  `SignalImplementsEvent` shows the signals are. Waits that end early are
  `ProduceTimeout`. `Posix` makes `thread_atomic_int_store` leave 0, as `ThreadAtomic`
  has it. `sent`, `got` and `early` are history: the entries that went in and came out, and
  whether a wait has ended on a queue that was still full (or empty), by its timeout or by a
  signal left up from before.
- **SockTable.** `handle`, `ready` and `blocking` are the fields of `sockets[]`, `open`
  the descriptors open in the kernel, `held` what each user believes is behind a handle.
  Calls are one step each, since the table has no lock and nothing promises anything to
  several threads; what failed inside a call is a choice. malloc does not clear `ready`
  and `blocking`, so `Init` leaves them open. The set of sockets that `would_block` hands to
  `select` on Winsock is not cleared either (lines 126 and 130): it need not hold the socket
  asked about, and any answer may come of what it holds (`WouldBlock`). On POSIX
  `select( 0, ... )` looks at no set and times out. Users drop a handle when a call on it has
  returned -1, because most such calls have closed it; `abandoned` is history: the slots of
  those that have not. `result` is what the latest call returned.
- **Process.** `ends` says which process has which end of which pipe; fork copies all the
  parent has, CreateProcessA what `SetHandleInformation` left inheritable. Between fork and
  return (`at = "forked"`) and in waitpid (`"waiting"`) the program is inside a call while
  the children go on: `KidSide` is the child's half of `process_create`, and filters,
  writers and programs that cannot be run are what comes after it. `buffer` is what a
  `FILE` of the parent holds back, `copy` what a forked child has of it until exec. `written`
  and `creates` are history. A call that fails (`CreateFails`) leaves the pipes made
  before it. One platform per behaviour is chosen in `Init`.
- **Getopt.** A word is reduced to what `gop_next` tells apart: operand, `--`, a group of
  letters, a long option with its name and whether it has a `=`. `optcursor` is a place in
  the group; NULL and the end of a group, which line 69 treats alike, are 0. `optarg` is a
  place in argv, and `log` a history of what was returned. `Meaning` reads a
  command line word by word and without a cursor (`Group` and `Long` say what one word gives
  and how many words it takes with it) and is what `ReportsArgv` compares with.

## 3. Runs

Deadlock is checked in `atomics`. In the others the system may stop: nobody has to
raise, produce or make another call, and bounds end the run.

| Run | Shows | Bounds, and why they are enough |
|---|---|---|
| `signal` | `ImplementsEvent`, `NoStrandedRaise`, `RaiseReleasesWaiter`, `TimedWaitReturns` on POSIX | 2 raisers and 2 waiters: a raise can be stolen, and a wakeup used up by a timeout while another waiter sleeps. 5 calls and spurious wakeups together: two waits, two raises and one more of any |
| `queue` | `NoLostWakeup`, `CountersAgree`, `FifoOrder`, `NoSlotRace`, `SleeperWakes`, `ImplementsFifo` with every timeout of either side | 2 slots, so that full and empty are one operation from each other; 3 initial entries of which 2 fit; ints of -5..4 with 6 entries each way, so that the ring goes round three times and all three counters overflow; 2 values, so that order shows. The consumer's timeouts are 0 and infinite: line 1436 waits without one whatever else it is given |
| `queue_stale_data` | violation of `ConsumesOnlyEntries` | |
| `atomics` | `ImplementsCell` on both platforms, for an int and a pointer | 2 threads, ints of -2..1 and gcc cells of -4..3, every operation with arguments that overflow either and compares that fail |
| `atomics_store` | violation of `SetsTheValue` with the gcc builtins | |
| `threads` | `DataOutlivesThread`, `JoinReturnsOwn`, `JoinsReturn` on both platforms | 2 owners, 2 names, 3 threads that return, poll or raise: a name is given out again, to the same owner or the other, while the first still holds it |
| `minfs` | `WritesFit`, `CreatesWhatIsMeant`, `CreatesNothingElse` on both platforms | 2 programs, 2 paths created of 7 (a dot in a directory, a one-byte parent, the root, doubled and reversed slashes, a character beyond ASCII), 2 calls with 3 leaves between them, one disturbance; a buffer of 8 bytes, which some joins fill, exceed or miss by one. The programs are symmetric |
| `deadline` | `DeadlineTypeOK` (which says that the deadline is a valid one), `NeverEarly`, `LateByLessThanASecond` | milliseconds of 2 and seconds of 6 microseconds, a clock of 0..20: each carry happens, and a second ends between the two looks; timeouts below, at and above a second |
| `sock` | `SlotsOwnFds`, `HeldMeansOwn`, `NoSlotLost`, `NoFdLeak` on Winsock, where every call can fail | 2 users, 2 slots, descriptors 0, 3, 4: a full table, the null handle given out, descriptor 0, reuse of slots and descriptors. The users are symmetric |
| `getopt` | `OptindInArgv`, `ReportsArgv`, `Progress` | every argv of up to 3 of 32 words: groups of up to 2 letters and one of 3, long names exact, cut short, ambiguous and unknown, with and without `=`, operands and `--`. Options of all three kinds of argument, one with a flag, and one whose name begins another's; 3 words are an option, its argument and one more |
| `process` | `HandlesOwnTheirChildren`, `OutputEnds`, `InputIntact`, `JoinReturns`, for a program that flushes before it creates | both platforms, 2 handles, 2 pids, 2 creates and a write to each child: the second child is created while the first runs, has exited or was reaped, with or without its pid, after a create that failed or not |
| `process_input` | violation of `InputIntact` for a program that does not flush | POSIX |

Of the properties:

- `ImplementsEvent` is safety of everything users can see of a signal. It holds with any
  number of waiters. `NoStrandedRaise` and `RaiseReleasesWaiter` have one exception: POSIX
  lets `pthread_cond_timedwait` report a timeout to a thread it has notified, and with a
  second waiter asleep the raise then stays up while that waiter sleeps on. The header
  says a signal "can be waited on by one thread" (thread.h:282-283), which rules it out
  (theorem `NoWakeupIsUsedUp`).
- `NoLostWakeup` is the one that makes the lockless test of `count` sound; `SleeperWakes`
  is the same as a promise. They hold although consumers may take what is not there.
- `CountersAgree` is modulo the range of an int: it says that overflow alone does no harm
  to `count`. What it does to the slots is in section 4.
- `FifoOrder`, `NoSlotRace` and `ImplementsFifo` hold of callers that poll and of callers that
  sleep, up to the first wait that ends early or the first counter that overflows (`Orderly`),
  and of none after it: the finding of `queue_stale_data` and the timeouts of section 4
  are such waits. Without `Orderly` TLC finds all three violated. `NoSlotRace` is what
  makes the unlocked slots sound: the two sides are never at one slot.
- `JoinReturns` leaves out two ways in which a join does not come back. On POSIX a child
  created later has inherited the write end of the earlier one's input (nothing is
  close-on-exec), so that the end of the input does not come while the later child lives.
  And a child that writes more than a pipe holds waits for a reader, while the reader
  waits for the child.
- `OutputEnds` is about POSIX: on Windows the parent never closes its own copies of the
  write ends, and the output has no end.
- `InputIntact` depends on the program flushing its files before it creates a child; what
  happens otherwise is the finding of `process_input`.
- `ImplementsCell` leaves out what the gcc builtins do otherwise: the second write of a store
  or swap (`Release`), which leaves 0, and the compare of a word that no int equals.
  Everything else they do, next to these, is covered. `SetsTheValue`, which makes no such
  exception, is what `atomics_store` finds violated.
- `DataOutlivesThread` is about owners that join or destroy a thread before they take down
  what they share with it, as the example at the top of thread.h does. One that terminates
  the signal after a mere wait, when the raiser may still have to notify, is not modelled.
- `NoSlotLost` and `NoFdLeak` hold whatever `select` answers and whatever fails. They leave
  out slot 0, which a full table gives out, and descriptor 0, which is taken for a failure;
  `NoSlotLost` also leaves out a send that returns -1 after it has sent less than it was
  given, and does not close its socket as the other calls that return -1 do.
- `HandlesOwnTheirChildren` is about the first join of a handle.
- `JoinReturnsOwn`, `DataOutlivesThread` and `JoinsReturn` leave out names that were
  destroyed after a join (`stale`), which thread.h:229-231 recommends and which joins a second
  time on POSIX; section 4 has the behaviour. `JoinsReturn` also leaves out POSIX threads that
  poll an exit flag, which a gcc store does not raise for good.
- `CreatesWhatIsMeant` and `CreatesNothingElse` follow a path only through calls that do what
  their names say; section 4 lists the others. `WritesFit` allows the one byte that a join
  with a slash writes beyond what line 115 counts.
- `OptindInArgv` and `Progress` hold whatever the options are. `ReportsArgv` compares with
  what the code's comments say of groups and arguments and takes two choices of the code
  as they are: a name that is complete and also begins another option's is ambiguous, and
  a missing argument is `:` in all cases.

### Fairness

`signal` and `queue` assume weak fairness of each thread's steps inside a call: a thread
that can run is run in the end. Calls are not fair (nobody has to make one). In
`signal` deadlines pass in the end, since the clock does. Mutexes of the operating system
are not starvation-free, so nothing stronger is assumed of taking one; instead the calls
and spurious wakeups of a behaviour are bounded (`MaxEvents`), and a mutex all others have
left is taken. `process` assumes that the program, once inside a call, and every child go
on when they can (weak fairness of `CreateReturn`, `JoinReturn` and each child's steps);
no call is fair. `threads` assumes that the system runs every thread (weak fairness of its
steps) and that a join or destroy whose thread has exited returns; an owner need not do
anything. Safety properties assume no fairness.

## 4. Where code and documentation differ

Shown by runs (`PROJECT.json`, "findings"): a signal left up by an entry taken without a
wait ends a later wait on an empty queue; a gcc store of anything but 0 leaves 0; a child
that cannot be run writes the program's unflushed text to an earlier child a second time.

Plain to read in the code, with no interleaving to explore, and part of the models but not
run:

- thread.h:1416: a produce whose wait timed out stores its entry all the same, over one not
  yet consumed (498-500: "If the wait timed out, a value of 0 is returned");
- thread.h:1419 and 1439: `tail % queue->size` is negative once `tail` has overflowed, after
  2^31 entries (479: "an array of queue slots (`size` elements in length)");
- thread.h:1422: produce returns 0 when it has added its entry (500: "otherwise a non-zero
  value is returned");
- thread.h:1436: consume waits without a timeout (511-512: "or until `timeout_ms`
  milliseconds have passed");
- thread.h:1416 with 1441: `space_open` left up ends a wait on a full queue, the mirror
  image of `queue_stale_data`;
- thread.h:1389-1390 with 1055: on POSIX the entries a queue is initialised with are not
  counted (480-481);
- thread.h:983: on Windows each round of the loop starts the whole timeout again (308);
- thread.h:1001: where `time()` lags behind `gettimeofday()` the deadline can be almost a
  second early (`TimeLag` > 0 in `ThreadDeadline`), and where a second ends between the two
  looks it is up to a second late;
- thread.h:1136, 1192 and 1214: as the store of an int, so do its swap and the store and swap
  of a pointer with the gcc builtins leave 0 (NULL) in the cell. Line 1056 has the effect that
  the exit flag of the example (thread.h:143) is up for an instant only and the join after it
  may never return;
- thread.h:744: on POSIX a destroy after the join that thread.h:229-231 recommends ("This can
  be accomplished by calling `thread_join`") joins a name that is no longer the caller's.
  Where it was given out again, it takes another owner's thread away: without the exception
  for `stale`, `threads` has a behaviour of 9 states in which that owner's own join is then
  refused and returns a `retval` that was never written;
- thread.h:1153: where `long` is wider than `int`, a compare and swap compares the whole
  word and can return `expected` without having stored (374-375);
- sock.h:203, 186, 325: with a full table open, listen and accept return 0 and hand out the
  null handle (44-45: "Returns 0 on success", "Returns -1 on failure");
- getopt.c:218 with 183: `longindex` keeps its old value after an unknown option;
- minfs_common.c:68, 71: leaf returns the length of the name plus one where the path has a
  slash;
- minfs_common.c:34-36, 59-62, 84-86: parent, leaf and without_ext turn the slashes of the
  caller's `const` string;
- minfs_common.c:38-40: the parent of a path without a slash is the path itself, and that of
  `/a` is empty; line 87: without_ext cuts at a dot in a directory's name;
- minfs_common.c:124-128: join puts no slash after a parent of one byte: `a` and `b` give
  `ab`; line 115: where it puts one in, it may write one byte past `buf_size`;
- minfs_common.c:15-20: a path goes on by one byte after each character, so that on Windows it
  ends after the first one beyond ASCII; smd_unity0.c:72: the conversion back writes every
  code whose low seven bits are not all 0 as one byte;
- minfs_posix.c:77-86: create_directories looks at no result and returns OK whatever happened;
- sock.h:165: shutdown leaves the descriptors open, as its TODO says;
- smd_proc.h:364-383: what a failing create has opened stays open;
- smd_proc.h:489: the `fclose` in a join writes to a child that may be gone, which ends a
  program that does not ignore SIGPIPE;
- sock.h:133: `select( 0, ... )` looks at no descriptor on POSIX, so that a call on a
  non-blocking socket that is not marked ready always returns 1, also when the connection is
  there (53, 60: 1 if it is not ready); sock.h:126 and 130: on Winsock the set it is given was
  never cleared, so that any answer may come of it; sock.h:146: `ready` may be set from the
  start; sock.h:351: a send that takes less than it was given returns -1 and leaves the socket
  open; sock.h:191: descriptor 0 is never closed; sock.h:377 and 320: errors of `recv` and `accept` are reported as
  0 and 2.

## 5. Proofs

For all values of the constants that satisfy the ASSUMEs of the modules:

| Theorem | States | Argument |
|---|---|---|
| `ThreadSignal_proof!TypeOKInvariant` | `[]TypeOK` | inductive |
| `SignalImplementsEvent` | `Spec => ImplementsEvent` | each step maps to a step of the event or to none. `IInv` adds: the mutex is held exactly by the thread whose place says so (`MutexHeld`), hence `value` is still 1 when the waiter that saw it clears it (`ClearsRaised`); only waits with a timeout are overdue (`OverdueTimed`), so only those can map to `Expire` |
| `NoRaiseStranded` | `[]NoStrandedRaise` | inductive with `IInv`: a raise that finds sleepers wakes one; a waiter goes to sleep only on 0; a timeout of a notified waiter is on record |
| `NoWakeupIsUsedUp` | `[]~swallowed` | from `NotificationsSafe`: Windows, or no timeouts, or one waiter |
| `ThreadQueue_proof!TypeOKInvariant` | `[]TypeOK` | inductive, overflow included |
| `WakeupsAreKept` | `[]NoLostWakeup` | inductive with the places each side can be at when `count` leaves 0 or `Size` |
| `QueueIsFifo`, `SlotsAreNotRaced`, `QueueImplementsFifo` | `[]FifoOrder`, `[]NoSlotRace`, `Spec => ImplementsFifo` | `Ordered`, as long as `Orderly`: `count` is exactly the number of entries, `head` and `tail` run ahead of the history by the slot claimed, and slot `i % Size` holds entry `i + 1`, which two entries less than `Size` apart do not share. A side past its check has room (or an entry), which the other side can only add to. Any timeouts. Assume `InitKeepsCount` |
| `CountersStayTogether` | `[]CountersAgree` | `CountersCount`: `count`, `tail` and `head` each equal, modulo the range of an int, what they count; a slot counts as claimed before its entry is in the history, so that `tail` and `head` are ahead between claim and publish. Any timeouts and any overflow. Assumes `InitKeepsCount`: on POSIX a queue that starts with entries forgets them (section 4) |
| `ThreadAtomic_proof!TypeOKInvariant` | `[]TypeOK` | inductive |
| `OperationsAreAtomic` | `Spec => ImplementsCell` | each instruction maps to its operation on the cell as an int: a cell whose width is a multiple of an int's wraps the same (`WrapAddsMultiple`, `ToIntOfSum`). Assumes `WidthAssumption`, that multiple |
| `OverdueWaitComesBack` | `OverdueComesCloser`, `[]OverdueGoesOn` | the safety half of `TimedWaitReturns`, stated in `ThreadSignal_proof`. A wait whose deadline has passed has at most five steps left (`StepsLeft`); every wakeup, timeout and step of its own takes it closer, none sends it back to sleep, and what can hold it up is a mutex whose holder waits for nobody (`MutexHeld`). Assumes `Posix`: on Windows each round starts the timeout again (section 4), and TLC finds the wait going back to sleep |
| `ThreadLifecycle_proof!TypeOKInvariant` | `[]TypeOK` | inductive |
| `DataOutlivesEveryThread`, `EveryJoinReturnsOwn` | `[]DataOutlivesThread`, `Spec => JoinReturnsOwn` | `IInv`: an owner that may still join or destroy holds the name of its own thread and of no other, unless the name is stale, so that a join which returned did so for that thread, and the name is given out again only then |
| `JoinedThreadGoesOn` | `[]JoinedGoesOn` | the safety half of `JoinsReturn`, stated in `ThreadLifecycle_proof`. `RunInv` adds to `IInv`: a thread does what its owner created it for (`JobsKept`), and on Windows a flag that was stored stays up until the thread has been ended (`FlagsUp`) |
| `DeadlineTypeOKInvariant` | `[]DeadlineTypeOK` | from `DInv`, the invariant of the two below |
| `DeadlineIsNeverEarly`, `DeadlineIsWithinASecond` | the other invariants of `deadline` | division with remainder by a second, before and after the carry; `DeadlineIsNeverEarly` assumes a `time()` that does not lag |
| `SlotsOwnDescriptors` | `[]SlotsOwnFds` | inductive once slots hold descriptors the kernel gave out; any failures, a full table and descriptor 0 included |
| `SockTable_proof!TypeOKInvariant` | `[]TypeOK` | inductive, in two halves: `ShapeTypes` for the table, `FlagTypes` for flags and results |
| `HandlesMeanTheirSockets`, `NoDescriptorIsLost` | `[]HeldMeansOwn`, `Spec => NoFdLeak` | lemma `StepShape`: each step of each call is one of four, as far as slots and descriptors go: it leaves them alone (`Stays`), puts a new descriptor into a free slot or slot 0 (`Gives`), closes a slot and its descriptor (`Closes`) or closes a descriptor that never got into one (`Drops`). The properties are proved for the four |
| `NoSlotIsLost` | `[]NoSlotLost` | inductive with the types of the slots, over the four shapes of a step (`HolderStep`): what gives a slot out gives its user the handle, and what takes a handle away closes the slot, but for the send of line 351 |
| `Getopt_proof!TypeOKInvariant`, `OptindStaysInArgv` | `[]TypeOK`, `[]OptindInArgv` | inductive together with the type of `log`; a call returns one report (`ReturnFacts`) and moves within argv unless it reports a missing argument (`Moved`) |
| `CallsMakeProgress` | `Spec => Progress` | from the same invariant: the cursor is inside its group, so that stepping over a letter reaches the next letter or the next word (`StepOverFacts`) |
| `CallsReportArgv` | `[]ReportsArgv` | `Scanned`: what was reported, followed by what the rest of argv means from the cursor on (`Ahead`), is what the whole command line means, and no letter of the group that was passed has an argument. Each call takes its report off the front of what is ahead, for a letter without an argument (`PlainLetterScanned`), with one (`LetterWithArgumentScanned`) and a long option (`LongOptionScanned`). Assumes that `"done"`, the model's -1, is no letter (`LettersAssumption`) |
| `WritesStayInBuffer` | `[]WritesFit` | `WInv`: types, the mark inside the path, and what each function writes, by the places its searches find (`LastOfFacts`, `BeforeFits`, `LeafFits`, `JoinWrites`) |
| `MakesNothingElse` | `Spec => CreatesNothingElse` | `MInv`: as long as the node meant is known, it is that of the path (`MeansPath`), and the mark is at a slash or behind the path (`MarkAtSlash`). For each path function a lemma says what node its result stands for (`ParentMeans`, `LeafMeans`, `ExtMeans`, `JoinMeans`); `PrefixNode` says that what is before a slash stands for a node on the way |
| `MakesWhatIsMeant` | `Spec => CreatesWhatIsMeant` | `Reached`, on top of these: the directory the next prefix is to be in is there, or a file is in the way; from one prefix to the next the node stays or goes down by one name (`OneMore`). Needs `Tree`: whatever is there is in a directory that is there, whoever made or removed what |
| `Minfs_proof!TypeOKInvariant` | `[]TypeOK` | from `WInv` and `Tree` |
| `Process_proof!TypeOKInvariant` | `[]TypeOK` | inductive |
| `HandlesKeepTheirChildren` | `[]HandlesOwnTheirChildren` | inductive once creates are numbered: no two open handles are from the same create, so that the join of one does not reap the child of another, and a pid is given out only when nobody has it |
| `OutputsComeToAnEnd` | `[]OutputEnds` | `WritersInv`: what has exited has nothing open, and on POSIX the parent has a write end of an output only inside the `process_create` that made it. Children inherit write ends from one another's creates, so that the statement is about all of them together |
| `ChildrenAreFedIntact` | `[]InputIntact` | `InputInv`: what was written to a child that may read is in the pipe or in the FILE (`Feeds`); a FILE that holds anything is the open stdin of a handle (`BufferHeld`), behind which the parent has the write end (`StdinOpen`); no child has a copy of it (`NothingCopied`); the pipes of creates to come are untouched (`Fresh`). Assumes `FlushesFirst`; without it `process_input` shows the opposite |
| `JoinWaitsForNoOther` | `[]JoinedInputEnded` | the safety half of `JoinReturns`, stated in `Process_proof`. `JoinInv`: who can write into an input is the parent while stdin is open (`ParentFeeds`), the child itself until it has closed its copy, or on POSIX a child of a later create (`InputWriters`); children are told apart by their creates (`KidsApart`) |

The hypotheses named above (`InitKeepsCount`, `Posix`,
`FlushesFirst`, no lag of `time()`) hold in the runs of the same properties; the other case
is a finding or listed in section 4. Apart from these the theorems rest on the ASSUMEs of
the modules, which TLC evaluates in the runs. Those of `Minfs` say that paths and leaves are
sequences of `Bytes`, of which `/` is one. The strengthened invariants of `Process` and
`Minfs`, `RunInv` and the two statements of `OverdueWaitComesBack` were checked with TLC
before they were proved.

Recursive definitions are functions on numbers (`Reading`, `NamesUpTo`), and the searches of
the path functions are places in a sequence. What is proved of them by induction (that they
exist, and what they give for a part of their argument) goes by the least counterexample: a
set of numbers that is not empty has a least element (`LeastExists`, from the
well-foundedness of `<`), which gives induction for a given set of numbers (`InductionUpTo`).

Every safety property of a passing run is a theorem. Only model-checked is liveness
(`RaiseReleasesWaiter`, `TimedWaitReturns`, `SleeperWakes`, `JoinReturns`, `JoinsReturn`),
which needs fairness and ENABLED and is beyond the prover; of each the safety half is a
theorem (`NoRaiseStranded`, `OverdueWaitComesBack`, `WakeupsAreKept`, `JoinWaitsForNoOther`,
`JoinedThreadGoesOn`).

The Windows branch of the signal is covered by the theorems, which hold for both values of
`Posix`, and not by a run.

## 6. Not modelled

- `thread_queue_term` and `sock_shutdown`: they end an object's life; the documentation does
  not say when that is allowed. (`thread_signal_term` is in `ThreadLifecycle`.)
- The name of a thread, its stack size and its priority.
- The debug owner check of the queue (`NDEBUG` not defined): never fires with one thread at
  each end.
- Of processes: the command line and the environment, exit codes, a `waitpid` that a signal
  interrupts, `fdopen` that fails, a struct that is used for a second create before it was
  destroyed, and a second join of the same handle, whose pid may by then be another's.
- Of options: NULL entries of argv, and calls after -1 was returned.
- Mutexes beyond their use in a signal, thread-local storage, timers (switched off),
  scheduling, and the wrappers of a single system call: no state of their own.
- Of minfs: read_directory and read_directory_entries (which never copy names and do not
  close the directory on POSIX), canonical_path, make_relative, temporary files, move, delete
  and the queries: single calls of the system, or string handling without state.
- `uc2_to_utf8`: see section 4; its arithmetic involves no state.
- `sock_get_address`, `sock_host_to_str`, `sock_get_host_name`: conversions by libc.
- The build files, the configuration headers and the vendored files.

## 7. Plan

In this order:

1. Termination of queues, next to a producer between its unlock and its notification.
2. A second join of a handle, and failures of `fdopen`, in `Process`.
3. canonical_path and read_directory of minfs, on the nodes `Minfs` has.
4. A run of the signal for Windows, where a spurious wakeup starts the timeout again.
